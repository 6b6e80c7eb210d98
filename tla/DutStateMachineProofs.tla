------------------------ MODULE DutStateMachineProofs ------------------------
(* Proofs about DutStateMachine, DutHistory and Orchestrator, for any set of *)
(* stations, boot media and markers and any queue capacity.                  *)
EXTENDS Orchestrator, SequenceTheorems, TLAPS

FsmTypeOK ==
    /\ state \in DutState
    /\ medium \in Mediums
    /\ op \in [trig : Trigger \cup {"none"}, medium : Mediums]
    /\ todo \in Seq(Calls)
    /\ exc \in BOOLEAN

LEMMA TypeParts == TypeOK <=> BoardTypeOK /\ FsmTypeOK
  BY DEF TypeOK, FsmTypeOK

\* TypeOK is not inductive: the destination is looked up in Dest, so a callback
\* that is still running must belong to a trigger.
FsmInv == FsmTypeOK /\ (todo # <<>> => op.trig \in Trigger)
TypeInv == BoardTypeOK /\ FsmInv

LEMMA TriggerNames == Trigger = {"power_off", "energize", "boot_to_bootloader",
                                 "boot_to_os", "boot_to_recovery"}
  BY DEF Trigger, Dest

LEMMA DestType == \A t \in Trigger : Dest[t] \in DutState
  BY TriggerNames DEF Dest, DutState
-----------------------------------------------------------------------------
(* The helpers of the board                                                 *)

\* One more chunk never makes the permanent subscriber's queue too long.
LEMMA PushType ==
  ASSUME NEW q \in Seq(Chunk), Len(q) <= QMax, NEW c \in Chunk
  PROVE  Push(q, c) \in Seq(Chunk) /\ Len(Push(q, c)) <= QMax
<1>1. CASE Len(q) < QMax
  BY <1>1, BoardAssumption DEF Push
<1>2. CASE ~(Len(q) < QMax)
  <2>1. Len(q) = QMax /\ q # <<>>
    BY <1>2, BoardAssumption
  <2>2. Tail(q) \in Seq(Chunk) /\ Len(Tail(q)) = Len(q) - 1
    BY <2>1
  <2> QED BY <1>2, <2>1, <2>2, BoardAssumption DEF Push
<1> QED BY <1>1, <1>2

LEMMA RxType ==
  ASSUME BoardTypeOK, NEW p
  PROVE  Rx(p) \in Seq(Chunk) /\ Len(Rx(p)) <= QMax
<1>1. Prints(p) \in Chunk
  BY DEF Prints, Chunk
<1> QED BY <1>1, PushType DEF Rx, BoardTypeOK

\* A flushed queue, and one that holds a single chunk.
LEMMA ShortQueues ==
  /\ <<>> \in Seq(Chunk) /\ Len(<<>>) <= QMax
  /\ \A c \in Chunk : <<c>> \in Seq(Chunk) /\ Len(<<c>>) <= QMax
  BY BoardAssumption

LEMMA EnterType ==
  ASSUME BoardTypeOK, NEW p \in Phase, Enter(p), UNCHANGED station
  PROVE  BoardTypeOK'
<1>1. rawq' \in Seq(Chunk) /\ Len(rawq') <= QMax
  BY RxType DEF Enter
<1> QED BY <1>1 DEF Enter, BoardTypeOK, SshAcross
-----------------------------------------------------------------------------
(* The helpers of the state machine                                         *)

LEMMA ReturnType ==
  ASSUME FsmInv, todo # <<>>, Return, state' \in DutState, medium' \in Mediums
  PROVE  FsmInv'
  BY DEF FsmInv, FsmTypeOK, Return

LEMMA QuietReturn ==
  ASSUME FsmInv, todo # <<>>, Return, Quiet
  PROVE  FsmInv'
  BY DEF FsmInv, FsmTypeOK, Return, Quiet

LEMMA RaiseType ==
  ASSUME FsmInv, Raise
  PROVE  FsmInv'
<1>1. NoOp \in [trig : Trigger \cup {"none"}, medium : Mediums]
  BY BoardAssumption DEF NoOp
<1> QED BY <1>1 DEF FsmInv, FsmTypeOK, Raise

LEMMA InsteadType ==
  ASSUME FsmInv, todo # <<>>, NEW p \in Seq(Calls), Instead(p), Quiet
  PROVE  FsmInv'
  BY DEF FsmInv, FsmTypeOK, Instead, Quiet

LEMMA FsmStutters ==
  ASSUME FsmInv, UNCHANGED fsm
  PROVE  FsmInv'
  BY DEF FsmInv, FsmTypeOK, fsm

LEMMA BoardStutters ==
  ASSUME BoardTypeOK, UNCHANGED board, UNCHANGED station
  PROVE  BoardTypeOK'
  BY DEF BoardTypeOK, board

\* Plans that do not assert the recovery strap, and those that do.
Plain == Calls \ {"pin_on"}
RecoveryPlans == {trigger_recovery, <<"power_off">> \o trigger_recovery}

LEMMA ColdPlans ==
  /\ cold_boot_to_bootloader \in Seq(Plain)
  /\ cold_boot_to_os \in Seq(Plain)
  /\ resume_bootloader_to_os \in Seq(Plain)
<1>1. cold_boot_to_bootloader \in Seq(Plain)
  <2>1. <<"energize", "wait_uboot", "commit">> \in Seq(Plain)
    BY DEF Plain, Calls
  <2>2. <<"energize", "wait_os", "finalize", "trap_save", "trap_set", "reboot",
          "wait_uboot", "commit">> \in Seq(Plain)
    BY DEF Plain, Calls
  <2> QED BY <2>1, <2>2 DEF cold_boot_to_bootloader
<1>2. cold_boot_to_os \in Seq(Plain)
  <2>1. <<"energize", "wait_uboot", "boot_cmd", "wait_os", "finalize", "commit">>
          \in Seq(Plain)
    BY DEF Plain, Calls
  <2>2. <<"energize", "wait_os", "finalize", "commit">> \in Seq(Plain)
    BY DEF Plain, Calls
  <2> QED BY <2>1, <2>2 DEF cold_boot_to_os
<1>3. resume_bootloader_to_os \in Seq(Plain)
  <2>1. <<"boot_cmd", "wait_os", "finalize", "commit">> \in Seq(Plain)
    BY DEF Plain, Calls
  <2>2. <<"restore_bootcmd", "restore_prev", "restore_save", "boot_cmd",
          "wait_os", "finalize", "commit">> \in Seq(Plain)
    BY DEF Plain, Calls
  <2> QED BY <2>1, <2>2 DEF resume_bootloader_to_os
<1> QED BY <1>1, <1>2, <1>3

\* A callback either never asserts the recovery strap, or does nothing but
\* that.
LEMMA CallbackPlans == Callback \in Seq(Plain) \cup RecoveryPlans
<1>0. /\ <<"power_off">> \in Seq(Plain)
      /\ <<"strap">> \in Seq(Plain)
      /\ <<"commit">> \in Seq(Plain)
      /\ <<"power_off", "strap">> \in Seq(Plain)
      /\ <<"power_off", "commit">> \in Seq(Plain)
  BY DEF Plain, Calls
<1>1. _hw_power_off \in Seq(Plain)
  BY <1>0 DEF _hw_power_off
<1>2. _hw_energize \in Seq(Plain)
  <2>1. /\ <<"power_off", "strap", "energize", "commit">> \in Seq(Plain)
        /\ <<"strap", "energize", "commit">> \in Seq(Plain)
    BY DEF Plain, Calls
  <2> QED BY <1>0, <2>1 DEF _hw_energize
<1>3. _hw_boot_to_bootloader \in Seq(Plain)
  <2>1. /\ <<"power_off", "strap">> \o cold_boot_to_bootloader \in Seq(Plain)
        /\ <<"power_off">> \o cold_boot_to_bootloader \in Seq(Plain)
    BY <1>0, ColdPlans
  <2>2. /\ <<"reboot", "wait_uboot", "commit">> \in Seq(Plain)
        /\ <<"trap_save", "trap_set", "reboot", "wait_uboot", "commit">> \in Seq(Plain)
        /\ <<"soft_reboot", "wait_uboot", "commit">> \in Seq(Plain)
    BY DEF Plain, Calls
  <2> QED BY <1>0, <2>1, <2>2, ColdPlans DEF _hw_boot_to_bootloader
<1>4. _hw_boot_to_os \in Seq(Plain)
  <2>1. /\ <<"power_off", "strap">> \o cold_boot_to_os \in Seq(Plain)
        /\ <<"strap">> \o cold_boot_to_os \in Seq(Plain)
    BY <1>0, ColdPlans
  <2>2. /\ <<"resume", "commit">> \in Seq(Plain)
        /\ <<"hot_wait", "finalize", "commit">> \in Seq(Plain)
    BY DEF Plain, Calls
  <2> QED BY <2>1, <2>2, ColdPlans DEF _hw_boot_to_os
<1>5. _hw_to_recovery \in Seq(Plain) \cup RecoveryPlans
  BY <1>0 DEF _hw_to_recovery, RecoveryPlans
<1> QED BY <1>1, <1>2, <1>3, <1>4, <1>5 DEF Callback

\* Every plan of a callback is made of calls the machine knows.
LEMMA PlansTyped == Seq(Plain) \cup RecoveryPlans \subseteq Seq(Calls)
<1>1. \A p \in Seq(Plain) : p \in Seq(Calls)
  BY DEF Plain
<1>2. /\ trigger_recovery \in Seq(Calls)
      /\ <<"power_off">> \in Seq(Calls)
  BY DEF trigger_recovery, Calls
<1>3. RecoveryPlans \subseteq Seq(Calls)
  BY <1>2 DEF RecoveryPlans
<1> QED BY <1>1, <1>3

LEMMA CallbackType == Callback \in Seq(Calls)
  BY CallbackPlans, PlansTyped

-----------------------------------------------------------------------------
(* Every action keeps TypeInv                                               *)

LEMMA ClientTyped ==
  ASSUME TypeInv, Client, UNCHANGED station
  PROVE  TypeInv'
<1>1. ASSUME NEW t \in Trigger, NEW m \in Mediums, Fire(t, m)
      PROVE  TypeInv'
  <2>1. BoardTypeOK'
    BY <1>1, BoardStutters DEF Fire, TypeInv
  <2>2. <<"align", "route">> \in Seq(Calls)
    BY DEF Calls
  <2> QED BY <1>1, <2>1, <2>2 DEF Fire, TypeInv, FsmInv, FsmTypeOK
<1>2. CASE mark_dirty
  <2>1. BoardTypeOK'
    BY <1>2, BoardStutters DEF mark_dirty, TypeInv
  <2> QED BY <1>2, <2>1 DEF mark_dirty, TypeInv, FsmInv, FsmTypeOK, DutState
<1>3. CASE release_recovery
  <2>1. FsmInv'
    BY <1>3, FsmStutters DEF release_recovery, TypeInv
  <2> QED BY <1>3, <2>1 DEF release_recovery, TypeInv, BoardTypeOK
<1> QED BY <1>1, <1>2, <1>3 DEF Client

LEMMA WorldTyped ==
  ASSUME TypeInv, World, UNCHANGED station
  PROVE  TypeInv'
<1>0. UNCHANGED fsm
  BY DEF World, BoardBoots, TestBoots
<1>1. FsmInv'
  BY <1>0, FsmStutters DEF TypeInv
<1>2. BoardTypeOK /\ {"kernel", "uboot", "hung", "spl"} \cup Userland \subseteq Phase
  BY DEF TypeInv, Phase, Userland
<1>3. CASE BoardRunsBootcmd
  BY <1>1, <1>2, <1>3, EnterType DEF BoardRunsBootcmd, TypeInv
<1>4. CASE BoardReachesUserland
  BY <1>1, <1>2, <1>4, EnterType DEF BoardReachesUserland, TypeInv
<1>5. CASE BoardHangs
  BY <1>1, <1>2, <1>5, EnterType DEF BoardHangs, TypeInv
<1>6. CASE BoardDropsSsh
  BY <1>1, <1>6 DEF BoardDropsSsh, TypeInv, BoardTypeOK
<1>7. CASE TestBoots
  BY <1>1, <1>2, <1>7, EnterType DEF TestBoots, TypeInv
<1> QED BY <1>3, <1>4, <1>5, <1>6, <1>7 DEF World, BoardBoots

LEMMA AlignTyped ==
  ASSUME FsmInv, At("align"), NEW s \in DutState, Align(s)
  PROVE  FsmInv'
<1>1. medium' \in Mediums
  BY DEF Align, FsmInv, FsmTypeOK
<1> QED BY <1>1, ReturnType DEF Align, At

LEMMA ProbeTyped ==
  ASSUME TypeInv, ProbeStep, UNCHANGED station
  PROVE  TypeInv'
<1>0. /\ {"POWER_OFF", "OS_USERLAND", "BOOTLOADER", "ENERGIZED"} \subseteq DutState
      /\ state \in DutState /\ BoardTypeOK /\ FsmInv
  BY DEF DutState, TypeInv, FsmInv, FsmTypeOK
<1>1. CASE AlignSkipped
  BY <1>0, <1>1, AlignTyped, BoardStutters DEF AlignSkipped, TypeInv
<1>2. CASE ProbePower
  BY <1>0, <1>2, AlignTyped, BoardStutters DEF ProbePower, TypeInv
<1>3. CASE ProbeNetwork
  BY <1>0, <1>3, AlignTyped, BoardStutters DEF ProbeNetwork, TypeInv
<1>4. CASE ProbePassive
  <2>1. FsmInv'
    BY <1>0, <1>4, AlignTyped DEF ProbePassive
  <2>2. rawq' \in Seq(Chunk) /\ Len(rawq') <= QMax
    BY <1>0, <1>4, BoardAssumption DEF ProbePassive, BoardTypeOK
  <2> QED BY <1>0, <1>4, <2>1, <2>2 DEF ProbePassive, TypeInv, BoardTypeOK
<1>5. CASE ProbeActive
  <2>1. ActiveAnswers \subseteq DutState
    BY <1>0 DEF ActiveAnswers
  <2>2. FsmInv'
    BY <1>0, <1>5, <2>1, AlignTyped DEF ProbeActive
  <2> QED BY <1>0, <1>5, <2>2, ShortQueues DEF ProbeActive, TypeInv, BoardTypeOK
<1>6. CASE ProbeRaises
  BY <1>0, <1>6, RaiseType, BoardStutters DEF ProbeRaises, TypeInv
<1> QED BY <1>1, <1>2, <1>3, <1>4, <1>5, <1>6 DEF ProbeStep

LEMMA PowerTyped ==
  ASSUME TypeInv, UNCHANGED station,
         do_power_off \/ do_apply_bootstrap \/ do_energize \/ do_hardware_reset
           \/ recovery_pin
  PROVE  TypeInv'
<1>0. BoardTypeOK /\ FsmInv
  BY DEF TypeInv
<1>1. CASE do_power_off
  <2>1. FsmInv'
    BY <1>0, <1>1, QuietReturn, RaiseType DEF do_power_off, At
  <2>2. ssh' \in {"no", "live", "stale"} /\ phys' \in Phase /\ ram' \in UbootEnv
    BY <1>0, <1>1 DEF do_power_off, CloseSsh, BoardTypeOK, Phase
  <2> QED BY <1>0, <1>1, <2>1, <2>2 DEF do_power_off, TypeInv, BoardTypeOK
<1>2. CASE do_apply_bootstrap
  <2>0. op.medium \in Mediums /\ state \in DutState
    BY <1>0 DEF FsmInv, FsmTypeOK
  <2>1. FsmInv'
    <3>1. ASSUME SetMedium(op.medium) PROVE FsmInv'
      BY <1>0, <1>2, <2>0, <3>1, ReturnType DEF SetMedium, do_apply_bootstrap, At
    <3>2. ASSUME Raise PROVE FsmInv'
      BY <1>0, <3>2, RaiseType
    <3> QED BY <1>2, <3>1, <3>2 DEF do_apply_bootstrap
  <2>2. strap' \in Mediums
    BY <1>0, <1>2, <2>0 DEF do_apply_bootstrap, BoardTypeOK
  <2> QED BY <1>0, <1>2, <2>1, <2>2 DEF do_apply_bootstrap, TypeInv, BoardTypeOK
<1>3. CASE do_energize
  <2>1. FsmInv'
    BY <1>0, <1>3, QuietReturn, RaiseType DEF do_energize, rebind_serial_port, At
  <2>2. phys' \in Phase /\ ram' \in UbootEnv
    BY <1>0, <1>3 DEF do_energize, ApplyPower, WakeUp, Phase, BoardTypeOK
  <2>3. serial' \in BOOLEAN
    BY <1>0, <1>3 DEF do_energize, rebind_serial_port, BoardTypeOK
  <2>4. rawq' \in Seq(Chunk) /\ Len(rawq') <= QMax
    BY <1>0, <1>3, ShortQueues DEF do_energize, rebind_serial_port, BoardTypeOK
  <2> QED BY <1>0, <1>3, <2>1, <2>2, <2>3, <2>4 DEF do_energize, TypeInv, BoardTypeOK
<1>4. CASE do_hardware_reset
  <2>1. Tail(todo) \in Seq(Calls) /\ <<"power_off", "energize">> \in Seq(Calls)
    BY <1>0, <1>4 DEF do_hardware_reset, At, FsmInv, FsmTypeOK, Calls
  <2>2. <<"power_off", "energize">> \o Tail(todo) \in Seq(Calls)
    BY <2>1
  <2>3. FsmInv'
    BY <1>0, <1>4, <2>2, QuietReturn, RaiseType, InsteadType DEF do_hardware_reset, At
  <2>4. WakeUp \in Phase
    BY DEF WakeUp, Phase
  <2>5. BoardTypeOK'
    BY <1>0, <1>4, <2>4, EnterType, BoardStutters DEF do_hardware_reset
  <2> QED BY <2>3, <2>5 DEF TypeInv
<1>5. CASE recovery_pin
  <2>1. FsmInv'
    BY <1>0, <1>5, QuietReturn, RaiseType DEF recovery_pin, At
  <2>2. pin' \in BOOLEAN
    BY <1>0, <1>5 DEF recovery_pin, BoardTypeOK
  <2> QED BY <1>0, <1>5, <2>1, <2>2 DEF recovery_pin, TypeInv, BoardTypeOK
<1> QED BY <1>1, <1>2, <1>3, <1>4, <1>5

\* The environments the commands write.
LEMMA EnvTyped ==
  ASSUME BoardTypeOK
  PROVE  /\ [nv EXCEPT !.prev = nv.bootcmd] \in UbootEnv
         /\ [nv EXCEPT !.bootcmd = "trap"] \in UbootEnv
         /\ [ram EXCEPT !.bootcmd = ram.prev] \in UbootEnv
         /\ [ram EXCEPT !.prev = "none"] \in UbootEnv
  BY DEF BoardTypeOK, UbootEnv, Cmd

LEMMA FwSetenvTyped ==
  ASSUME TypeInv, UNCHANGED station, NEW c, NEW env \in UbootEnv, FwSetenv(c, env)
  PROVE  TypeInv'
<1>0. BoardTypeOK /\ FsmInv
  BY DEF TypeInv
<1>1. FsmInv'
  BY <1>0, QuietReturn, RaiseType DEF FwSetenv, At
<1>2. nv' \in UbootEnv
  BY <1>0 DEF FwSetenv, BoardTypeOK
<1>3. ram' \in UbootEnv
  BY <1>0, <1>2 DEF FwSetenv, BoardTypeOK
<1> QED BY <1>0, <1>1, <1>2, <1>3 DEF FwSetenv, TypeInv, BoardTypeOK

LEMMA UbootRunTyped ==
  ASSUME TypeInv, UNCHANGED station, NEW c, NEW env \in UbootEnv, UbootRun(c, env)
  PROVE  TypeInv'
<1>0. BoardTypeOK /\ FsmInv /\ "uboot" \in Chunk
  BY DEF TypeInv, Chunk
<1>1. FsmInv'
  BY <1>0, QuietReturn, RaiseType DEF UbootRun, At
<1>2. ram' \in UbootEnv
  BY <1>0 DEF UbootRun, BoardTypeOK
<1>3. rawq' \in Seq(Chunk) /\ Len(rawq') <= QMax
  BY <1>0, ShortQueues DEF UbootRun, BoardTypeOK
<1> QED BY <1>0, <1>1, <1>2, <1>3 DEF UbootRun, TypeInv, BoardTypeOK

LEMMA CommandTyped ==
  ASSUME TypeInv, UNCHANGED station,
         \/ trap_save \/ trap_set \/ reboot \/ do_soft_reboot
         \/ restore_bootcmd \/ restore_prev \/ restore_save \/ boot_cmd
  PROVE  TypeInv'
<1>0. BoardTypeOK /\ FsmInv /\ {"uboot", "text"} \subseteq Chunk
  BY DEF TypeInv, Chunk
<1>1. CASE trap_save \/ trap_set
  BY <1>0, <1>1, EnvTyped, FwSetenvTyped DEF trap_save, trap_set
<1>2. CASE restore_bootcmd \/ restore_prev
  BY <1>0, <1>2, EnvTyped, UbootRunTyped DEF restore_bootcmd, restore_prev
<1>3. CASE reboot
  <2>1. FsmInv'
    BY <1>0, <1>3, QuietReturn DEF reboot, At
  <2>2. phys' \in Phase
    BY <1>0, <1>3 DEF reboot, BoardTypeOK, Phase
  <2>3. rawq' \in Seq(Chunk) /\ Len(rawq') <= QMax
    BY <1>0, <1>3, RxType DEF reboot, BoardTypeOK
  <2> QED BY <1>0, <1>3, <2>1, <2>2, <2>3 DEF reboot, CloseSsh, TypeInv, BoardTypeOK
<1>4. CASE do_soft_reboot
  <2>1. FsmInv'
    BY <1>0, <1>4, QuietReturn, RaiseType DEF do_soft_reboot, At
  <2>2. BoardTypeOK'
    BY <1>0, <1>4, EnterType, BoardStutters DEF do_soft_reboot, Phase
  <2> QED BY <2>1, <2>2 DEF TypeInv
<1>5. CASE restore_save
  <2>1. FsmInv'
    BY <1>0, <1>5, QuietReturn, RaiseType DEF restore_save, At
  <2>2. nv' \in UbootEnv
    BY <1>0, <1>5 DEF restore_save, BoardTypeOK
  <2>3. rawq' \in Seq(Chunk) /\ Len(rawq') <= QMax
    BY <1>0, <1>5, ShortQueues DEF restore_save, BoardTypeOK
  <2> QED BY <1>0, <1>5, <2>1, <2>2, <2>3 DEF restore_save, TypeInv, BoardTypeOK
<1>6. CASE boot_cmd
  <2>1. FsmInv'
    BY <1>0, <1>6, QuietReturn DEF boot_cmd, At
  <2>2. phys' \in Phase /\ ram' \in UbootEnv
    BY <1>0, <1>6 DEF boot_cmd, BootCmd, BoardTypeOK, Phase
  <2>3. rawq' \in Seq(Chunk) /\ Len(rawq') <= QMax
    BY <1>0, <1>6, ShortQueues DEF boot_cmd
  <2> QED BY <1>0, <1>6, <2>1, <2>2, <2>3 DEF boot_cmd, TypeInv, BoardTypeOK
<1> QED BY <1>1, <1>2, <1>3, <1>4, <1>5, <1>6

LEMMA WaitTyped ==
  ASSUME TypeInv, WaitStep, UNCHANGED station
  PROVE  TypeInv'
<1>0. BoardTypeOK /\ FsmInv /\ "uboot" \in Chunk
  BY DEF TypeInv, Chunk
<1>1. CASE SnipeAutoboot \/ LogIn \/ InjectBoot
  <2>1. FsmInv'
    BY <1>0, <1>1, FsmStutters DEF SnipeAutoboot, LogIn, InjectBoot
  <2>2. {"uboot", "shell", "kernel"} \subseteq Phase
    BY DEF Phase
  <2>3. BoardTypeOK'
    BY <1>0, <1>1, <2>2, EnterType DEF SnipeAutoboot, LogIn, InjectBoot
  <2> QED BY <2>1, <2>3 DEF TypeInv
<1>2. CASE wait_uboot
  <2>1. FsmInv'
    BY <1>0, <1>2, QuietReturn, RaiseType DEF wait_uboot, At
  <2>2. rawq' \in Seq(Chunk) /\ Len(rawq') <= QMax
    BY <1>0, <1>2, ShortQueues DEF wait_uboot
  <2> QED BY <1>0, <1>2, <2>1, <2>2 DEF wait_uboot, TypeInv, BoardTypeOK
<1>3. CASE ShellSeen \/ KernelPanic
  <2>1. FsmInv'
    BY <1>0, <1>3, QuietReturn, RaiseType DEF ShellSeen, KernelPanic, At
  <2> QED BY <1>0, <1>3, <2>1, BoardStutters DEF ShellSeen, KernelPanic, TypeInv
<1>4. CASE WaitTimesOut
  <2>1. <<"reset", "set_dirty", "power_off", "strap">> \in Seq(Calls)
    BY DEF Calls
  <2>2. <<"reset", "set_dirty", "power_off", "strap">> \o cold_boot_to_os \in Seq(Calls)
    BY <2>1, ColdPlans, PlansTyped
  <2>3. FsmInv'
    BY <1>0, <1>4, <2>2, RaiseType, InsteadType DEF WaitTimesOut, At
  <2> QED BY <1>0, <1>4, <2>3, BoardStutters DEF WaitTimesOut, TypeInv
<1> QED BY <1>1, <1>2, <1>3, <1>4 DEF WaitStep

LEMMA SshTyped ==
  ASSUME TypeInv, finalize_os_boot \/ ResumeAlive \/ ResumeDead, UNCHANGED station
  PROVE  TypeInv'
<1>0. BoardTypeOK /\ FsmInv /\ Prints(phys) \in Chunk
  BY DEF TypeInv, Chunk, Prints
<1>1. CASE finalize_os_boot
  <2>1. FsmInv'
    BY <1>0, <1>1, QuietReturn, RaiseType DEF finalize_os_boot, At
  <2>2. rawq' \in Seq(Chunk) /\ Len(rawq') <= QMax
    BY <1>0, <1>1, ShortQueues DEF finalize_os_boot, BoardTypeOK
  <2> QED BY <1>0, <1>1, <2>1, <2>2 DEF finalize_os_boot, TypeInv, BoardTypeOK
<1>2. CASE ResumeAlive
  <2>1. <<"finalize", "commit">> \in Seq(Calls)
    BY DEF Calls
  <2>2. FsmInv'
    BY <1>0, <1>2, <2>1, InsteadType DEF ResumeAlive, At
  <2>3. rawq' \in Seq(Chunk) /\ Len(rawq') <= QMax
    BY <1>0, <1>2, ShortQueues DEF ResumeAlive, BoardTypeOK
  <2>4. ssh' \in {"no", "live", "stale"}
    BY <1>0, <1>2 DEF ResumeAlive, SshHeartbeat, SshHeartbeatFails, BoardTypeOK
  <2> QED BY <1>0, <1>2, <2>2, <2>3, <2>4 DEF ResumeAlive, TypeInv, BoardTypeOK
<1>3. CASE ResumeDead
  <2>1. <<"reset", "set_energized", "hot_wait", "finalize", "commit">> \in Seq(Calls)
    BY DEF Calls
  <2>2. FsmInv'
    BY <1>0, <1>3, <2>1, InsteadType DEF ResumeDead, At
  <2>3. ssh' \in {"no", "live", "stale"}
    BY <1>0, <1>3 DEF ResumeDead, SshHeartbeatFails, BoardTypeOK
  <2> QED BY <1>0, <1>3, <2>2, <2>3, ShortQueues DEF ResumeDead, TypeInv, BoardTypeOK
<1> QED BY <1>1, <1>2, <1>3

LEMMA TriggerTyped ==
  ASSUME TypeInv, Route \/ Commit \/ set_state, UNCHANGED station
  PROVE  TypeInv'
<1>0. BoardTypeOK /\ FsmInv
  BY DEF TypeInv
<1>1. BoardTypeOK'
  BY <1>0, BoardStutters DEF Route, Commit, set_state
<1>2. CASE Route
  BY <1>0, <1>1, <1>2, CallbackType, InsteadType DEF Route, At, TypeInv
<1>3. CASE Commit
  <2>1. Dest[op.trig] \in DutState
    BY <1>0, <1>3, DestType DEF Commit, At, FsmInv
  <2>2. NoOp \in [trig : Trigger \cup {"none"}, medium : Mediums]
    BY BoardAssumption DEF NoOp
  <2> QED BY <1>0, <1>1, <1>3, <2>1, <2>2 DEF Commit, TypeInv, FsmInv, FsmTypeOK
<1>4. CASE set_state
  <2>1. state' \in DutState /\ medium' \in Mediums
    BY <1>0, <1>4 DEF set_state, DutState, FsmInv, FsmTypeOK
  <2> QED BY <1>0, <1>1, <1>4, <2>1, ReturnType DEF set_state, At, TypeInv
<1> QED BY <1>2, <1>3, <1>4

LEMMA TypeInitially == Init => TypeInv
<1> SUFFICES ASSUME Init PROVE TypeInv
  OBVIOUS
<1>1. [bootcmd |-> "orig", prev |-> "none"] \in UbootEnv
  BY DEF UbootEnv, Cmd
<1>2. phys \in Phase
  BY DEF Init, BoardInit, Phase
<1>3. BoardTypeOK
  BY <1>1, <1>2, BoardAssumption, ShortQueues DEF Init, BoardInit, BoardTypeOK
<1>4. NoOp \in [trig : Trigger \cup {"none"}, medium : Mediums]
  BY BoardAssumption DEF NoOp
<1>5. state \in DutState /\ medium \in Mediums
  BY BoardAssumption DEF Init, DutState
<1>6. todo \in Seq(Calls)
  BY DEF Init
<1> QED BY <1>3, <1>4, <1>5, <1>6 DEF Init, TypeInv, FsmInv, FsmTypeOK

LEMMA TypeInductive == TypeInv /\ [Next]_vars => TypeInv'
<1> SUFFICES ASSUME TypeInv, [Next]_vars PROVE TypeInv'
  OBVIOUS
<1>1. CASE UNCHANGED vars
  BY <1>1, FsmStutters, BoardStutters DEF vars, TypeInv
<1>2. CASE Client /\ UNCHANGED station
  BY <1>2, ClientTyped
<1>3. CASE World /\ UNCHANGED station
  BY <1>3, WorldTyped
<1>4. CASE CallStep /\ UNCHANGED station
  BY <1>4, TriggerTyped, ProbeTyped, PowerTyped, CommandTyped, WaitTyped, SshTyped
     DEF CallStep
<1> QED BY <1>1, <1>2, <1>3, <1>4 DEF Next

\* Every state is well typed: the queue stays within its capacity, a
\* destination is one of the six states, and a callback only ever has known
\* calls to make (EmbeddedLinuxStateMachine, all triggers).
THEOREM TypeCorrect == Spec => []TypeOK
<1>1. TypeInv => TypeOK
  BY TypeParts DEF TypeInv, FsmInv
<1> QED BY <1>1, TypeInitially, TypeInductive, PTL DEF Spec
-----------------------------------------------------------------------------
(* The recovery strap                                                       *)

\* PinReleased is not inductive: what is left to do while the strap is asserted
\* has to be known, and that no other plan asserts it.
PlanInv == todo \in Seq(Plain) \cup RecoveryPlans
Energizing == <<"energize", "pin_off", "commit">>
Releasing == <<"pin_off", "commit">>
PinServed == HasGpio /\ PowerServed /\ Faults \cap {"rebind", "psu", "gpio"} = {}
PinInv == PinServed /\ pin => todo \in {Energizing, Releasing}

LEMMA PlanTails ==
  ASSUME PlanInv, todo # <<>>
  PROVE  Tail(todo) \in Seq(Plain) \cup RecoveryPlans
<1>1. CASE todo \in Seq(Plain)
  BY <1>1
<1>2. CASE todo = trigger_recovery
  BY <1>2 DEF trigger_recovery, Plain, Calls
<1>3. CASE todo = <<"power_off">> \o trigger_recovery
  <2>1. trigger_recovery \in Seq(Calls) /\ <<"power_off">> \in Seq(Calls)
    BY DEF trigger_recovery, Calls
  <2>2. /\ todo \in Seq(Calls)
        /\ Len(todo) = 1 + Len(trigger_recovery)
        /\ \A i \in 1 .. Len(trigger_recovery) : todo[i + 1] = trigger_recovery[i]
    BY <1>3, <2>1, ConcatProperties
  <2>3. /\ Tail(todo) \in Seq(Calls)
        /\ Len(Tail(todo)) = Len(trigger_recovery)
        /\ \A i \in 1 .. Len(trigger_recovery) : Tail(todo)[i] = trigger_recovery[i]
    BY <2>1, <2>2, HeadTailProperties
  <2>4. Tail(todo) = trigger_recovery
    BY <2>1, <2>3, SeqEqual
  <2> QED BY <2>4 DEF RecoveryPlans
<1> QED BY <1>1, <1>2, <1>3 DEF PlanInv, RecoveryPlans

\* The plans an action puts in the place of the one it finds.
LEMMA NewPlans ==
  /\ <<>> \in Seq(Plain)
  /\ <<"align", "route">> \in Seq(Plain)
  /\ <<"finalize", "commit">> \in Seq(Plain)
  /\ <<"reset", "set_energized", "hot_wait", "finalize", "commit">> \in Seq(Plain)
  /\ <<"reset", "set_dirty", "power_off", "strap">> \o cold_boot_to_os \in Seq(Plain)
<1>1. <<"reset", "set_dirty", "power_off", "strap">> \in Seq(Plain)
  BY DEF Plain, Calls
<1>2. <<"reset", "set_dirty", "power_off", "strap">> \o cold_boot_to_os \in Seq(Plain)
  BY <1>1, ColdPlans
<1>3. /\ <<>> \in Seq(Plain)
      /\ <<"align", "route">> \in Seq(Plain)
      /\ <<"finalize", "commit">> \in Seq(Plain)
  BY DEF Plain, Calls
<1>4. <<"reset", "set_energized", "hot_wait", "finalize", "commit">> \in Seq(Plain)
  BY DEF Plain, Calls
<1> QED BY <1>2, <1>3, <1>4

\* A reset without a reset pin becomes a power cycle.
LEMMA ResetPlan ==
  ASSUME PlanInv, At("reset")
  PROVE  <<"power_off", "energize">> \o Tail(todo) \in Seq(Plain)
<1>1. todo \in Seq(Plain)
  BY DEF PlanInv, RecoveryPlans, trigger_recovery, At
<1>2. Tail(todo) \in Seq(Plain) /\ <<"power_off", "energize">> \in Seq(Plain)
  BY <1>1 DEF At, Plain, Calls
<1> QED BY <1>2

LEMMA PlanInductive == PlanInv /\ [Next]_vars => PlanInv'
<1> SUFFICES ASSUME PlanInv, [Next]_vars PROVE PlanInv'
  OBVIOUS
<1>a. ASSUME todo # <<>>, todo' = Tail(todo) PROVE PlanInv'
  BY <1>a, PlanTails DEF PlanInv
<1>b. ASSUME todo' = <<>> PROVE PlanInv'
  BY <1>b, NewPlans DEF PlanInv
<1>c. ASSUME UNCHANGED todo PROVE PlanInv'
  BY <1>c DEF PlanInv
<1>1. CASE UNCHANGED vars
  BY <1>1, <1>c DEF vars, fsm
<1>2. CASE Client
  BY <1>2, <1>c, NewPlans DEF Client, Fire, mark_dirty, release_recovery, fsm, PlanInv
<1>3. CASE World
  BY <1>3, <1>c DEF World, BoardBoots, TestBoots, fsm
<1>4. CASE Route
  BY <1>4, CallbackPlans DEF Route, Instead, PlanInv
<1>5. CASE Commit \/ set_state
  BY <1>5, <1>a, <1>b DEF Commit, set_state, Return, At
<1>6. CASE ProbeStep
  BY <1>6, <1>a, <1>b DEF ProbeStep, AlignSkipped, ProbePower, ProbeNetwork, ProbePassive,
       ProbeActive, ProbeRaises, Align, Return, Raise, At
<1>7. CASE do_power_off \/ do_apply_bootstrap \/ do_energize \/ recovery_pin
  BY <1>7, <1>a, <1>b DEF do_power_off, do_apply_bootstrap, SetMedium,
       do_energize, rebind_serial_port, recovery_pin, Return, Raise, At
<1>8. CASE do_hardware_reset
  BY <1>8, <1>a, <1>b, ResetPlan DEF do_hardware_reset, Return, Raise, Instead, At, PlanInv
<1>9. CASE \/ trap_save \/ trap_set \/ reboot \/ do_soft_reboot
           \/ restore_bootcmd \/ restore_prev \/ restore_save \/ boot_cmd
  BY <1>9, <1>a, <1>b DEF trap_save, trap_set, FwSetenv, reboot, do_soft_reboot,
       restore_bootcmd, restore_prev, UbootRun, restore_save, boot_cmd, Return, Raise, At
<1>10. CASE WaitStep
  BY <1>10, <1>a, <1>b, <1>c, NewPlans DEF WaitStep, SnipeAutoboot, wait_uboot, LogIn,
       InjectBoot, ShellSeen, KernelPanic, WaitTimesOut, Return, Raise, Instead, At, fsm,
       PlanInv
<1>11. CASE finalize_os_boot \/ ResumeAlive \/ ResumeDead
  BY <1>11, <1>a, <1>b, NewPlans DEF finalize_os_boot, ResumeAlive, ResumeDead, Return,
       Raise, Instead, At, PlanInv
<1> QED BY <1>1, <1>2, <1>3, <1>4, <1>5, <1>6, <1>7, <1>8, <1>9, <1>10, <1>11
        DEF Next, CallStep

\* Only recovery_pin asserts the strap.
LEMMA OnlyPinOnAsserts ==
  ASSUME Next, ~recovery_pin
  PROVE  pin' = pin \/ pin' = FALSE
<1>1. CASE Client
  BY <1>1 DEF Client, Fire, mark_dirty, release_recovery, board
<1>2. CASE World
  BY <1>2 DEF World, BoardBoots, BoardRunsBootcmd, BoardReachesUserland, BoardHangs,
       BoardDropsSsh, TestBoots, Enter
<1>3. CASE Route \/ Commit \/ set_state
  BY <1>3 DEF Route, Commit, set_state, board
<1>4. CASE ProbeStep
  BY <1>4 DEF ProbeStep, AlignSkipped, ProbePower, ProbeNetwork, ProbePassive,
       ProbeActive, ProbeRaises, board
<1>5. CASE do_power_off \/ do_apply_bootstrap \/ do_energize \/ do_hardware_reset
  BY <1>5 DEF do_power_off, do_apply_bootstrap, do_energize, do_hardware_reset, Enter,
       board
<1>6. CASE \/ trap_save \/ trap_set \/ reboot \/ do_soft_reboot
           \/ restore_bootcmd \/ restore_prev \/ restore_save \/ boot_cmd
  BY <1>6 DEF trap_save, trap_set, FwSetenv, reboot, do_soft_reboot, restore_bootcmd,
       restore_prev, UbootRun, restore_save, boot_cmd, Enter, board
<1>7. CASE WaitStep
  BY <1>7 DEF WaitStep, SnipeAutoboot, wait_uboot, LogIn, InjectBoot, ShellSeen,
       KernelPanic, WaitTimesOut, Enter, board
<1>8. CASE finalize_os_boot \/ ResumeAlive \/ ResumeDead
  BY <1>8 DEF finalize_os_boot, ResumeAlive, ResumeDead
<1> QED BY <1>1, <1>2, <1>3, <1>4, <1>5, <1>6, <1>7, <1>8 DEF Next, CallStep

\* While the strap is asserted the callback can only energize and release.
LEMMA AssertedSteps ==
  ASSUME Next, todo \in {Energizing, Releasing}
  PROVE  do_energize \/ recovery_pin \/ UNCHANGED todo
<1>1. todo # <<>> /\ (At("energize") \/ At("pin_off"))
  BY DEF Energizing, Releasing, At
<1>2. CASE Client
  BY <1>1, <1>2 DEF Client, Fire, mark_dirty, release_recovery, Idle
<1>3. CASE World
  BY <1>3 DEF World, BoardBoots, TestBoots, fsm
<1>4. CASE CallStep
  <2>1. ~(Route \/ Commit \/ set_state \/ ProbeStep)
    BY <1>1 DEF Route, Commit, set_state, ProbeStep, AlignSkipped, ProbePower,
         ProbeNetwork, ProbePassive, ProbeActive, ProbeRaises, At
  <2>2. ~(do_power_off \/ do_apply_bootstrap \/ do_hardware_reset)
    BY <1>1 DEF do_power_off, do_apply_bootstrap, do_hardware_reset, At
  <2>3. ~(\/ trap_save \/ trap_set \/ reboot \/ do_soft_reboot
          \/ restore_bootcmd \/ restore_prev \/ restore_save \/ boot_cmd)
    BY <1>1 DEF trap_save, trap_set, FwSetenv, reboot, do_soft_reboot, restore_bootcmd,
         restore_prev, UbootRun, restore_save, boot_cmd, At
  <2>4. ~(ShellSeen \/ KernelPanic \/ WaitTimesOut \/ wait_uboot)
    BY <1>1 DEF ShellSeen, KernelPanic, WaitTimesOut, wait_uboot, At
  <2>5. ~(finalize_os_boot \/ ResumeAlive \/ ResumeDead)
    BY <1>1 DEF finalize_os_boot, ResumeAlive, ResumeDead, At
  <2>6. SnipeAutoboot \/ LogIn \/ InjectBoot => UNCHANGED todo
    BY DEF SnipeAutoboot, LogIn, InjectBoot, fsm
  <2> QED BY <1>4, <2>1, <2>2, <2>3, <2>4, <2>5, <2>6 DEF CallStep, WaitStep
<1> QED BY <1>2, <1>3, <1>4 DEF Next

\* The recovery strap is asserted only inside boot_to_recovery: once the
\* trigger is over, however it ended, a later power-up boots normally
\* (GpioRecoveryStrategy.trigger_recovery), if neither energizing nor set_pin raises.
THEOREM RecoveryStrapReleased == Spec => []PinReleased
<1>1. Init => PlanInv /\ PinInv
  BY NewPlans DEF Init, BoardInit, PlanInv, PinInv
<1>2. PlanInv /\ PinInv /\ [Next]_vars => PinInv'
  <2> SUFFICES ASSUME PlanInv, PinInv, [Next]_vars, PinServed', pin'
               PROVE  todo' \in {Energizing, Releasing}
    BY DEF PinInv
  <2>0. UNCHANGED station /\ PinServed
    BY DEF Next, vars, PinServed, HasGpio, PowerServed, HasPsu, Headless, Faults
  <2>1. CASE UNCHANGED vars
    BY <2>0, <2>1 DEF vars, board, fsm, PinInv
  <2>2. CASE recovery_pin
    <3>1. At("pin_on") /\ Return
      BY <2>0, <2>2 DEF recovery_pin, PinServed, HasGpio
    <3>2. todo = trigger_recovery
      BY <3>1 DEF At, PlanInv, Plain, RecoveryPlans, trigger_recovery
    <3> QED BY <3>1, <3>2 DEF Return, trigger_recovery, Energizing
  <2>3. CASE Next /\ ~recovery_pin
    <3>1. pin /\ todo \in {Energizing, Releasing}
      BY <2>0, <2>3, OnlyPinOnAsserts DEF PinInv
    <3>2. CASE do_energize
      <4>1. todo = Energizing
        BY <3>1, <3>2 DEF do_energize, At, Energizing, Releasing
      <4>2. Return
        BY <2>0, <3>2 DEF do_energize, rebind_serial_port, PinServed, PowerServed
      <4> QED BY <4>1, <4>2 DEF Return, Energizing, Releasing
    <3> QED BY <2>3, <3>1, <3>2, AssertedSteps
  <2> QED BY <2>1, <2>2, <2>3
<1>3. PinInv => PinReleased
  BY DEF PinInv, PinReleased, PinServed, Idle, Energizing, Releasing
<1> QED BY <1>1, <1>2, <1>3, PlanInductive, PTL DEF Spec
-----------------------------------------------------------------------------
(* The control flow of the callbacks                                        *)

\* The calls that touch the trap, made only where autoboot cannot be stopped.
TrapCalls == {"trap_save", "trap_set", "restore_bootcmd", "restore_prev", "restore_save"}

\* The call b may come right after a in the callback of trigger t.
Follows(t, a, b) ==
    /\ a = "align" => b = "route"
    /\ a = "power_off" => \/ b \in {"strap", "pin_on", "energize"}
                          \/ b = "commit" /\ t = "power_off"
    /\ a = "strap" => b = "energize"
    /\ a = "pin_on" => b = "energize"
    /\ a = "energize" => \/ b \in {"wait_uboot", "wait_os", "pin_off", "set_energized",
                                   "set_dirty"}
                         \/ b = "commit" /\ t = "energize"
    /\ a = "pin_off" => b = "commit" /\ t = "boot_to_recovery"
    /\ a = "reset" => b \in {"set_energized", "set_dirty"}
    /\ a = "set_energized" => b = "hot_wait"
    /\ a = "set_dirty" => b = "power_off"
    /\ a = "hot_wait" => b = "finalize" /\ t = "boot_to_os"
    /\ a = "wait_os" => b = "finalize"
    /\ a = "finalize" => b = "trap_save" \/ (b = "commit" /\ t = "boot_to_os")
    /\ a = "resume" => b = "commit" /\ t = "boot_to_os"
    /\ a = "trap_save" => b = "trap_set"
    /\ a = "trap_set" => b = "reboot"
    /\ a \in {"reboot", "soft_reboot"} => b = "wait_uboot"
    /\ a = "wait_uboot" => b = "boot_cmd" \/ (b = "commit" /\ t = "boot_to_bootloader")
    /\ a = "restore_bootcmd" => b = "restore_prev"
    /\ a = "restore_prev" => b = "restore_save"
    /\ a = "restore_save" => b = "boot_cmd"
    /\ a = "boot_cmd" => b = "wait_os"
    /\ a \notin {"commit", "route"}

\* p is what may be left of a callback of t; it ends by setting the state.
Path(t, p) ==
    \A i \in 1 .. Len(p) :
        /\ i = Len(p) => p[i] \in {"commit", "route"}
        /\ i < Len(p) => Follows(t, p[i], p[i + 1])
        /\ p[i] \in TrapCalls => ~Autoboot

FlowInv == Path(op.trig, todo)

LEMMA PathTail ==
  ASSUME NEW t, NEW p \in Seq(Calls), Path(t, p), p # <<>>
  PROVE  /\ Path(t, Tail(p))
         /\ Tail(p) = <<>> => Head(p) \in {"commit", "route"}
         /\ Tail(p) # <<>> => Follows(t, Head(p), Head(Tail(p)))
<1>1. /\ Tail(p) \in Seq(Calls) /\ Len(p) \in Nat \ {0} /\ Len(Tail(p)) = Len(p) - 1
      /\ Head(p) = p[1]
      /\ \A i \in 1 .. Len(Tail(p)) : Tail(p)[i] = p[i + 1]
  BY HeadTailProperties, LenProperties, EmptySeq
<1>2. Path(t, Tail(p))
  <2> SUFFICES ASSUME NEW i \in 1 .. Len(Tail(p))
               PROVE  /\ i = Len(Tail(p)) => Tail(p)[i] \in {"commit", "route"}
                      /\ i < Len(Tail(p)) => Follows(t, Tail(p)[i], Tail(p)[i + 1])
                      /\ Tail(p)[i] \in TrapCalls => ~Autoboot
    BY DEF Path
  <2>1. i + 1 \in 1 .. Len(p) /\ Tail(p)[i] = p[i + 1]
    BY <1>1
  <2>2. i < Len(Tail(p)) => Tail(p)[i + 1] = p[(i + 1) + 1]
    BY <1>1
  <2>3. (i = Len(Tail(p)) <=> i + 1 = Len(p)) /\ (i < Len(Tail(p)) <=> i + 1 < Len(p))
    BY <1>1
  <2> QED BY <2>1, <2>2, <2>3 DEF Path
<1>3. Tail(p) = <<>> => Head(p) \in {"commit", "route"}
  <2> DEFINE q == Tail(p)
  <2>1. q \in Seq(Calls) /\ Len(q) = Len(p) - 1
    BY <1>1
  <2> HIDE DEF q
  <2>2. q = <<>> => Len(q) = 0
    BY <2>1
  <2>3. Len(q) = 0 => Len(p) = 1
    <3>1. Len(p) \in Nat
      BY <1>1
    <3> QED BY <2>1, <3>1
  <2>4. Len(p) = 1 => Head(p) \in {"commit", "route"}
    BY <1>1 DEF Path
  <2> QED BY <2>2, <2>3, <2>4 DEF q
<1>4. Tail(p) # <<>> => Follows(t, Head(p), Head(Tail(p)))
  <2> HAVE Tail(p) # <<>>
  <2>1. Len(p) > 1 /\ Head(Tail(p)) = Tail(p)[1] /\ 1 \in 1 .. Len(Tail(p))
    BY <1>1, HeadTailProperties, LenProperties, EmptySeq
  <2>2. Head(Tail(p)) = p[1 + 1] /\ 1 \in 1 .. Len(p) /\ 1 < Len(p)
    BY <1>1, <2>1
  <2>3. Follows(t, p[1], p[1 + 1])
    BY <2>2 DEF Path
  <2> QED BY <1>1, <2>2, <2>3
<1> QED BY <1>2, <1>3, <1>4

\* Two paths make one when the second may follow the first, which then does not
\* have to end by itself.
Prefix(t, p) ==
    \A i \in 1 .. Len(p) :
        /\ i < Len(p) => Follows(t, p[i], p[i + 1])
        /\ p[i] \in TrapCalls => ~Autoboot

LEMMA PathJoin ==
  ASSUME NEW t, NEW p \in Seq(Calls), NEW q \in Seq(Calls), p # <<>>, q # <<>>,
         Prefix(t, p), Path(t, q), Follows(t, p[Len(p)], Head(q))
  PROVE  Path(t, p \o q)
<1>1. /\ Len(p) \in Nat \ {0} /\ Len(q) \in Nat \ {0} /\ Head(q) = q[1]
      /\ Len(p \o q) = Len(p) + Len(q)
      /\ \A i \in 1 .. Len(p) : (p \o q)[i] = p[i]
      /\ \A i \in Len(p) + 1 .. Len(p) + Len(q) : (p \o q)[i] = q[i - Len(p)]
  BY LenProperties, EmptySeq, HeadTailProperties, ConcatProperties
<1> DEFINE r == p \o q
<1> HIDE DEF r
<1> SUFFICES ASSUME NEW i \in 1 .. Len(r)
             PROVE  /\ i = Len(r) => r[i] \in {"commit", "route"}
                    /\ i < Len(r) => Follows(t, r[i], r[i + 1])
                    /\ r[i] \in TrapCalls => ~Autoboot
  BY DEF Path, r
<1>2. CASE i < Len(p)
  <2>1. i \in 1 .. Len(p) /\ i + 1 \in 1 .. Len(p) /\ i # Len(r)
    BY <1>1, <1>2 DEF r
  <2>2. r[i] = p[i] /\ r[i + 1] = p[i + 1]
    BY <1>1, <2>1 DEF r
  <2> QED BY <1>2, <2>1, <2>2 DEF Prefix
<1>3. CASE i = Len(p)
  <2>1. i \in 1 .. Len(p) /\ i + 1 \in Len(p) + 1 .. Len(p) + Len(q) /\ i # Len(r)
        /\ (i + 1) - Len(p) = 1
    BY <1>1, <1>3 DEF r
  <2>2. r[i] = p[Len(p)] /\ r[i + 1] = q[1]
    BY <1>1, <1>3, <2>1 DEF r
  <2> QED BY <1>1, <1>3, <2>1, <2>2 DEF Prefix
<1>4. CASE i > Len(p)
  <2> DEFINE j == i - Len(p)
  <2>1. /\ i \in Len(p) + 1 .. Len(p) + Len(q) /\ j \in 1 .. Len(q)
        /\ (i = Len(r) <=> j = Len(q)) /\ (i < Len(r) <=> j < Len(q))
    BY <1>1, <1>4 DEF r
  <2>2. r[i] = q[j]
    BY <1>1, <2>1 DEF r
  <2>3. i < Len(r) => r[i + 1] = q[j + 1]
    <3> HAVE i < Len(r)
    <3>1. i + 1 \in Len(p) + 1 .. Len(p) + Len(q) /\ (i + 1) - Len(p) = j + 1
      BY <1>1, <1>4 DEF r
    <3> QED BY <1>1, <3>1 DEF r
  <2> HIDE DEF j
  <2> QED BY <2>1, <2>2, <2>3 DEF Path
<1> QED BY <1>1, <1>2, <1>3, <1>4 DEF r

\* A plan for trigger t that starts with call c.
Plan(t, c, p) == p \in Seq(Calls) /\ p # <<>> /\ Head(p) = c /\ Path(t, p)

LEMMA OsPlans ==
  /\ Plan("boot_to_os", "energize", cold_boot_to_os)
  /\ Plan("boot_to_os", "strap", <<"strap">> \o cold_boot_to_os)
  /\ Plan("boot_to_os", "power_off", <<"power_off", "strap">> \o cold_boot_to_os)
  /\ Plan("boot_to_os", "reset",
          <<"reset", "set_dirty", "power_off", "strap">> \o cold_boot_to_os)
  /\ Plan("boot_to_os", IF Autoboot THEN "boot_cmd" ELSE "restore_bootcmd",
          resume_bootloader_to_os)
<1>1. Plan("boot_to_os", "energize", cold_boot_to_os)
  <2>1. CASE Autoboot
    <3> DEFINE p == <<"energize", "wait_uboot", "boot_cmd", "wait_os", "finalize", "commit">>
    <3>1. Plan("boot_to_os", "energize", p)
      BY DEF Plan, Path, Follows, TrapCalls, Calls
    <3> QED BY <2>1, <3>1 DEF cold_boot_to_os
  <2>2. CASE ~Autoboot
    <3> DEFINE p == <<"energize", "wait_os", "finalize", "commit">>
    <3>1. Plan("boot_to_os", "energize", p)
      BY DEF Plan, Path, Follows, TrapCalls, Calls
    <3> QED BY <2>2, <3>1 DEF cold_boot_to_os
  <2> QED BY <2>1, <2>2
<1>2. ASSUME NEW p \in Seq(Calls), p # <<>>, p[Len(p)] = "strap", Prefix("boot_to_os", p)
      PROVE  Plan("boot_to_os", Head(p), p \o cold_boot_to_os)
  <2> DEFINE q == cold_boot_to_os
  <2>1. q \in Seq(Calls) /\ q # <<>> /\ Head(q) = "energize" /\ Path("boot_to_os", q)
    BY <1>1 DEF Plan
  <2> HIDE DEF q
  <2>2. Follows("boot_to_os", p[Len(p)], Head(q))
    BY <1>2, <2>1 DEF Follows
  <2>3. Path("boot_to_os", p \o q)
    BY <1>2, <2>1, <2>2, PathJoin
  <2>4. p \o q \in Seq(Calls) /\ p \o q # <<>> /\ Head(p \o q) = Head(p)
    BY <1>2, <2>1
  <2> QED BY <2>3, <2>4 DEF Plan, q
<1>3. Plan("boot_to_os", "strap", <<"strap">> \o cold_boot_to_os)
  <2> DEFINE p == <<"strap">>
  <2>1. p \in Seq(Calls) /\ p # <<>> /\ p[Len(p)] = "strap" /\ Head(p) = "strap"
    BY DEF Calls
  <2>2. Prefix("boot_to_os", p)
    BY DEF Prefix, Follows, TrapCalls
  <2> HIDE DEF p
  <2>3. Plan("boot_to_os", "strap", p \o cold_boot_to_os)
    BY <1>2, <2>1, <2>2
  <2> QED BY <2>3 DEF p
<1>4. Plan("boot_to_os", "power_off", <<"power_off", "strap">> \o cold_boot_to_os)
  <2> DEFINE p == <<"power_off", "strap">>
  <2>1. p \in Seq(Calls) /\ p # <<>> /\ p[Len(p)] = "strap" /\ Head(p) = "power_off"
    BY DEF Calls
  <2>2. Prefix("boot_to_os", p)
    BY DEF Prefix, Follows, TrapCalls
  <2> HIDE DEF p
  <2>3. Plan("boot_to_os", "power_off", p \o cold_boot_to_os)
    BY <1>2, <2>1, <2>2
  <2> QED BY <2>3 DEF p
<1>5. Plan("boot_to_os", "reset",
           <<"reset", "set_dirty", "power_off", "strap">> \o cold_boot_to_os)
  <2> DEFINE p == <<"reset", "set_dirty", "power_off", "strap">>
  <2>1. p \in Seq(Calls) /\ p # <<>> /\ p[Len(p)] = "strap" /\ Head(p) = "reset"
    BY DEF Calls
  <2>2. Prefix("boot_to_os", p)
    BY DEF Prefix, Follows, TrapCalls
  <2> HIDE DEF p
  <2>3. Plan("boot_to_os", "reset", p \o cold_boot_to_os)
    BY <1>2, <2>1, <2>2
  <2> QED BY <2>3 DEF p
<1>6. Plan("boot_to_os", IF Autoboot THEN "boot_cmd" ELSE "restore_bootcmd",
           resume_bootloader_to_os)
  <2>1. CASE Autoboot
    <3> DEFINE p == <<"boot_cmd", "wait_os", "finalize", "commit">>
    <3>1. Plan("boot_to_os", "boot_cmd", p)
      BY DEF Plan, Path, Follows, TrapCalls, Calls
    <3> QED BY <2>1, <3>1 DEF resume_bootloader_to_os
  <2>2. CASE ~Autoboot
    <3> DEFINE p == <<"restore_bootcmd", "restore_prev", "restore_save", "boot_cmd",
                      "wait_os", "finalize", "commit">>
    <3>1. Plan("boot_to_os", "restore_bootcmd", p)
      BY <2>2 DEF Plan, Path, Follows, TrapCalls, Calls
    <3> QED BY <2>2, <3>1 DEF resume_bootloader_to_os
  <2> QED BY <2>1, <2>2
<1> QED BY <1>1, <1>3, <1>4, <1>5, <1>6

LEMMA BootloaderPlans ==
  /\ Plan("boot_to_bootloader", "energize", cold_boot_to_bootloader)
  /\ Plan("boot_to_bootloader", "power_off", <<"power_off">> \o cold_boot_to_bootloader)
  /\ Plan("boot_to_bootloader", "power_off",
          <<"power_off", "strap">> \o cold_boot_to_bootloader)
<1>1. Plan("boot_to_bootloader", "energize", cold_boot_to_bootloader)
  <2>1. CASE Autoboot
    <3> DEFINE p == <<"energize", "wait_uboot", "commit">>
    <3>1. Plan("boot_to_bootloader", "energize", p)
      BY DEF Plan, Path, Follows, TrapCalls, Calls
    <3> QED BY <2>1, <3>1 DEF cold_boot_to_bootloader
  <2>2. CASE ~Autoboot
    <3> DEFINE p == <<"energize", "wait_os", "finalize", "trap_save", "trap_set", "reboot",
                      "wait_uboot", "commit">>
    <3>1. Plan("boot_to_bootloader", "energize", p)
      BY <2>2 DEF Plan, Path, Follows, TrapCalls, Calls
    <3> QED BY <2>2, <3>1 DEF cold_boot_to_bootloader
  <2> QED BY <2>1, <2>2
<1>2. ASSUME NEW p \in Seq(Calls), p # <<>>, p[Len(p)] \in {"strap", "power_off"},
             Prefix("boot_to_bootloader", p)
      PROVE  Plan("boot_to_bootloader", Head(p), p \o cold_boot_to_bootloader)
  <2> DEFINE q == cold_boot_to_bootloader
  <2>1. q \in Seq(Calls) /\ q # <<>> /\ Head(q) = "energize" /\ Path("boot_to_bootloader", q)
    BY <1>1 DEF Plan
  <2> HIDE DEF q
  <2>2. Follows("boot_to_bootloader", p[Len(p)], Head(q))
    BY <1>2, <2>1 DEF Follows
  <2>3. Path("boot_to_bootloader", p \o q)
    BY <1>2, <2>1, <2>2, PathJoin
  <2>4. p \o q \in Seq(Calls) /\ p \o q # <<>> /\ Head(p \o q) = Head(p)
    BY <1>2, <2>1
  <2> QED BY <2>3, <2>4 DEF Plan, q
<1>3. Plan("boot_to_bootloader", "power_off", <<"power_off">> \o cold_boot_to_bootloader)
  <2> DEFINE p == <<"power_off">>
  <2>1. p \in Seq(Calls) /\ p # <<>> /\ p[Len(p)] = "power_off" /\ Head(p) = "power_off"
    BY DEF Calls
  <2>2. Prefix("boot_to_bootloader", p)
    BY DEF Prefix, Follows, TrapCalls
  <2> HIDE DEF p
  <2>3. Plan("boot_to_bootloader", "power_off", p \o cold_boot_to_bootloader)
    BY <1>2, <2>1, <2>2
  <2> QED BY <2>3 DEF p
<1>4. Plan("boot_to_bootloader", "power_off",
           <<"power_off", "strap">> \o cold_boot_to_bootloader)
  <2> DEFINE p == <<"power_off", "strap">>
  <2>1. p \in Seq(Calls) /\ p # <<>> /\ p[Len(p)] = "strap" /\ Head(p) = "power_off"
    BY DEF Calls
  <2>2. Prefix("boot_to_bootloader", p)
    BY DEF Prefix, Follows, TrapCalls
  <2> HIDE DEF p
  <2>3. Plan("boot_to_bootloader", "power_off", p \o cold_boot_to_bootloader)
    BY <1>2, <2>1, <2>2
  <2> QED BY <2>3 DEF p
<1> QED BY <1>1, <1>3, <1>4

\* What a callback starts with, by trigger and state.
Starts(t, c) ==
    /\ c \in {"commit", "power_off", "strap", "energize", "pin_on", "reboot", "trap_save",
              "soft_reboot", "resume", "hot_wait", "boot_cmd", "restore_bootcmd"}
    /\ state \in {"POWER_OFF", "RECOVERY"} =>
         \/ c \in {"power_off", "strap", "energize", "pin_on"}
         \/ c = "commit" /\ t \in {"power_off", "boot_to_recovery"}
    /\ c = "commit" => t # "boot_to_os" /\ (t = "boot_to_bootloader" => state = "BOOTLOADER")
    /\ c = "commit" /\ t = "power_off" => state = "POWER_OFF"
    /\ c \in {"strap", "energize", "pin_on"} => state \in {"POWER_OFF", "DIRTY"}
    /\ c = "resume" => state = "OS_USERLAND"
    /\ c = "restore_bootcmd" => state = "BOOTLOADER"
    /\ c \in {"boot_cmd", "reboot"} => Autoboot
    /\ c = "soft_reboot" => ~HasPsu /\ state = "ENERGIZED"

LEMMA CallbackPath ==
  ASSUME op.trig \in Trigger, state \in DutState
  PROVE  \E c \in Calls : Plan(op.trig, c, Callback) /\ Starts(op.trig, c)
<1> DEFINE Ok(p) == \E c \in Calls : Plan(op.trig, c, p) /\ Starts(op.trig, c)
<1>1. CASE op.trig = "power_off"
  <2>1. Plan("power_off", "commit", <<"commit">>)
        /\ Plan("power_off", "power_off", <<"power_off", "commit">>)
    BY DEF Plan, Path, Follows, TrapCalls, Calls
  <2>2. "commit" \in Calls /\ "power_off" \in Calls
    BY DEF Calls
  <2>3. CASE state = "POWER_OFF"
    <3>1. Starts(op.trig, "commit")
      BY <1>1, <2>3 DEF Starts
    <3> QED BY <1>1, <2>1, <2>2, <2>3, <3>1 DEF Callback, _hw_power_off
  <2>4. CASE state # "POWER_OFF"
    <3>1. Starts(op.trig, "power_off")
      BY <1>1, <2>4 DEF Starts
    <3> QED BY <1>1, <2>1, <2>2, <2>4, <3>1 DEF Callback, _hw_power_off
  <2> QED BY <2>3, <2>4
<1>2. CASE op.trig = "energize"
  <2> DEFINE cycle == <<"power_off", "strap", "energize", "commit">>
             on == <<"strap", "energize", "commit">>
  <2>1. /\ Plan("energize", "commit", <<"commit">>)
        /\ Plan("energize", "power_off", cycle)
        /\ Plan("energize", "strap", on)
    BY DEF Plan, Path, Follows, TrapCalls, Calls
  <2>2. "commit" \in Calls /\ "power_off" \in Calls /\ "strap" \in Calls
    BY DEF Calls
  <2>3. Callback = _hw_energize
    BY <1>2 DEF Callback
  <2>4. \/ _hw_energize = cycle
        \/ _hw_energize = on /\ state \in {"POWER_OFF", "DIRTY"}
        \/ _hw_energize = <<"commit">> /\ state \in {"ENERGIZED", "BOOTLOADER", "OS_USERLAND"}
    BY DEF _hw_energize, DutState
  <2>5. /\ Starts(op.trig, "power_off")
        /\ state \in {"POWER_OFF", "DIRTY"} => Starts(op.trig, "strap")
    BY <1>2 DEF Starts
  <2>6. state \in {"ENERGIZED", "BOOTLOADER", "OS_USERLAND"} => Starts(op.trig, "commit")
    BY <1>2 DEF Starts
  <2> HIDE DEF cycle, on
  <2> QED BY <1>2, <2>1, <2>2, <2>3, <2>4, <2>5, <2>6
<1>3. CASE op.trig = "boot_to_bootloader"
  <2> DEFINE over == <<"power_off", "strap">> \o cold_boot_to_bootloader
             cycle == <<"power_off">> \o cold_boot_to_bootloader
             warm == <<"reboot", "wait_uboot", "commit">>
             trap == <<"trap_save", "trap_set", "reboot", "wait_uboot", "commit">>
             soft == <<"soft_reboot", "wait_uboot", "commit">>
  <2>1. /\ Plan("boot_to_bootloader", "commit", <<"commit">>)
        /\ Plan("boot_to_bootloader", "reboot", warm)
        /\ Plan("boot_to_bootloader", "soft_reboot", soft)
    BY DEF Plan, Path, Follows, TrapCalls, Calls
  <2>2. ~Autoboot => Plan("boot_to_bootloader", "trap_save", trap)
    BY DEF Plan, Path, Follows, TrapCalls, Calls
  <2>3. /\ "commit" \in Calls /\ "power_off" \in Calls /\ "reboot" \in Calls
        /\ "soft_reboot" \in Calls /\ "trap_save" \in Calls /\ "energize" \in Calls
    BY DEF Calls
  <2>4. Callback = _hw_boot_to_bootloader
    BY <1>3 DEF Callback
  <2>5. \/ Callback = over \/ Callback = cycle
        \/ Callback = cold_boot_to_bootloader /\ state \in {"POWER_OFF", "DIRTY"}
        \/ Callback = <<"commit">> /\ state = "BOOTLOADER"
        \/ Callback = warm /\ state = "OS_USERLAND" /\ Autoboot
        \/ Callback = trap /\ state = "OS_USERLAND" /\ ~Autoboot
        \/ Callback = soft /\ state = "ENERGIZED" /\ ~HasPsu
    BY <2>4 DEF _hw_boot_to_bootloader, DutState
  <2>6. /\ Starts(op.trig, "power_off")
        /\ state \in {"POWER_OFF", "DIRTY"} => Starts(op.trig, "energize")
    BY <1>3 DEF Starts
  <2>7. /\ state = "BOOTLOADER" => Starts(op.trig, "commit")
        /\ state = "OS_USERLAND" /\ Autoboot => Starts(op.trig, "reboot")
        /\ state = "OS_USERLAND" => Starts(op.trig, "trap_save")
        /\ state = "ENERGIZED" /\ ~HasPsu => Starts(op.trig, "soft_reboot")
    BY <1>3 DEF Starts
  <2>8. /\ Plan(op.trig, "power_off", over) /\ Plan(op.trig, "power_off", cycle)
        /\ Plan(op.trig, "energize", cold_boot_to_bootloader)
    BY <1>3, BootloaderPlans
  <2> HIDE DEF over, cycle, warm, trap, soft
  <2> QED BY <1>3, <2>1, <2>2, <2>3, <2>5, <2>6, <2>7, <2>8
<1>4. CASE op.trig = "boot_to_os"
  <2> DEFINE over == <<"power_off", "strap">> \o cold_boot_to_os
             cold == <<"strap">> \o cold_boot_to_os
             again == <<"resume", "commit">>
             hot == <<"hot_wait", "finalize", "commit">>
             first == IF Autoboot THEN "boot_cmd" ELSE "restore_bootcmd"
  <2>1. /\ Plan("boot_to_os", "resume", again)
        /\ Plan("boot_to_os", "hot_wait", hot)
    BY DEF Plan, Path, Follows, TrapCalls, Calls
  <2>3. /\ "resume" \in Calls /\ "power_off" \in Calls /\ "hot_wait" \in Calls
        /\ "strap" \in Calls /\ first \in Calls
    BY DEF Calls
  <2>4. Callback = _hw_boot_to_os
    BY <1>4 DEF Callback
  <2>5. \/ Callback = over
        \/ Callback = cold /\ state = "POWER_OFF"
        \/ Callback = again /\ state = "OS_USERLAND"
        \/ Callback = hot /\ state = "ENERGIZED"
        \/ Callback = resume_bootloader_to_os /\ state = "BOOTLOADER"
    BY <2>4 DEF _hw_boot_to_os
  <2>6. Starts(op.trig, "power_off") /\ (state = "POWER_OFF" => Starts(op.trig, "strap"))
    BY <1>4 DEF Starts
  <2>7. /\ state = "OS_USERLAND" => Starts(op.trig, "resume")
        /\ state = "ENERGIZED" => Starts(op.trig, "hot_wait")
        /\ state = "BOOTLOADER" => Starts(op.trig, first)
    BY <1>4 DEF Starts
  <2>8. /\ Plan(op.trig, "power_off", over) /\ Plan(op.trig, "strap", cold)
        /\ Plan(op.trig, first, resume_bootloader_to_os)
    BY <1>4, OsPlans
  <2> HIDE DEF over, cold, again, hot, first
  <2> QED BY <1>4, <2>1, <2>3, <2>5, <2>6, <2>7, <2>8
<1>5. CASE op.trig = "boot_to_recovery"
  <2> DEFINE off == <<"power_off">>
             cycle == <<"power_off">> \o trigger_recovery
  <2>1. /\ Plan("boot_to_recovery", "commit", <<"commit">>)
        /\ Plan("boot_to_recovery", "pin_on", trigger_recovery)
    BY DEF Plan, Path, Follows, TrapCalls, Calls, trigger_recovery
  <2>2. "commit" \in Calls /\ "power_off" \in Calls /\ "pin_on" \in Calls
    BY DEF Calls
  <2>3. Plan("boot_to_recovery", "power_off", cycle)
    <3>1. off \in Seq(Calls) /\ off # <<>> /\ off[Len(off)] = "power_off"
          /\ Head(off) = "power_off"
      BY DEF Calls
    <3>2. Prefix("boot_to_recovery", off)
      BY DEF Prefix, Follows, TrapCalls
    <3>3. Follows("boot_to_recovery", "power_off", "pin_on")
      BY DEF Follows
    <3>4. cycle = off \o trigger_recovery
      OBVIOUS
    <3> HIDE DEF off, cycle
    <3>5. Path("boot_to_recovery", off \o trigger_recovery)
      BY <2>1, <3>1, <3>2, <3>3, PathJoin DEF Plan
    <3>6. /\ off \o trigger_recovery \in Seq(Calls) /\ off \o trigger_recovery # <<>>
          /\ Head(off \o trigger_recovery) = "power_off"
      BY <2>1, <3>1 DEF Plan
    <3> QED BY <3>4, <3>5, <3>6 DEF Plan
  <2>4. Callback = _hw_to_recovery
    BY <1>5 DEF Callback
  <2>5. \/ Callback = <<"commit">> /\ state = "RECOVERY"
        \/ Callback = trigger_recovery /\ state = "POWER_OFF"
        \/ Callback = cycle
    BY <2>4 DEF _hw_to_recovery
  <2>6. Starts(op.trig, "power_off") /\ (state = "POWER_OFF" => Starts(op.trig, "pin_on"))
    BY <1>5 DEF Starts
  <2>7. state = "RECOVERY" => Starts(op.trig, "commit")
    BY <1>5 DEF Starts
  <2> HIDE DEF off, cycle
  <2> QED BY <1>5, <2>1, <2>2, <2>3, <2>5, <2>6, <2>7
<1> QED BY <1>1, <1>2, <1>3, <1>4, <1>5, TriggerNames

\* The other plans an action puts in place.
LEMMA OtherPlans ==
  /\ \A t : Plan(t, "align", <<"align", "route">>)
  /\ Plan("boot_to_os", "finalize", <<"finalize", "commit">>)
  /\ Plan("boot_to_os", "reset",
          <<"reset", "set_energized", "hot_wait", "finalize", "commit">>)
<1>1. \A t : Plan(t, "align", <<"align", "route">>)
  BY DEF Plan, Path, Follows, TrapCalls, Calls
<1>2. Plan("boot_to_os", "finalize", <<"finalize", "commit">>)
  BY DEF Plan, Path, Follows, TrapCalls, Calls
<1>3. Plan("boot_to_os", "reset",
           <<"reset", "set_energized", "hot_wait", "finalize", "commit">>)
  BY DEF Plan, Path, Follows, TrapCalls, Calls
<1> QED BY <1>1, <1>2, <1>3

\* The calls at which an action can be are followed as Follows says.
LEMMA NextCall ==
  ASSUME TypeInv, FlowInv, NEW c, At(c), c \notin {"commit", "route"}
  PROVE  Tail(todo) # <<>> /\ Follows(op.trig, c, Head(Tail(todo)))
<1>1. todo \in Seq(Calls) /\ todo # <<>> /\ Head(todo) = c
  BY DEF TypeInv, FsmInv, FsmTypeOK, At
<1> QED BY <1>1, PathTail DEF FlowInv

LEMMA ResetPath ==
  ASSUME TypeInv, FlowInv, At("reset")
  PROVE  Plan(op.trig, "power_off", <<"power_off", "energize">> \o Tail(todo))
<1> DEFINE p == <<"power_off", "energize">>
           q == Tail(todo)
<1>1. todo \in Seq(Calls) /\ todo # <<>>
  BY DEF TypeInv, FsmInv, FsmTypeOK, At
<1>2. q \in Seq(Calls) /\ Path(op.trig, q)
  BY <1>1, PathTail DEF FlowInv
<1>3. q # <<>> /\ Head(q) \in {"set_energized", "set_dirty"}
  BY NextCall DEF Follows
<1>4. p \in Seq(Calls) /\ p # <<>> /\ p[Len(p)] = "energize" /\ Head(p) = "power_off"
  BY DEF Calls
<1>5. Prefix(op.trig, p)
  BY DEF Prefix, Follows, TrapCalls
<1>6. p[Len(p)] = "energize" => Follows(op.trig, p[Len(p)], Head(q))
  BY <1>3 DEF Follows
<1> HIDE DEF p, q
<1>7. Path(op.trig, p \o q)
  BY <1>2, <1>3, <1>4, <1>5, <1>6, PathJoin
<1>8. p \o q \in Seq(Calls) /\ p \o q # <<>> /\ Head(p \o q) = "power_off"
  BY <1>2, <1>4
<1> QED BY <1>7, <1>8 DEF Plan, p, q

LEMMA FlowInductive == TypeInv /\ FlowInv /\ [Next]_vars => FlowInv'
<1> SUFFICES ASSUME TypeInv, FlowInv, [Next]_vars PROVE FlowInv'
  OBVIOUS
<1>0. UNCHANGED station /\ todo \in Seq(Calls) /\ (Autoboot' <=> Autoboot)
  BY DEF Next, vars, TypeInv, FsmInv, FsmTypeOK, Autoboot
<1>p. ASSUME NEW t, NEW p, Path(t, p), op'.trig = t, todo' = p PROVE FlowInv'
  BY <1>0, <1>p DEF FlowInv, Path
<1>a. ASSUME todo # <<>>, todo' = Tail(todo), UNCHANGED op PROVE FlowInv'
  BY <1>0, <1>a, <1>p, PathTail DEF FlowInv
<1>b. ASSUME todo' = <<>> PROVE FlowInv'
  BY <1>b DEF FlowInv, Path
<1>c. ASSUME UNCHANGED <<todo, op>> PROVE FlowInv'
  BY <1>c, <1>p DEF FlowInv
<1>d. ASSUME NEW c, NEW p, Plan(op.trig, c, p), Instead(p) PROVE FlowInv'
  BY <1>d, <1>p DEF Plan, Instead
<1>1. CASE UNCHANGED vars
  BY <1>1, <1>c DEF vars, fsm
<1>2. CASE Client
  <2>1. ASSUME NEW t \in Trigger, NEW m \in Mediums, Fire(t, m) PROVE FlowInv'
    BY <2>1, <1>p, OtherPlans DEF Fire, Plan
  <2> QED BY <1>2, <1>c, <2>1 DEF Client, mark_dirty, release_recovery, fsm
<1>3. CASE World
  BY <1>3, <1>c DEF World, BoardBoots, TestBoots, fsm
<1>4. CASE Route
  <2>1. op.trig \in Trigger /\ state \in DutState
    BY <1>4 DEF Route, At, TypeInv, FsmInv, FsmTypeOK
  <2> QED BY <1>4, <1>d, <2>1, CallbackPath DEF Route
<1>5. CASE Commit \/ set_state
  BY <1>5, <1>a, <1>b DEF Commit, set_state, Return, At
<1>6. CASE ProbeStep
  BY <1>6, <1>a, <1>b DEF ProbeStep, AlignSkipped, ProbePower, ProbeNetwork, ProbePassive,
       ProbeActive, ProbeRaises, Align, Return, Raise, At
<1>7. CASE do_power_off \/ do_apply_bootstrap \/ do_energize \/ recovery_pin
  BY <1>7, <1>a, <1>b DEF do_power_off, do_apply_bootstrap, SetMedium,
       do_energize, rebind_serial_port, recovery_pin, Return, Raise, At
<1>8. CASE do_hardware_reset
  <2>1. CASE Return
    BY <1>8, <2>1, <1>a DEF do_hardware_reset, Return, At
  <2>2. CASE Instead(<<"power_off", "energize">> \o Tail(todo))
    BY <1>8, <2>2, <1>d, ResetPath DEF do_hardware_reset
  <2>3. CASE Raise
    BY <2>3, <1>b DEF Raise
  <2> QED BY <1>8, <2>1, <2>2, <2>3 DEF do_hardware_reset
<1>9. CASE \/ trap_save \/ trap_set \/ reboot \/ do_soft_reboot
           \/ restore_bootcmd \/ restore_prev \/ restore_save \/ boot_cmd
  BY <1>9, <1>a, <1>b DEF trap_save, trap_set, FwSetenv, reboot, do_soft_reboot,
       restore_bootcmd, restore_prev, UbootRun, restore_save, boot_cmd, Return, Raise, At
<1>10. CASE WaitStep
  <2>1. CASE SnipeAutoboot \/ wait_uboot \/ LogIn \/ InjectBoot \/ ShellSeen \/ KernelPanic
    BY <2>1, <1>a, <1>b, <1>c DEF SnipeAutoboot, wait_uboot, LogIn, InjectBoot, ShellSeen,
         KernelPanic, Return, Raise, At, fsm
  <2>2. CASE WaitTimesOut
    <3>1. CASE At("wait_os") /\ Raise
      BY <3>1, <1>b DEF Raise
    <3>2. CASE /\ At("hot_wait")
               /\ Instead(<<"reset", "set_dirty", "power_off", "strap">> \o cold_boot_to_os)
      <4>1. op.trig = "boot_to_os"
        BY <3>2, NextCall DEF Follows
      <4> QED BY <3>2, <4>1, <1>d, OsPlans
    <3> QED BY <2>2, <3>1, <3>2 DEF WaitTimesOut
  <2> QED BY <1>10, <2>1, <2>2 DEF WaitStep
<1>11. CASE finalize_os_boot
  BY <1>11, <1>a, <1>b DEF finalize_os_boot, Return, Raise, At
<1>12. CASE ResumeAlive \/ ResumeDead
  <2>1. op.trig = "boot_to_os"
    BY <1>12, NextCall DEF Follows, ResumeAlive, ResumeDead
  <2> QED BY <1>12, <2>1, <1>d, OtherPlans DEF ResumeAlive, ResumeDead
<1> QED BY <1>1, <1>2, <1>3, <1>4, <1>5, <1>6, <1>7, <1>8, <1>9, <1>10, <1>11, <1>12
        DEF Next, CallStep

LEMMA FlowInitially == Init => FlowInv
  BY DEF Init, FlowInv, Path
-----------------------------------------------------------------------------
(* Supply voltage                                                           *)

\* OnMeansPowered is not inductive: within a trigger the board is off as well,
\* and then the calls that are left must switch it on or report it off.
Served == HasPsu /\ PinsServed /\ Faults \cap {"psu", "sensor", "gpio"} = {}
OffPlan ==
    \/ (Idle \/ At("align")) /\ state \notin {"ENERGIZED", "BOOTLOADER", "OS_USERLAND"}
    \/ At("route") /\ state \in {"POWER_OFF", "RECOVERY"}
    \/ At("strap") \/ At("pin_on") \/ At("energize") \/ At("power_off")
    \/ At("commit") /\ op.trig \in {"power_off", "boot_to_recovery"}
OffInv == Served /\ ~Powered => OffPlan

LEMMA OnlyPowerOffCuts ==
  ASSUME Next, phys' = "off"
  PROVE  phys = "off" \/ do_power_off
<1>1. CASE Client
  BY <1>1 DEF Client, Fire, mark_dirty, release_recovery, board
<1>2. CASE World
  BY <1>2 DEF World, BoardBoots, BoardRunsBootcmd, BoardReachesUserland, BoardHangs,
       BoardDropsSsh, TestBoots, Enter, Userland
<1>3. CASE Route \/ Commit \/ set_state
  BY <1>3 DEF Route, Commit, set_state, board
<1>4. CASE ProbeStep
  BY <1>4 DEF ProbeStep, AlignSkipped, ProbePower, ProbeNetwork, ProbePassive,
       ProbeActive, ProbeRaises, board
<1>5. CASE do_apply_bootstrap \/ do_energize \/ do_hardware_reset \/ recovery_pin
  BY <1>5 DEF do_apply_bootstrap, do_energize, ApplyPower, do_hardware_reset, recovery_pin,
       WakeUp, Enter, board, Powered
<1>6. CASE \/ trap_save \/ trap_set \/ reboot \/ do_soft_reboot
           \/ restore_bootcmd \/ restore_prev \/ restore_save \/ boot_cmd
  BY <1>6 DEF trap_save, trap_set, FwSetenv, reboot, do_soft_reboot, restore_bootcmd,
       restore_prev, UbootRun, restore_save, boot_cmd, BootCmd, Enter, board
<1>7. CASE WaitStep
  BY <1>7 DEF WaitStep, SnipeAutoboot, wait_uboot, LogIn, InjectBoot, ShellSeen,
       KernelPanic, WaitTimesOut, Enter, board
<1>8. CASE finalize_os_boot \/ ResumeAlive \/ ResumeDead
  BY <1>8 DEF finalize_os_boot, ResumeAlive, ResumeDead
<1> QED BY <1>1, <1>2, <1>3, <1>4, <1>5, <1>6, <1>7, <1>8 DEF Next, CallStep

\* The steps a plan of OffPlan allows, of a board that stays off.
LEMMA StaysOff ==
  ASSUME TypeInv, FlowInv, Served, phys = "off", OffPlan, Next, phys' = "off"
  PROVE  OffPlan'
<1>0. HasPsu /\ PinsServed /\ "psu" \notin Faults /\ "sensor" \notin Faults
  BY DEF Served
<1>1. CASE Client
  <2>1. ASSUME NEW t \in Trigger, NEW m \in Mediums, Fire(t, m) PROVE OffPlan'
    <3>1. todo' # <<>> /\ Head(todo') = "align" /\ state' = state
      BY <2>1 DEF Fire
    <3> QED BY <2>1, <3>1 DEF Fire, Idle, OffPlan, At
  <2>2. CASE mark_dirty
    BY <2>2 DEF mark_dirty, OffPlan, Idle
  <2>3. CASE release_recovery
    BY <2>3 DEF release_recovery, fsm, OffPlan, Idle, At
  <2> QED BY <1>1, <2>1, <2>2, <2>3 DEF Client
<1>2. CASE World \/ SnipeAutoboot \/ LogIn \/ InjectBoot
  BY <1>2 DEF World, BoardBoots, TestBoots, SnipeAutoboot, LogIn, InjectBoot, fsm, OffPlan,
       Idle, At
<1>3. CASE Route
  <2>1. op.trig \in Trigger /\ state \in DutState
    BY <1>3 DEF Route, At, TypeInv, FsmInv, FsmTypeOK
  <2>2. PICK c \in Calls : Plan(op.trig, c, Callback) /\ Starts(op.trig, c)
    BY <2>1, CallbackPath
  <2>3. todo' # <<>> /\ Head(todo') = c /\ op' = op
    BY <1>3, <2>2 DEF Route, Instead, Plan
  <2>4. state \in {"POWER_OFF", "RECOVERY"}
    BY <1>3 DEF Route, At, OffPlan, Idle
  <2>5. \/ c \in {"power_off", "strap", "energize", "pin_on"}
        \/ c = "commit" /\ op.trig \in {"power_off", "boot_to_recovery"}
    BY <2>2, <2>4 DEF Starts
  <2> QED BY <2>3, <2>5 DEF OffPlan, At
<1>4. CASE Commit
  <2>1. op.trig \in {"power_off", "boot_to_recovery"}
    BY <1>4 DEF Commit, At, OffPlan, Idle
  <2>2. Dest[op.trig] \in {"POWER_OFF", "RECOVERY"}
    BY <2>1 DEF Dest
  <2> QED BY <1>4, <2>2 DEF Commit, OffPlan, Idle
<1>5. CASE ProbeStep
  <2>0. At("align") /\ state \notin {"ENERGIZED", "BOOTLOADER", "OS_USERLAND"}
    BY <1>5 DEF ProbeStep, AlignSkipped, ProbePower, ProbeNetwork, ProbePassive,
         ProbeActive, ProbeRaises, OffPlan, At, Idle
  <2>1. ~PowerInconclusive
    BY <1>0 DEF PowerInconclusive, Powered
  <2>2. AlignSkipped \/ ProbePower
    BY <1>5, <2>1 DEF ProbeStep, ProbeNetwork, ProbePassive, ProbeActive, ProbeRaises
  <2>3. state' \in {"POWER_OFF", "RECOVERY"} /\ Return
    BY <2>0, <2>2 DEF AlignSkipped, ProbePower, Align, SkipProbe, TypeInv, FsmInv,
         FsmTypeOK, DutState
  <2>4. Tail(todo) # <<>> /\ Head(Tail(todo)) = "route"
    BY <2>0, NextCall DEF Follows
  <2> QED BY <2>3, <2>4 DEF Return, OffPlan, At
<1>6. CASE do_power_off
  <2>1. At("power_off") /\ Return
    BY <1>0, <1>6 DEF do_power_off
  <2>2. Tail(todo) # <<>> /\ Follows(op.trig, "power_off", Head(Tail(todo)))
    BY <2>1, NextCall
  <2> QED BY <2>1, <2>2 DEF Return, Follows, OffPlan, At
<1>7. CASE do_apply_bootstrap
  <2>1. At("strap") /\ Return
    BY <1>0, <1>7 DEF do_apply_bootstrap, SetMedium, PinsServed, Served
  <2>2. Tail(todo) # <<>> /\ Head(Tail(todo)) = "energize"
    BY <2>1, NextCall DEF Follows
  <2> QED BY <2>1, <2>2 DEF Return, OffPlan, At
<1>8. CASE do_energize
  BY <1>0, <1>8 DEF do_energize, ApplyPower, Powered, WakeUp
<1>9. CASE recovery_pin
  <2>0. ~At("pin_off")
    BY DEF OffPlan, At, Idle
  <2>1. At("pin_on") /\ Return
    BY <1>0, <1>9, <2>0 DEF recovery_pin, PinsServed, Served
  <2>2. Tail(todo) # <<>> /\ Head(Tail(todo)) = "energize"
    BY <2>1, NextCall DEF Follows
  <2> QED BY <2>1, <2>2 DEF Return, OffPlan, At
<1>10. ~(set_state \/ do_hardware_reset)
  BY DEF set_state, do_hardware_reset, OffPlan, At, Idle
<1>11. ~(\/ trap_save \/ trap_set \/ reboot \/ do_soft_reboot
         \/ restore_bootcmd \/ restore_prev \/ restore_save \/ boot_cmd)
  BY DEF trap_save, trap_set, FwSetenv, reboot, do_soft_reboot, restore_bootcmd,
       restore_prev, UbootRun, restore_save, boot_cmd, OffPlan, At, Idle
<1>12. ~(ShellSeen \/ KernelPanic \/ WaitTimesOut \/ wait_uboot)
  BY DEF ShellSeen, KernelPanic, WaitTimesOut, wait_uboot, OffPlan, At, Idle
<1>13. ~(finalize_os_boot \/ ResumeAlive \/ ResumeDead)
  BY DEF finalize_os_boot, ResumeAlive, ResumeDead, OffPlan, At, Idle
<1> QED BY <1>1, <1>2, <1>3, <1>4, <1>5, <1>6, <1>7, <1>8, <1>9, <1>10, <1>11, <1>12, <1>13
        DEF Next, CallStep, WaitStep

\* A station that says ENERGIZED, BOOTLOADER or OS_USERLAND between triggers has
\* supply voltage on the board (every callback of state_machine.py), whatever
\* raised on the way, if the supply obeys and can be read and no prompt or pin raises.
THEOREM OnIsPowered == Spec => []OnMeansPowered
<1>1. Init => OffInv
  BY DEF Init, OffInv, OffPlan, Idle
<1>2. TypeInv /\ FlowInv /\ OffInv /\ [Next]_vars => OffInv'
  <2> SUFFICES ASSUME TypeInv, FlowInv, OffInv, [Next]_vars, Served', phys' = "off"
               PROVE  OffPlan'
    BY DEF OffInv, Powered
  <2>0. Served
    BY DEF Next, vars, Served, PinsServed, HasPsu, HasGpio, Headless, Faults
  <2>1. CASE UNCHANGED vars
    BY <2>0, <2>1 DEF vars, board, fsm, OffInv, OffPlan, Powered, Idle, At
  <2>2. CASE Next /\ phys = "off"
    BY <2>0, <2>2, StaysOff DEF OffInv, Powered
  <2>3. CASE Next /\ do_power_off
    <3>1. At("power_off") /\ Return
      BY <2>0, <2>3 DEF do_power_off, Served
    <3>2. Tail(todo) # <<>> /\ Follows(op.trig, "power_off", Head(Tail(todo)))
      BY <3>1, NextCall
    <3> QED BY <3>1, <3>2 DEF Return, Follows, OffPlan, At
  <2> QED BY <2>1, <2>2, <2>3, OnlyPowerOffCuts
<1>3. OffInv => OnMeansPowered
  BY DEF OffInv, OffPlan, OnMeansPowered, Served, Idle, At
<1> QED BY <1>1, <1>2, <1>3, TypeInitially, TypeInductive, FlowInitially, FlowInductive, PTL
        DEF Spec
-----------------------------------------------------------------------------
(* The trap and the OS                                                      *)

\* A session that is alive leads to a board in userland.
LiveInv == ssh = "live" => phys \in Userland

LEMMA LiveInductive == LiveInv /\ [Next]_vars => LiveInv'
<1> SUFFICES ASSUME LiveInv, [Next]_vars PROVE LiveInv'
  OBVIOUS
<1>e. ASSUME NEW p, Enter(p) PROVE LiveInv'
  BY <1>e DEF Enter, SshAcross, LiveInv
<1>u. ASSUME UNCHANGED <<phys, ssh>> PROVE LiveInv'
  BY <1>u DEF LiveInv
<1>n. ASSUME ssh' = "no" PROVE LiveInv'
  BY <1>n DEF LiveInv
<1>1. CASE UNCHANGED vars
  BY <1>1, <1>u DEF vars, board
<1>2. CASE Client
  BY <1>2, <1>u DEF Client, Fire, mark_dirty, release_recovery, board
<1>3. CASE World
  BY <1>3, <1>e, <1>n DEF World, BoardBoots, BoardRunsBootcmd, BoardReachesUserland,
       BoardHangs, BoardDropsSsh, TestBoots
<1>4. CASE Route \/ Commit \/ set_state
  BY <1>4, <1>u DEF Route, Commit, set_state, board
<1>5. CASE ProbeStep
  BY <1>5, <1>u DEF ProbeStep, AlignSkipped, ProbePower, ProbeNetwork, ProbePassive,
       ProbeActive, ProbeRaises, board
<1>6. CASE do_power_off \/ reboot
  BY <1>6, <1>n DEF do_power_off, reboot, CloseSsh
<1>7. CASE do_apply_bootstrap \/ do_energize \/ recovery_pin
  BY <1>7 DEF do_apply_bootstrap, do_energize, ApplyPower, Powered, recovery_pin, LiveInv,
       Userland
<1>8. CASE do_hardware_reset \/ do_soft_reboot
  BY <1>8, <1>e, <1>u DEF do_hardware_reset, do_soft_reboot, board
<1>9. CASE trap_save \/ trap_set \/ restore_bootcmd \/ restore_prev \/ restore_save
  BY <1>9, <1>u DEF trap_save, trap_set, FwSetenv, restore_bootcmd, restore_prev, UbootRun,
       restore_save
<1>10. CASE boot_cmd
  BY <1>10 DEF boot_cmd, BootCmd, LiveInv, Userland
<1>11. CASE WaitStep
  BY <1>11, <1>e, <1>u DEF WaitStep, SnipeAutoboot, wait_uboot, LogIn, InjectBoot,
       ShellSeen, KernelPanic, WaitTimesOut, board
<1>12. CASE finalize_os_boot \/ ResumeAlive \/ ResumeDead
  BY <1>12 DEF finalize_os_boot, ResumeAlive, ResumeDead, SshHeartbeat, SshHeartbeatFails,
       SshAnswers, LiveInv
<1> QED BY <1>1, <1>2, <1>3, <1>4, <1>5, <1>6, <1>7, <1>8, <1>9, <1>10, <1>11, <1>12
        DEF Next, CallStep

\* While the stored bootcmd is not the original one the board does not get past
\* U-Boot, but for the shell in which the trap has just been set; nobody has a
\* session to it; and U-Boot's copy differs only while it is being restored.
Trapped == nv.bootcmd # "orig"
TrapStops ==
    Trapped => \/ phys \notin {"kernel"} \cup Userland
               \/ At("reboot") /\ ShellReachable
TrapUnseen ==
    Trapped => \/ ssh = "no"
               \/ At("reboot") /\ phys \in Userland \cup {"hung"}
PromptUnseen == ~Autoboot /\ phys = "uboot" => ssh = "no"
RamIsNv == \/ ram = nv
           \/ phys = "uboot" /\ serial /\ (At("restore_prev") \/ At("restore_save"))
OsCommit == At("commit") /\ op.trig = "boot_to_os" => ~Trapped
TrapParts == TrapStops /\ TrapUnseen /\ PromptUnseen /\ RamIsNv
TrapInv == Clean => TrapParts /\ OsCommit

LEMMA CleanStays == [Next]_vars => (Clean' <=> Clean)
  BY DEF Next, vars, Clean, Faults

\* Running Linux, by whatever sign, means the stored bootcmd is the original.
LEMMA RunningUntrapped ==
  ASSUME LiveInv, TrapStops, ~At("reboot"),
         phys \in {"kernel"} \cup Userland \/ ShellReachable \/ SshAnswers
  PROVE  ~Trapped
  BY DEF LiveInv, TrapStops, ShellReachable, SshAnswers, Userland

\* Away from the calls that may be in the middle of it, the parts are simpler.
Settled ==
    /\ Trapped => phys \notin {"kernel"} \cup Userland /\ ssh = "no"
    /\ PromptUnseen
    /\ ram = nv

LEMMA SettledIsTrap == Settled' => TrapParts'
  BY DEF Settled, TrapParts, TrapStops, TrapUnseen, RamIsNv

LEMMA TrapIsSettled ==
  ASSUME TrapParts, ~At("reboot"), ~At("restore_prev"), ~At("restore_save")
  PROVE  Settled
  BY DEF Settled, TrapParts, TrapStops, TrapUnseen, RamIsNv

\* The board moves to p: past U-Boot only untrapped, to its prompt only when
\* sniped or trapped.
LEMMA TrapEnters ==
  ASSUME LiveInv, Settled, NEW p, Enter(p), UNCHANGED station,
         p \in {"kernel"} \cup Userland => ~Trapped,
         p = "uboot" => Autoboot \/ Trapped
  PROVE  Settled'
<1>1. Autoboot' <=> Autoboot
  BY DEF Autoboot
<1> QED BY <1>1 DEF Enter, SshAcross, Settled, Trapped, PromptUnseen

LEMMA TrapStutters ==
  ASSUME TrapParts, UNCHANGED <<station, phys, nv, ram, serial, ssh, todo>>
  PROVE  TrapParts'
<1>1. Autoboot' <=> Autoboot
  BY DEF Autoboot
<1> QED BY <1>1 DEF TrapParts, TrapStops, TrapUnseen, PromptUnseen, RamIsNv, Trapped, At,
          ShellReachable

LEMMA SettledStutters ==
  ASSUME Settled, UNCHANGED <<station, phys, nv, ram, ssh>>
  PROVE  Settled'
<1>1. Autoboot' <=> Autoboot
  BY DEF Autoboot
<1> QED BY <1>1 DEF Settled, Trapped, PromptUnseen

\* A step between triggers, or of the board.
LEMMA TrapWorld ==
  ASSUME Clean, LiveInv, TrapParts, Client \/ World, UNCHANGED station
  PROVE  TrapParts'
<1>0. "net" \notin Faults
  BY DEF Clean, CleanFaults
<1>1. CASE mark_dirty \/ release_recovery
  BY <1>1, TrapStutters DEF mark_dirty, release_recovery, board, fsm
<1>2. ASSUME Idle PROVE Settled
  BY <1>2, TrapIsSettled DEF Idle, At
<1>3. ASSUME NEW t \in Trigger, NEW m \in Mediums, Fire(t, m) PROVE TrapParts'
  <2>1. Settled'
    BY <1>2, <1>3, SettledStutters DEF Fire, board
  <2> QED BY <2>1, SettledIsTrap
<1>4. ASSUME BoardRunsBootcmd PROVE Settled
  BY <1>4 DEF BoardRunsBootcmd, TrapParts, TrapStops, TrapUnseen, PromptUnseen, RamIsNv, Settled,
       ShellReachable, LiveInv, Userland
<1>5. CASE BoardRunsBootcmd /\ UNCHANGED fsm
  <2>1. "uboot" \notin {"kernel"} \cup Userland
    BY DEF Userland
  <2>2. Settled'
    <3>1. CASE Trapped /\ Enter("uboot")
      BY <1>4, <1>5, <2>1, <3>1, TrapEnters
    <3>2. CASE ~Trapped /\ Enter("kernel")
      BY <1>4, <1>5, <3>2, TrapEnters
    <3> QED BY <1>5, <3>1, <3>2 DEF BoardRunsBootcmd, Trapped
  <2> QED BY <2>2, SettledIsTrap
<1>6. CASE BoardReachesUserland /\ UNCHANGED fsm
  <2>1. ~Trapped /\ Settled
    BY <1>6 DEF BoardReachesUserland, TrapParts, TrapStops, TrapUnseen, PromptUnseen, RamIsNv,
         Settled, ShellReachable, LiveInv, Userland
  <2>2. PICK p \in Userland : Enter(p)
    BY <1>6 DEF BoardReachesUserland
  <2>3. p # "uboot"
    BY DEF Userland
  <2> QED BY <2>1, <2>2, <2>3, TrapEnters, SettledIsTrap
<1>7. CASE BoardHangs /\ UNCHANGED fsm
  BY <1>7 DEF BoardHangs, Enter, SshAcross, fsm, TrapParts, TrapStops, TrapUnseen, PromptUnseen,
       RamIsNv, Trapped, At, Userland
<1>8. CASE BoardDropsSsh /\ UNCHANGED fsm
  BY <1>0, <1>8 DEF BoardDropsSsh, fsm, TrapParts, TrapStops, TrapUnseen, PromptUnseen, RamIsNv,
       Trapped, At, ShellReachable
<1>9. CASE TestBoots
  <2>0. Settled
    BY <1>2, <1>9 DEF TestBoots
  <2>1. CASE phys = "shell" /\ Enter("spl")
    <3>1. "spl" \notin {"kernel"} \cup Userland
      BY DEF Userland
    <3> QED BY <2>0, <2>1, <3>1, TrapEnters, SettledIsTrap
  <2>2. CASE phys = "uboot" /\ ram.bootcmd = "orig" /\ Enter("kernel")
    <3>1. ~Trapped
      BY <2>0, <2>2 DEF Settled, Trapped
    <3> QED BY <2>0, <2>2, <3>1, TrapEnters, SettledIsTrap
  <2> QED BY <1>9, <2>1, <2>2 DEF TestBoots
<1> QED BY <1>1, <1>3, <1>5, <1>6, <1>7, <1>8, <1>9 DEF Client, World, BoardBoots

\* The calls of a callback.
LEMMA TrapCalled ==
  ASSUME Clean, TypeInv, FlowInv, LiveInv, TrapParts, CallStep, UNCHANGED station
  PROVE  TrapParts'
<1>0. Faults \cap {"net", "uart", "psu", "lostreboot", "operator", "rebind"} = {}
  BY DEF Clean, CleanFaults
<1>u. ASSUME Settled, UNCHANGED <<phys, nv, ram, ssh>> PROVE TrapParts'
  BY <1>u, SettledStutters, SettledIsTrap
<1>s. ASSUME NEW c, At(c), c \notin {"reboot", "restore_prev", "restore_save"} PROVE Settled
  BY <1>s, TrapIsSettled DEF At
<1>a. Autoboot' <=> Autoboot
  BY DEF Autoboot
<1>r. ASSUME ~At("reboot"), phys \in {"kernel"} \cup Userland \/ ShellReachable \/ SshAnswers
      PROVE  ~Trapped
  BY <1>r, RunningUntrapped DEF TrapParts
<1>1. CASE Route \/ Commit \/ set_state
  <2>1. Settled
    BY <1>1, <1>s DEF Route, Commit, set_state
  <2> QED BY <1>1, <2>1, <1>u DEF Route, Commit, set_state, board
<1>2. CASE ProbeStep
  <2>1. Settled
    BY <1>2, <1>s DEF ProbeStep, AlignSkipped, ProbePower, ProbeNetwork, ProbePassive,
         ProbeActive, ProbeRaises
  <2> QED BY <1>2, <2>1, <1>u DEF ProbeStep, AlignSkipped, ProbePower, ProbeNetwork,
            ProbePassive, ProbeActive, ProbeRaises, board
<1>3. CASE do_apply_bootstrap \/ recovery_pin
  <2>1. Settled
    BY <1>3, <1>s DEF do_apply_bootstrap, recovery_pin
  <2> QED BY <1>3, <2>1, <1>u DEF do_apply_bootstrap, recovery_pin
<1>4. CASE do_power_off
  <2>1. Settled
    BY <1>4, <1>s DEF do_power_off
  <2>2. Settled'
    BY <1>4, <2>1 DEF do_power_off, CloseSsh, Settled, Trapped, PromptUnseen, Userland
  <2> QED BY <2>2, SettledIsTrap
<1>5. CASE do_energize
  <2>1. Settled
    BY <1>5, <1>s DEF do_energize
  <2>2. Settled'
    BY <1>a, <1>5, <2>1 DEF do_energize, ApplyPower, WakeUp, Powered, Settled, Trapped,
         PromptUnseen, Userland
  <2> QED BY <2>2, SettledIsTrap
<1>6. CASE do_hardware_reset \/ do_soft_reboot
  <2>1. Settled
    BY <1>6, <1>s DEF do_hardware_reset, do_soft_reboot
  <2>2. {"spl", "rom"} \cap ({"kernel", "uboot"} \cup Userland) = {} /\ WakeUp \in {"spl", "rom"}
    BY DEF Userland, WakeUp
  <2>3. ASSUME NEW p \in {"spl", "rom"}, Enter(p) PROVE TrapParts'
    <3>1. p \notin {"kernel"} \cup Userland /\ p # "uboot"
      BY <2>2
    <3> QED BY <2>1, <2>3, <3>1, TrapEnters, SettledIsTrap
  <2>4. ASSUME UNCHANGED board PROVE TrapParts'
    BY <2>1, <2>4, <1>u DEF board
  <2> QED BY <1>6, <2>2, <2>3, <2>4 DEF do_hardware_reset, do_soft_reboot
<1>7. CASE trap_save
  <2>1. At("trap_save") /\ Settled
    BY <1>7, <1>s DEF trap_save, FwSetenv
  <2>2. ShellReachable => ~Trapped /\ phys # "uboot"
    BY <2>1, <1>r DEF At, ShellReachable, LiveInv, Userland
  <2>3. nv' = nv \/ (ShellReachable /\ nv' = [nv EXCEPT !.prev = nv.bootcmd])
    BY <1>7 DEF trap_save, FwSetenv
  <2>4. nv'.bootcmd = nv.bootcmd
    BY <2>3 DEF TypeInv, BoardTypeOK, UbootEnv
  <2>5. ram' = nv'
    BY <1>7, <2>1, <2>2, <2>3 DEF trap_save, FwSetenv, Settled
  <2>6. UNCHANGED <<phys, ssh>>
    BY <1>7 DEF trap_save, FwSetenv
  <2>7. Settled'
    BY <1>a, <2>1, <2>4, <2>5, <2>6 DEF Settled, Trapped, PromptUnseen
  <2> QED BY <2>7, SettledIsTrap
<1>8. CASE trap_set
  <2>1. At("trap_set") /\ Settled
    BY <1>8, <1>s DEF trap_set, FwSetenv
  <2>2. UNCHANGED <<phys, ssh, serial>>
    BY <1>8 DEF trap_set, FwSetenv
  <2>3. CASE ~ShellReachable
    BY <1>8, <2>1, <2>2, <2>3, <1>u DEF trap_set, FwSetenv, Settled
  <2>4. CASE ShellReachable
    <3>1. phys \in Userland /\ phys # "uboot"
      BY <2>4 DEF ShellReachable, LiveInv, Userland
    <3>2. Return /\ ram' = nv'
      BY <1>0, <1>8, <2>4, <3>1 DEF trap_set, FwSetenv, CommandFails
    <3>3. todo' # <<>> /\ Head(todo') = "reboot"
      BY <2>1, <3>2, NextCall DEF Follows, Return
    <3>4. ShellReachable'
      BY <2>2, <2>4 DEF ShellReachable
    <3> QED BY <2>2, <3>1, <3>2, <3>3, <3>4 DEF TrapParts, TrapStops, TrapUnseen, PromptUnseen,
              RamIsNv, At
  <2> QED BY <2>3, <2>4
<1>9. CASE reboot
  <2>1. At("reboot") /\ ram = nv /\ ssh' = "no"
    BY <1>9 DEF reboot, CloseSsh, TrapParts, RamIsNv, At
  <2>2. ram' = nv' /\ UNCHANGED nv
    BY <1>9, <2>1 DEF reboot
  <2>3. Trapped => phys' \notin {"kernel"} \cup Userland
    BY <1>0, <1>9 DEF reboot, TrapParts, TrapStops, Userland
  <2>4. Settled'
    BY <2>1, <2>2, <2>3 DEF Settled, Trapped, PromptUnseen
  <2> QED BY <2>4, SettledIsTrap
<1>10. CASE restore_bootcmd
  <2>1. At("restore_bootcmd") /\ Settled
    BY <1>10, <1>s DEF restore_bootcmd, UbootRun
  <2>2. UNCHANGED <<phys, nv, serial, ssh>>
    BY <1>10 DEF restore_bootcmd, UbootRun
  <2>3. CASE ram' = ram
    BY <2>1, <2>2, <2>3, <1>u
  <2>4. CASE ram' # ram
    <3>1. serial /\ phys = "uboot" /\ Return
      BY <1>10, <2>4 DEF restore_bootcmd, UbootRun
    <3>2. todo' # <<>> /\ Head(todo') = "restore_prev"
      BY <2>1, <3>1, NextCall DEF Follows, Return
    <3> QED BY <1>a, <2>1, <2>2, <3>1, <3>2 DEF Settled, TrapParts, TrapStops, TrapUnseen,
              PromptUnseen, RamIsNv, Trapped, At
  <2> QED BY <2>3, <2>4
<1>11. CASE restore_prev
  <2>1. At("restore_prev") /\ ~At("reboot")
    BY <1>11 DEF restore_prev, UbootRun, At
  <2>2. UNCHANGED <<phys, nv, serial, ssh>>
    BY <1>11 DEF restore_prev, UbootRun
  <2>3. (Trapped => phys \notin {"kernel"} \cup Userland /\ ssh = "no") /\ PromptUnseen
    BY <2>1 DEF TrapParts, TrapStops, TrapUnseen
  <2>4. CASE ram = nv /\ ram' = ram
    BY <2>2, <2>3, <2>4, <1>u DEF Settled
  <2>5. CASE ~(ram = nv /\ ram' = ram)
    <3>1. serial /\ phys = "uboot" /\ Return
      BY <1>11, <2>5 DEF restore_prev, UbootRun, TrapParts, RamIsNv
    <3>2. todo' # <<>> /\ Head(todo') = "restore_save"
      BY <2>1, <3>1, NextCall DEF Follows, Return
    <3> QED BY <1>a, <2>2, <2>3, <3>1, <3>2 DEF TrapParts, TrapStops, TrapUnseen,
              PromptUnseen, RamIsNv, Trapped, At
  <2> QED BY <2>4, <2>5
<1>12. CASE restore_save
  <2>1. At("restore_save") /\ ~At("reboot")
    BY <1>12 DEF restore_save, At
  <2>2. UNCHANGED <<phys, ram, serial, ssh>>
    BY <1>12 DEF restore_save
  <2>3. (Trapped => phys \notin {"kernel"} \cup Userland /\ ssh = "no") /\ PromptUnseen
    BY <2>1 DEF TrapParts, TrapStops, TrapUnseen
  <2>4. CASE phys = "uboot" /\ serial
    <3>1. nv' = ram
      BY <1>0, <1>12, <2>4 DEF restore_save
    <3>2. todo \in Seq(Calls) /\ todo # <<>> /\ todo[1] = "restore_save"
      BY <2>1 DEF At, TypeInv, FsmInv, FsmTypeOK
    <3>3. ~Autoboot
      <4>1. 1 \in 1 .. Len(todo)
        BY <3>2, LenProperties, EmptySeq
      <4> QED BY <3>2, <4>1 DEF FlowInv, Path, TrapCalls
    <3>4. Settled'
      BY <2>2, <2>3, <2>4, <3>1, <3>3 DEF Settled, PromptUnseen, Userland
    <3> QED BY <3>4, SettledIsTrap
  <2>5. CASE ~(phys = "uboot" /\ serial)
    <3>1. ram = nv /\ UNCHANGED nv
      BY <1>12, <2>5 DEF restore_save, TrapParts, RamIsNv
    <3> QED BY <2>2, <2>3, <3>1, <1>u DEF Settled
  <2> QED BY <2>4, <2>5
<1>13. CASE boot_cmd
  <2>1. Settled
    BY <1>13, <1>s DEF boot_cmd
  <2>2. Settled'
    BY <1>a, <1>13, <2>1 DEF boot_cmd, BootCmd, Settled, Trapped, PromptUnseen
  <2> QED BY <2>2, SettledIsTrap
<1>14. CASE WaitStep
  <2>1. Settled
    BY <1>14, <1>s DEF WaitStep, SnipeAutoboot, wait_uboot, LogIn, InjectBoot, ShellSeen,
         KernelPanic, WaitTimesOut
  <2>2. CASE SnipeAutoboot
    <3>1. "uboot" \notin {"kernel"} \cup Userland
      BY DEF Userland
    <3> QED BY <2>1, <2>2, <3>1, TrapEnters, SettledIsTrap DEF SnipeAutoboot
  <2>3. CASE LogIn
    <3>1. ~Trapped
      BY <2>1, <2>3 DEF LogIn, Settled, Userland
    <3>2. "shell" # "uboot"
      OBVIOUS
    <3> QED BY <2>1, <2>3, <3>1, <3>2, TrapEnters, SettledIsTrap DEF LogIn
  <2>4. CASE InjectBoot
    <3>1. ~Trapped
      BY <2>1, <2>4 DEF InjectBoot, Settled, Trapped
    <3>2. "kernel" # "uboot"
      OBVIOUS
    <3> QED BY <2>1, <2>4, <3>1, <3>2, TrapEnters, SettledIsTrap DEF InjectBoot
  <2> QED BY <1>14, <1>u, <2>1, <2>2, <2>3, <2>4 DEF WaitStep, wait_uboot, ShellSeen,
            KernelPanic, WaitTimesOut, board
<1>15. CASE finalize_os_boot \/ ResumeAlive \/ ResumeDead
  <2>1. Settled
    BY <1>15, <1>s DEF finalize_os_boot, ResumeAlive, ResumeDead
  <2>2. ssh' \in {ssh, "no"} \/ (SshAnswers /\ ~Trapped)
    BY <1>15, <2>1 DEF finalize_os_boot, ResumeAlive, ResumeDead, SshHeartbeat,
         SshHeartbeatFails, SshAnswers, Settled
  <2>3. UNCHANGED <<phys, nv, ram>>
    BY <1>15 DEF finalize_os_boot, ResumeAlive, ResumeDead
  <2>4. Settled'
    BY <1>a, <2>1, <2>2, <2>3 DEF Settled, Trapped, PromptUnseen, SshAnswers, Userland
  <2> QED BY <2>4, SettledIsTrap
<1> QED BY <1>1, <1>2, <1>3, <1>4, <1>5, <1>6, <1>7, <1>8, <1>9, <1>10, <1>11, <1>12, <1>13,
           <1>14, <1>15
        DEF CallStep

\* The way to the end of boot_to_os leads past a session that was open, or that
\* could be opened.
LEMMA OsCommitted ==
  ASSUME Clean, TypeInv, FlowInv, LiveInv, TrapParts, OsCommit, Next
  PROVE  OsCommit'
<1>f. ASSUME UNCHANGED <<nv, fsm>> PROVE OsCommit'
  BY <1>f DEF OsCommit, Trapped, At, fsm
<1>b. ASSUME todo' = <<>> PROVE OsCommit'
  BY <1>b DEF OsCommit, At
<1>h. ASSUME NEW c, todo' # <<>>, Head(todo') = c, c # "commit" PROVE OsCommit'
  BY <1>h DEF OsCommit, At
<1>a. ASSUME NEW c, At(c), Return, c \notin {"commit", "route", "finalize", "resume"}
      PROVE  OsCommit'
  <2>1. Tail(todo) # <<>> /\ Follows(op.trig, c, Head(Tail(todo))) /\ c \in Calls
    BY <1>a, NextCall, HeadTailProperties DEF At, TypeInv, FsmInv, FsmTypeOK
  <2>2. ~(Head(Tail(todo)) = "commit" /\ op.trig = "boot_to_os")
    BY <1>a, <2>1 DEF Follows, Calls
  <2> QED BY <1>a, <2>2 DEF Return, OsCommit, At
<1>i. ASSUME NEW t, NEW c, NEW p, Plan(t, c, p), Instead(p), c # "commit" PROVE OsCommit'
  BY <1>i, <1>h DEF Plan, Instead
<1>1. CASE Client
  <2>1. CASE mark_dirty
    BY <2>1 DEF mark_dirty, board, Idle, OsCommit, At
  <2>2. CASE release_recovery
    BY <2>2, <1>f DEF release_recovery
  <2>3. ASSUME NEW t \in Trigger, NEW m \in Mediums, Fire(t, m) PROVE OsCommit'
    BY <2>3, <1>h DEF Fire
  <2> QED BY <1>1, <2>1, <2>2, <2>3 DEF Client
<1>2. CASE World \/ SnipeAutoboot \/ LogIn \/ InjectBoot
  BY <1>2, <1>f DEF World, BoardBoots, BoardRunsBootcmd, BoardReachesUserland, BoardHangs,
       BoardDropsSsh, TestBoots, SnipeAutoboot, LogIn, InjectBoot, Enter
<1>3. CASE Route
  <2>1. op.trig \in Trigger /\ state \in DutState
    BY <1>3 DEF Route, At, TypeInv, FsmInv, FsmTypeOK
  <2>2. PICK c \in Calls : Plan(op.trig, c, Callback) /\ Starts(op.trig, c)
    BY <2>1, CallbackPath
  <2>3. todo' # <<>> /\ Head(todo') = c /\ op' = op
    BY <1>3, <2>2 DEF Route, Instead, Plan
  <2> QED BY <2>2, <2>3 DEF Starts, OsCommit, At
<1>4. CASE Commit
  BY <1>4, <1>b DEF Commit
<1>5. CASE ProbeStep \/ set_state
  BY <1>5, <1>a, <1>b DEF ProbeStep, AlignSkipped, ProbePower, ProbeNetwork, ProbePassive,
       ProbeActive, ProbeRaises, Align, set_state, Raise
<1>6. CASE do_power_off \/ do_apply_bootstrap \/ do_energize \/ recovery_pin
  BY <1>6, <1>a, <1>b DEF do_power_off, do_apply_bootstrap, SetMedium,
       do_energize, rebind_serial_port, recovery_pin, Raise
<1>7. CASE do_hardware_reset
  <2>1. CASE Return
    BY <1>7, <2>1, <1>a DEF do_hardware_reset
  <2>2. CASE Instead(<<"power_off", "energize">> \o Tail(todo))
    BY <1>7, <2>2, <1>i, ResetPath DEF do_hardware_reset
  <2>3. CASE Raise
    BY <1>7, <2>3, <1>b DEF Raise, do_hardware_reset
  <2> QED BY <1>7, <2>1, <2>2, <2>3 DEF do_hardware_reset
<1>8. CASE \/ trap_save \/ trap_set \/ reboot \/ do_soft_reboot
           \/ restore_bootcmd \/ restore_prev \/ restore_save \/ boot_cmd
  BY <1>8, <1>a, <1>b DEF trap_save, trap_set, FwSetenv, reboot, do_soft_reboot,
       restore_bootcmd, restore_prev, UbootRun, restore_save, boot_cmd, Raise
<1>9. CASE wait_uboot \/ ShellSeen \/ KernelPanic
  BY <1>9, <1>a, <1>b DEF wait_uboot, ShellSeen, KernelPanic, Raise
<1>10. CASE WaitTimesOut
  BY <1>10, <1>b, <1>i, OsPlans DEF WaitTimesOut, Raise
<1>11. CASE finalize_os_boot
  <2>1. CASE Raise
    BY <2>1, <1>b DEF Raise
  <2>2. CASE ~Raise
    <3>1. ~At("reboot") /\ UNCHANGED nv /\ (ssh # "no" \/ SshAnswers)
      BY <1>11, <2>2 DEF finalize_os_boot, At
    <3>2. ~Trapped
      BY <3>1, RunningUntrapped DEF TrapParts, TrapUnseen
    <3> QED BY <3>1, <3>2 DEF OsCommit, Trapped
  <2> QED BY <2>1, <2>2
<1>12. CASE ResumeAlive \/ ResumeDead
  BY <1>12, <1>i, OtherPlans DEF ResumeAlive, ResumeDead
<1> QED BY <1>1, <1>2, <1>3, <1>4, <1>5, <1>6, <1>7, <1>8, <1>9, <1>10, <1>11, <1>12
        DEF Next, CallStep, WaitStep

LEMMA TrapInitially == Init => LiveInv /\ TrapInv
  BY DEF Init, BoardInit, LiveInv, TrapInv, TrapParts, TrapStops, TrapUnseen, PromptUnseen,
       RamIsNv, OsCommit, Trapped, At

LEMMA TrapInductive ==
  TypeInv /\ FlowInv /\ LiveInv /\ TrapInv /\ [Next]_vars => TrapInv'
<1> SUFFICES ASSUME TypeInv, FlowInv, LiveInv, TrapInv, [Next]_vars, Clean'
             PROVE  TrapParts' /\ OsCommit'
  BY DEF TrapInv
<1>0. Clean /\ TrapParts /\ OsCommit /\ UNCHANGED station
  BY CleanStays DEF TrapInv, Next, vars
<1>1. CASE UNCHANGED vars
  BY <1>0, <1>1, TrapStutters DEF vars, board, fsm, OsCommit, Trapped, At
<1>2. CASE Next
  BY <1>0, <1>2, TrapWorld, TrapCalled, OsCommitted DEF Next
<1> QED BY <1>1, <1>2

\* boot_to_os never reports a board whose stored bootcmd is still the trap of
\* TrapRebootStrategy: the next power cycle boots Linux again.  For every
\* station, with or without a supply, on which no command is left in doubt.
THEOREM OsLeavesNoTrap == Spec => OsIsUntrapped
<1>1. TrapInv
        => [Clean /\ At("commit") /\ op.trig = "boot_to_os" => nv.bootcmd = "orig"]_vars
  BY DEF TrapInv, OsCommit, Trapped
<1> QED BY <1>1, TypeInitially, TypeInductive, FlowInitially, FlowInductive, TrapInitially,
           LiveInductive, TrapInductive, PTL
        DEF Spec, OsIsUntrapped
-----------------------------------------------------------------------------
(* SSH sessions                                                             *)

\* FreshSession is not inductive: a session goes stale when a reset pin is
\* pulled on it, and then a power-off has to come before the end; where none
\* does, after a lost heartbeat or before a soft reboot, there is no session.
Fresh ==
    /\ Faults \cap {"hang", "selfboot", "operator", "gpio"} = {}
    /\ HasGpio => "net" \notin Faults
StaleIsClosed == ssh = "stale" => At("set_dirty") \/ At("power_off")
ResetUnseen == HasGpio /\ At("reset") => ssh = "no" \/ Head(Tail(todo)) = "set_dirty"
RebootUnseen ==
    /\ ~HasPsu /\ state = "ENERGIZED" /\ (At("route") \/ At("soft_reboot")) => ssh = "no"
    /\ At("soft_reboot") => ~HasPsu /\ state = "ENERGIZED"
FreshParts == StaleIsClosed /\ ResetUnseen /\ RebootUnseen
FreshInv == Fresh => FreshParts

LEMMA FreshWorld ==
  ASSUME Fresh, LiveInv, FreshParts, Client \/ World, UNCHANGED station
  PROVE  FreshParts'
<1>0. (HasGpio' <=> HasGpio) /\ (HasPsu' <=> HasPsu)
  BY DEF HasGpio, HasPsu
<1>f. ASSUME ssh' \in {ssh, "no"}, UNCHANGED fsm PROVE FreshParts'
  BY <1>0, <1>f DEF FreshParts, StaleIsClosed, ResetUnseen, RebootUnseen, At, fsm
<1>1. CASE mark_dirty
  BY <1>1 DEF mark_dirty, board, Idle, FreshParts, StaleIsClosed, ResetUnseen, RebootUnseen, At
<1>2. CASE release_recovery
  BY <1>2, <1>f DEF release_recovery
<1>3. ASSUME NEW t \in Trigger, NEW m \in Mediums, Fire(t, m) PROVE FreshParts'
  <2>1. todo' # <<>> /\ Head(todo') = "align" /\ todo = <<>> /\ UNCHANGED ssh
    BY <1>3 DEF Fire, Idle, board
  <2> QED BY <2>1 DEF FreshParts, StaleIsClosed, ResetUnseen, RebootUnseen, At
<1>4. CASE BoardBoots
  <2>1. UNCHANGED <<ssh, fsm>>
    BY <1>4 DEF BoardBoots, BoardRunsBootcmd, BoardReachesUserland, Enter, SshAcross, LiveInv,
         Userland
  <2> QED BY <2>1, <1>f
<1>5. CASE (BoardHangs \/ BoardDropsSsh) /\ UNCHANGED fsm
  BY <1>5, <1>f DEF BoardHangs, BoardDropsSsh, Fresh
<1>6. ~TestBoots
  BY DEF TestBoots, Fresh
<1> QED BY <1>1, <1>2, <1>3, <1>4, <1>5, <1>6 DEF Client, World

LEMMA FreshCalled ==
  ASSUME Fresh, TypeInv, FlowInv, LiveInv, FreshParts, CallStep, UNCHANGED station
  PROVE  FreshParts'
<1>0. (HasGpio' <=> HasGpio) /\ (HasPsu' <=> HasPsu)
  BY DEF HasGpio, HasPsu
<1>b. ASSUME todo' = <<>>, ssh' # "stale" PROVE FreshParts'
  BY <1>b DEF FreshParts, StaleIsClosed, ResetUnseen, RebootUnseen, At
<1>h. ASSUME NEW c, todo' # <<>>, Head(todo') = c, c \notin {"reset", "route", "soft_reboot"},
             ssh' # "stale" \/ c \in {"set_dirty", "power_off"}
      PROVE  FreshParts'
  BY <1>h DEF FreshParts, StaleIsClosed, ResetUnseen, RebootUnseen, At
<1>a. ASSUME NEW c, At(c), Return, c \notin {"commit", "route", "align"}, ssh' # "stale"
      PROVE  FreshParts'
  <2>1. Tail(todo) # <<>> /\ Follows(op.trig, c, Head(Tail(todo))) /\ c \in Calls
    BY <1>a, NextCall, HeadTailProperties DEF At, TypeInv, FsmInv, FsmTypeOK
  <2>2. Head(Tail(todo)) \notin {"reset", "route", "soft_reboot"}
    BY <1>a, <2>1 DEF Follows, Calls
  <2> QED BY <1>a, <1>h, <2>1, <2>2 DEF Return
<1>s. ASSUME NEW c, At(c), c \notin {"set_dirty", "power_off"} PROVE ssh # "stale"
  BY <1>s DEF FreshParts, StaleIsClosed, At
<1>1. CASE Route
  <2>1. op.trig \in Trigger /\ state \in DutState
    BY <1>1 DEF Route, At, TypeInv, FsmInv, FsmTypeOK
  <2>2. PICK c \in Calls : Plan(op.trig, c, Callback) /\ Starts(op.trig, c)
    BY <2>1, CallbackPath
  <2>3. todo' # <<>> /\ Head(todo') = c /\ UNCHANGED <<ssh, state>>
    BY <1>1, <2>2 DEF Route, Instead, Plan, Quiet, board
  <2>4. ssh # "stale" /\ (~HasPsu /\ state = "ENERGIZED" => ssh = "no")
    BY <1>1, <1>s DEF Route, FreshParts, RebootUnseen
  <2>5. c \notin {"reset", "route"} /\ (c = "soft_reboot" => ~HasPsu /\ state = "ENERGIZED")
    BY <2>2 DEF Starts
  <2> QED BY <1>0, <2>3, <2>4, <2>5 DEF FreshParts, StaleIsClosed, ResetUnseen, RebootUnseen, At
<1>2. CASE Commit
  BY <1>2, <1>b, <1>s DEF Commit, board
<1>3. CASE set_state
  <2>1. CASE At("set_energized")
    BY <1>3, <2>1, <1>a, <1>s DEF set_state, board
  <2>2. CASE At("set_dirty")
    <3>1. todo' # <<>> /\ Head(todo') = "power_off"
      BY <1>3, <2>2, NextCall DEF set_state, Return, Follows
    <3> QED BY <3>1, <1>h
  <2> QED BY <1>3, <2>1, <2>2 DEF set_state
<1>4. CASE ProbeStep
  <2>1. At("align") /\ ssh # "stale" /\ UNCHANGED ssh
    BY <1>4, <1>s DEF ProbeStep, AlignSkipped, ProbePower, ProbeNetwork, ProbePassive,
         ProbeActive, ProbeRaises, board
  <2>2. CASE Raise
    BY <2>1, <2>2, <1>b DEF Raise
  <2>3. CASE ~Raise
    <3>1. Return /\ (~HasPsu /\ state' = "ENERGIZED" => ssh = "no")
      BY <1>4, <2>3 DEF ProbeStep, AlignSkipped, ProbePower, ProbeNetwork, ProbePassive,
           ProbeActive, ProbeRaises, Align, SkipProbe, NetworkInconclusive
    <3>2. todo' # <<>> /\ Head(todo') = "route"
      BY <2>1, <3>1, NextCall DEF Return, Follows
    <3> QED BY <1>0, <2>1, <3>1, <3>2 DEF FreshParts, StaleIsClosed, ResetUnseen, RebootUnseen, At
  <2> QED BY <2>2, <2>3
<1>5. CASE do_power_off
  BY <1>5, <1>a, <1>b DEF do_power_off, CloseSsh, Raise
<1>6. CASE do_apply_bootstrap \/ do_energize \/ recovery_pin
  <2>1. ssh # "stale" /\ UNCHANGED ssh
    BY <1>6, <1>s DEF do_apply_bootstrap, do_energize, recovery_pin
  <2> QED BY <1>6, <2>1, <1>a, <1>b DEF do_apply_bootstrap, SetMedium,
            do_energize, rebind_serial_port, recovery_pin, Raise
<1>7. CASE do_hardware_reset
  <2>1. At("reset") /\ ssh # "stale"
    BY <1>7, <1>s DEF do_hardware_reset
  <2>2. CASE HasGpio
    <3>1. Return /\ ssh' \in {ssh, "stale"} /\ (ssh = "no" => ssh' = "no")
      BY <1>7, <2>2 DEF do_hardware_reset, Enter, SshAcross, board, Fresh
    <3>2. CASE ssh = "no"
      BY <2>1, <3>1, <3>2, <1>a
    <3>3. CASE Head(Tail(todo)) = "set_dirty"
      <4>1. todo' # <<>> /\ Head(todo') = "set_dirty"
        BY <2>1, <3>1, <3>3, NextCall DEF Return
      <4> QED BY <4>1, <1>h
    <3> QED BY <2>1, <2>2, <3>2, <3>3 DEF FreshParts, ResetUnseen
  <2>3. CASE ~HasGpio
    <3>1. Instead(<<"power_off", "energize">> \o Tail(todo))
      BY <1>7, <2>3 DEF do_hardware_reset
    <3>2. todo' # <<>> /\ Head(todo') = "power_off"
      BY <2>1, <3>1, ResetPath DEF Instead, Plan
    <3> QED BY <3>2, <1>h
  <2> QED BY <2>2, <2>3
<1>8. CASE do_soft_reboot
  <2>1. At("soft_reboot") /\ ssh = "no"
    BY <1>8 DEF do_soft_reboot, FreshParts, RebootUnseen
  <2>2. ssh' = "no"
    BY <1>8, <2>1 DEF do_soft_reboot, Enter, SshAcross, board
  <2> QED BY <1>8, <2>1, <2>2, <1>a, <1>b DEF do_soft_reboot, Raise
<1>9. CASE reboot
  BY <1>9, <1>a DEF reboot, CloseSsh
<1>10. CASE trap_save \/ trap_set \/ restore_bootcmd \/ restore_prev \/ restore_save \/ boot_cmd
  <2>1. ssh # "stale" /\ UNCHANGED ssh
    BY <1>10, <1>s DEF trap_save, trap_set, FwSetenv, restore_bootcmd, restore_prev, UbootRun,
         restore_save, boot_cmd
  <2> QED BY <1>10, <2>1, <1>a, <1>b DEF trap_save, trap_set, FwSetenv, restore_bootcmd,
            restore_prev, UbootRun, restore_save, boot_cmd, Raise
<1>11. CASE SnipeAutoboot \/ LogIn \/ InjectBoot
  <2>1. ssh # "stale" /\ UNCHANGED ssh /\ UNCHANGED fsm
    BY <1>11, <1>s DEF SnipeAutoboot, LogIn, InjectBoot, Enter, SshAcross, LiveInv, Userland
  <2> QED BY <1>0, <2>1 DEF FreshParts, StaleIsClosed, ResetUnseen, RebootUnseen, At, fsm
<1>12. CASE wait_uboot \/ ShellSeen \/ KernelPanic
  <2>1. ssh # "stale" /\ UNCHANGED ssh
    BY <1>12, <1>s DEF wait_uboot, ShellSeen, KernelPanic, board
  <2> QED BY <1>12, <2>1, <1>a, <1>b DEF wait_uboot, ShellSeen, KernelPanic, Raise
<1>13. CASE WaitTimesOut
  <2>1. ssh # "stale" /\ UNCHANGED ssh
    BY <1>13, <1>s DEF WaitTimesOut, board
  <2>2. CASE Raise
    BY <2>1, <2>2, <1>b DEF Raise
  <2>3. CASE ~Raise
    <3> DEFINE p == <<"reset", "set_dirty", "power_off", "strap">>
               q == cold_boot_to_os
    <3>1. p \in Seq(Calls) /\ q \in Seq(Calls) /\ Len(p) = 4 /\ p[1] = "reset"
          /\ p[2] = "set_dirty" /\ todo' = p \o q
      BY <1>13, <2>3, OsPlans DEF WaitTimesOut, Instead, Plan, Calls
    <3> HIDE DEF p, q
    <3>2. /\ p \o q \in Seq(Calls) /\ Len(p \o q) = Len(p) + Len(q) /\ Len(q) \in Nat
          /\ \A i \in 1 .. Len(p) : (p \o q)[i] = p[i]
      <4>1. p \in Seq(Calls) /\ q \in Seq(Calls)
        BY <3>1
      <4> QED BY <4>1, ConcatProperties, LenProperties
    <3>3. p \o q # <<>> /\ (p \o q)[1] = "reset" /\ (p \o q)[2] = "set_dirty"
      BY <3>1, <3>2
    <3> DEFINE r == p \o q
    <3>4. r \in Seq(Calls) /\ r # <<>> /\ r[1] = "reset" /\ r[2] = "set_dirty" /\ todo' = r
          /\ Len(r) >= 4 /\ Len(r) \in Nat
      BY <3>1, <3>2, <3>3
    <3> HIDE DEF r
    <3>5. Head(r) = "reset" /\ Head(Tail(r)) = "set_dirty"
      <4>1. Tail(r) \in Seq(Calls) /\ Len(Tail(r)) >= 3 /\ Tail(r)[1] = r[2]
        BY <3>4, HeadTailProperties
      <4> QED BY <3>4, <4>1
    <3> QED BY <2>1, <3>4, <3>5 DEF FreshParts, StaleIsClosed, ResetUnseen, RebootUnseen, At
  <2> QED BY <2>2, <2>3
<1>14. CASE finalize_os_boot
  <2>1. ssh' # "stale"
    BY <1>14, <1>s DEF finalize_os_boot
  <2> QED BY <1>14, <2>1, <1>a, <1>b DEF finalize_os_boot, Raise
<1>15. CASE ResumeAlive
  <2>1. ssh' # "stale"
    BY <1>15, <1>s DEF ResumeAlive, SshHeartbeat, SshHeartbeatFails
  <2>2. todo' # <<>> /\ Head(todo') = "finalize"
    BY <1>15, OtherPlans DEF ResumeAlive, Instead, Plan
  <2> QED BY <2>1, <2>2, <1>h
<1>16. CASE ResumeDead
  <2>1. ssh' # "stale" /\ (HasGpio => ssh' = "no")
    BY <1>16, <1>s DEF ResumeDead, SshHeartbeatFails, Fresh
  <2>2. todo' # <<>> /\ Head(todo') = "reset"
    BY <1>16, OtherPlans DEF ResumeDead, Instead, Plan
  <2> QED BY <1>0, <2>1, <2>2 DEF FreshParts, StaleIsClosed, ResetUnseen, RebootUnseen, At
<1> QED BY <1>1, <1>2, <1>3, <1>4, <1>5, <1>6, <1>7, <1>8, <1>9, <1>10, <1>11, <1>12, <1>13,
           <1>14, <1>15, <1>16
        DEF CallStep, WaitStep

\* boot_to_os never returns with a session of a boot that is over
\* (finalize_os_boot keeps whatever session it finds open), if only the
\* framework restarts the board and no heartbeat is lost before a reset pin.
THEOREM SessionsAreFresh == Spec => FreshSession
<1>1. Init => FreshInv
  BY DEF Init, BoardInit, FreshInv, FreshParts, StaleIsClosed, ResetUnseen, RebootUnseen, At
<1>2. TypeInv /\ FlowInv /\ LiveInv /\ FreshInv /\ [Next]_vars => FreshInv'
  <2> SUFFICES ASSUME TypeInv, FlowInv, LiveInv, FreshInv, [Next]_vars, Fresh'
               PROVE  FreshParts'
    BY DEF FreshInv
  <2>0. Fresh /\ FreshParts /\ UNCHANGED station
    BY DEF Next, vars, Fresh, FreshInv, Faults, HasGpio
  <2>1. CASE UNCHANGED vars
    <3>1. (HasGpio' <=> HasGpio) /\ (HasPsu' <=> HasPsu)
      BY <2>0 DEF HasGpio, HasPsu
    <3> QED BY <2>0, <2>1, <3>1 DEF vars, board, fsm, FreshParts, StaleIsClosed, ResetUnseen,
              RebootUnseen, At
  <2>2. CASE Next
    BY <2>0, <2>2, FreshWorld, FreshCalled DEF Next
  <2> QED BY <2>1, <2>2
<1>3. FreshInv
        => [(/\ Faults \cap {"hang", "selfboot", "operator", "gpio"} = {}
             /\ HasGpio => "net" \notin Faults
             /\ At("commit") /\ op.trig = "boot_to_os")
            => ssh # "stale"]_vars
  BY DEF FreshInv, Fresh, FreshParts, StaleIsClosed, At
<1> QED BY <1>1, <1>2, <1>3, TypeInitially, TypeInductive, FlowInitially, FlowInductive,
           TrapInitially, LiveInductive, PTL
        DEF Spec, FreshSession
-----------------------------------------------------------------------------
(* The original bootcmd                                                     *)

\* OriginalBootcmdKept is not inductive: it would be lost if _restore_uboot_trap
\* met U-Boot half way, so a board that is still on its way to the prompt must
\* not be taken to be there, by the state or by an old chunk of console output.
\* The parts hold on a clean station with a supply on which the trap is used.
Env(b, p) == [bootcmd |-> b, prev |-> p]
Prompted == \E k \in DOMAIN rawq : rawq[k] = "uboot"
Wired == Powered => serial
Stored == nv.bootcmd = "orig" \/ nv = Env("trap", "orig")
AtPrompt == phys = "uboot" => Trapped \/ At("boot_cmd")
Restoring ==
    /\ phys = "uboot" /\ At("restore_prev") => ram = Env("orig", "orig")
    /\ phys = "uboot" /\ At("restore_save") => ram = Env("orig", "none")
    /\ At("restore_bootcmd") \/ At("restore_prev") \/ At("restore_save") => state = "BOOTLOADER"
Saved == At("trap_set") => nv = Env("orig", "orig")
Booting ==
    Trapped /\ phys = "spl" =>
        /\ ~(At("commit") /\ op.trig = "boot_to_bootloader")
        /\ state = "BOOTLOADER" =>
             \/ At("wait_os") \/ At("wait_uboot") \/ At("pin_off")
             \/ At("set_energized") \/ At("set_dirty") \/ At("commit")
        /\ Prompted =>
             At("set_energized") \/ At("hot_wait") \/ At("set_dirty") \/ At("power_off")
Rebooting == Trapped /\ At("reboot") => phys \in Userland \cup {"hung"} /\ ~Prompted
Unprompted == ~Trapped /\ Prompted => At("boot_cmd")
KeepParts == /\ Wired /\ Stored /\ AtPrompt /\ Restoring /\ Saved /\ Booting /\ Rebooting
             /\ Unprompted
Trapping == Clean /\ HasPsu /\ ~Autoboot
KeepInv == Trapping => KeepParts
\* Where the countdown can be stopped, the trap is never set.
AutoInv == Autoboot => ~Trapped

LEMMA PromptQueues ==
  /\ rawq' = <<>> => ~Prompted'
  /\ \A c \in Chunk : rawq' = <<c>> => (Prompted' <=> c = "uboot")
  /\ rawq' = rawq => (Prompted' <=> Prompted)
<1>1. rawq' = <<>> => ~Prompted'
  BY DEF Prompted
<1>2. ASSUME NEW c \in Chunk, rawq' = <<c>> PROVE Prompted' <=> c = "uboot"
  BY <1>2 DEF Prompted
<1>3. rawq' = rawq => (Prompted' <=> Prompted)
  BY DEF Prompted
<1> QED BY <1>1, <1>2, <1>3

LEMMA PromptTail ==
  ASSUME BoardTypeOK, rawq # <<>>, rawq' = Tail(rawq), Prompted'
  PROVE  Prompted
<1>1. rawq \in Seq(Chunk) /\ DOMAIN rawq = 1 .. Len(rawq) /\ Len(rawq) \in Nat
  BY LenProperties DEF BoardTypeOK
<1>2. /\ Tail(rawq) \in Seq(Chunk) /\ Len(Tail(rawq)) = Len(rawq) - 1
      /\ \A i \in 1 .. Len(Tail(rawq)) : Tail(rawq)[i] = rawq[i + 1]
  BY <1>1, HeadTailProperties
<1>3. PICK k \in DOMAIN rawq' : rawq'[k] = "uboot"
  BY DEF Prompted
<1>4. k \in 1 .. Len(Tail(rawq))
  BY <1>2, <1>3, LenProperties
<1>5. rawq[k + 1] = "uboot" /\ k + 1 \in 1 .. Len(rawq)
  BY <1>1, <1>2, <1>3, <1>4
<1> QED BY <1>1, <1>5 DEF Prompted

\* Only a board at its U-Boot prompt adds a prompt to the queue.
LEMMA PromptRx ==
  ASSUME BoardTypeOK, NEW p, p # "uboot", rawq' = Rx(p), Prompted'
  PROVE  Prompted
<1> DEFINE c == Prints(p)
<1>0. c \in Chunk /\ c # "uboot"
  BY DEF Prints, Chunk
<1>1. rawq \in Seq(Chunk) /\ DOMAIN rawq = 1 .. Len(rawq) /\ Len(rawq) \in Nat
  BY LenProperties DEF BoardTypeOK
<1>2. CASE rawq' = rawq
  BY <1>2, PromptQueues
<1>3. ASSUME NEW q \in Seq(Chunk), rawq' = Append(q, c)
      PROVE  \E k \in 1 .. Len(q) : q[k] = "uboot"
  <2>1. /\ Append(q, c) \in Seq(Chunk) /\ Len(Append(q, c)) = Len(q) + 1 /\ Len(q) \in Nat
        /\ \A i \in 1 .. Len(q) : Append(q, c)[i] = q[i]
        /\ Append(q, c)[Len(q) + 1] = c
    BY <1>0, AppendProperties, LenProperties
  <2>2. PICK k \in DOMAIN rawq' : rawq'[k] = "uboot"
    BY DEF Prompted
  <2>3. k \in 1 .. Len(q) + 1 /\ Append(q, c)[k] = "uboot"
    BY <1>3, <2>1, <2>2, LenProperties
  <2>4. k # Len(q) + 1
    BY <1>0, <2>1, <2>3
  <2>5. k \in 1 .. Len(q)
    BY <2>1, <2>3, <2>4
  <2> QED BY <2>1, <2>3, <2>5
<1>4. CASE rawq' = Append(rawq, c)
  BY <1>1, <1>3, <1>4 DEF Prompted
<1>5. CASE rawq' = Append(Tail(rawq), c) /\ Len(rawq) = QMax
  <2>1. rawq # <<>>
    BY <1>1, <1>5, BoardAssumption
  <2>2. /\ Tail(rawq) \in Seq(Chunk) /\ Len(Tail(rawq)) = Len(rawq) - 1
        /\ \A i \in 1 .. Len(Tail(rawq)) : Tail(rawq)[i] = rawq[i + 1]
    BY <1>1, <2>1, HeadTailProperties
  <2>3. PICK k \in 1 .. Len(Tail(rawq)) : Tail(rawq)[k] = "uboot"
    BY <1>3, <1>5, <2>2
  <2>4. rawq[k + 1] = "uboot" /\ k + 1 \in 1 .. Len(rawq)
    BY <1>1, <2>2, <2>3
  <2> QED BY <1>1, <2>4 DEF Prompted
<1>6. rawq' = rawq \/ rawq' = Append(rawq, c)
      \/ (rawq' = Append(Tail(rawq), c) /\ Len(rawq) = QMax)
  <2>1. Len(rawq) < QMax \/ Len(rawq) = QMax
    <3>1. Len(rawq) \in Nat /\ QMax \in Nat
      BY <1>1, BoardAssumption
    <3>2. Len(rawq) <= QMax
      BY DEF BoardTypeOK
    <3> QED BY <3>1, <3>2
  <2>2. \/ rawq' = rawq
        \/ rawq' = IF Len(rawq) < QMax THEN Append(rawq, c) ELSE Append(Tail(rawq), c)
    BY DEF Rx, Push
  <2> HIDE DEF c
  <2> QED BY <2>1, <2>2
<1> QED BY <1>2, <1>4, <1>5, <1>6

LEMMA KeepWorld ==
  ASSUME Trapping, TypeInv, LiveInv, TrapParts, KeepParts, Client \/ World, UNCHANGED station
  PROVE  KeepParts'
<1>0. BoardTypeOK /\ ~Autoboot
  BY DEF TypeInv, Trapping
<1>1. CASE mark_dirty
  <2>1. Prompted' <=> Prompted
    BY <1>1, PromptQueues DEF mark_dirty, board
  <2> QED BY <1>1, <2>1 DEF mark_dirty, board, Idle, KeepParts, Wired, Stored, AtPrompt, Restoring,
            Saved, Booting, Rebooting, Unprompted, Trapped, At, Powered
<1>2. CASE release_recovery
  <2>1. Prompted' <=> Prompted
    BY <1>2, PromptQueues DEF release_recovery
  <2> QED BY <1>2, <2>1 DEF release_recovery, fsm, KeepParts, Wired, Stored, AtPrompt, Restoring,
            Saved, Booting, Rebooting, Unprompted, Trapped, At, Powered
<1>3. ASSUME NEW t \in Trigger, NEW m \in Mediums, Fire(t, m) PROVE KeepParts'
  <2>1. Prompted' <=> Prompted
    BY <1>3, PromptQueues DEF Fire, board
  <2>2. todo' # <<>> /\ Head(todo') = "align" /\ todo = <<>>
    BY <1>3 DEF Fire, Idle
  <2>3. UNCHANGED <<nv, ram, phys, serial, state>>
    BY <1>3 DEF Fire, board
  <2> QED BY <2>1, <2>2, <2>3 DEF KeepParts, Wired, Stored, AtPrompt, Restoring,
            Saved, Booting, Rebooting, Unprompted, Trapped, At, Powered
<1>4. CASE BoardRunsBootcmd /\ UNCHANGED fsm
  <2>0. phys = "spl" /\ UNCHANGED <<nv, serial>> /\ serial /\ phys' # "off"
    BY <1>4 DEF BoardRunsBootcmd, Enter, KeepParts, Wired, Powered
  <2>1. CASE Trapped /\ Enter("uboot")
    <3>1. ~At("restore_prev") /\ ~At("restore_save") /\ ~At("reboot")
      BY <2>0, <2>1 DEF KeepParts, Restoring, Booting, Rebooting, At, Userland
    <3> QED BY <1>4, <2>0, <2>1, <3>1 DEF Enter, fsm, KeepParts, Wired, Stored, AtPrompt,
              Restoring, Saved, Booting, Rebooting, Unprompted, Trapped, At
  <2>2. CASE ~Trapped /\ Enter("kernel")
    <3>1. Prompted' => Prompted
      BY <1>0, <2>2, PromptRx DEF Enter
    <3> QED BY <1>4, <2>0, <2>2, <3>1 DEF Enter, fsm, KeepParts, Wired, Stored, AtPrompt,
              Restoring, Saved, Booting, Rebooting, Unprompted, Trapped, At
  <2> QED BY <1>4, <2>1, <2>2 DEF BoardRunsBootcmd, Trapped
<1>5. CASE BoardReachesUserland /\ UNCHANGED fsm
  <2>1. ~Trapped /\ serial
    BY <1>5 DEF BoardReachesUserland, TrapParts, TrapStops, ShellReachable, LiveInv, Userland,
         KeepParts, Wired, Powered
  <2>2. PICK p \in Userland : Enter(p)
    BY <1>5 DEF BoardReachesUserland
  <2>3. p \notin {"uboot", "off", "spl"}
    BY DEF Userland
  <2>4. Prompted' => Prompted
    BY <1>0, <2>2, <2>3, PromptRx DEF Enter
  <2> QED BY <1>5, <2>1, <2>2, <2>3, <2>4 DEF Enter, fsm, KeepParts, Wired, Stored, AtPrompt,
            Restoring, Saved, Booting, Rebooting, Unprompted, Trapped, At
<1>6. CASE BoardHangs /\ UNCHANGED fsm
  <2>1. Enter("hung") /\ serial
    BY <1>6 DEF BoardHangs, KeepParts, Wired, Powered
  <2>2. Prompted' => Prompted
    BY <1>0, <2>1, PromptRx DEF Enter
  <2> QED BY <1>6, <2>1, <2>2 DEF Enter, fsm, KeepParts, Wired, Stored, AtPrompt,
            Restoring, Saved, Booting, Rebooting, Unprompted, Trapped, At
<1>7. CASE BoardDropsSsh /\ UNCHANGED fsm
  <2>1. Prompted' <=> Prompted
    BY <1>7, PromptQueues DEF BoardDropsSsh
  <2> QED BY <1>7, <2>1 DEF BoardDropsSsh, fsm, KeepParts, Wired, Stored, AtPrompt,
            Restoring, Saved, Booting, Rebooting, Unprompted, Trapped, At, Powered
<1>8. CASE TestBoots
  <2>0. todo = <<>> /\ UNCHANGED fsm
    BY <1>8 DEF TestBoots, Idle
  <2>1. CASE phys = "shell" /\ Enter("spl")
    <3>1. ~Trapped /\ serial
      BY <2>0, <2>1 DEF TrapParts, TrapStops, At, Userland, KeepParts, Wired, Powered
    <3>2. Prompted' => Prompted
      BY <1>0, <2>1, PromptRx DEF Enter
    <3> QED BY <2>0, <2>1, <3>1, <3>2 DEF Enter, fsm, KeepParts, Wired, Stored, AtPrompt,
              Restoring, Saved, Booting, Rebooting, Unprompted, Trapped, At
  <2>2. ~(phys = "uboot" /\ ram.bootcmd = "orig" /\ Enter("kernel"))
    BY <2>0 DEF TrapParts, RamIsNv, KeepParts, AtPrompt, Trapped, At
  <2> QED BY <1>8, <2>1, <2>2 DEF TestBoots
<1> QED BY <1>1, <1>2, <1>3, <1>4, <1>5, <1>6, <1>7, <1>8 DEF Client, World, BoardBoots

LEMMA KeepTrigger ==
  ASSUME Trapping, TypeInv, FlowInv, TrapParts, KeepParts, UNCHANGED station,
         Route \/ Commit \/ set_state \/ ProbeStep
  PROVE  KeepParts'
<1>1. CASE Route
  <2>1. op.trig \in Trigger /\ state \in DutState
    BY <1>1 DEF Route, At, TypeInv, FsmInv, FsmTypeOK
  <2>2. PICK c \in Calls : Plan(op.trig, c, Callback) /\ Starts(op.trig, c)
    BY <2>1, CallbackPath
  <2>3. /\ todo' # <<>> /\ Head(todo') = c /\ op' = op
        /\ UNCHANGED <<phys, nv, ram, serial, rawq, state>>
    BY <1>1, <2>2 DEF Route, Instead, Plan, Quiet, board
  <2>4. /\ c \notin {"restore_prev", "restore_save", "trap_set", "reboot"}
        /\ c = "commit" /\ op.trig = "boot_to_bootloader" => state = "BOOTLOADER"
        /\ c = "restore_bootcmd" => state = "BOOTLOADER"
    BY <2>2 DEF Starts, Trapping
  <2>5. Prompted' <=> Prompted
    BY <2>3, PromptQueues
  <2>6. /\ phys = "uboot" => Trapped
        /\ Trapped /\ phys = "spl" => state # "BOOTLOADER" /\ ~Prompted
        /\ ~Trapped => ~Prompted
    BY <1>1 DEF Route, At, KeepParts, AtPrompt, Booting, Unprompted
  <2> QED BY <2>3, <2>4, <2>5, <2>6 DEF KeepParts, Wired, Stored, AtPrompt, Restoring,
            Saved, Booting, Rebooting, Unprompted, Trapped, At, Powered
<1>2. CASE Commit
  <2>1. op.trig \in Trigger
    BY <1>2 DEF Commit, At, TypeInv, FsmInv
  <2>2. Dest[op.trig] = "BOOTLOADER" => op.trig = "boot_to_bootloader"
    BY <2>1, TriggerNames DEF Dest
  <2>3. /\ At("commit") /\ todo' = <<>> /\ state' = Dest[op.trig]
        /\ UNCHANGED <<phys, nv, ram, serial, rawq>>
    BY <1>2 DEF Commit, board
  <2>4. Prompted' <=> Prompted
    BY <2>3, PromptQueues
  <2>5. Trapped /\ phys = "spl" => state' # "BOOTLOADER" /\ ~Prompted
    BY <2>2, <2>3 DEF KeepParts, Booting, At
  <2> QED BY <2>3, <2>4, <2>5 DEF KeepParts, Wired, Stored, AtPrompt, Restoring,
            Saved, Booting, Rebooting, Unprompted, Trapped, At, Powered
<1>3. CASE set_state
  <2>1. /\ state' # "BOOTLOADER" /\ UNCHANGED <<phys, nv, ram, serial, rawq>>
        /\ At("set_energized") \/ At("set_dirty")
    BY <1>3 DEF set_state, board
  <2>2. todo' # <<>> /\ Head(todo') \in {"hot_wait", "power_off"}
    BY <1>3, <2>1, NextCall DEF set_state, Follows, Return
  <2>3. Prompted' <=> Prompted
    BY <2>1, PromptQueues
  <2> QED BY <2>1, <2>2, <2>3 DEF KeepParts, Wired, Stored, AtPrompt, Restoring,
            Saved, Booting, Rebooting, Unprompted, Trapped, At, Powered
<1>4. CASE ProbeStep
  <2>0. BoardTypeOK /\ "rebind" \notin Faults
    BY DEF TypeInv, Trapping, Clean, CleanFaults
  <2>1. /\ At("align") /\ Return /\ UNCHANGED <<phys, nv, ram>>
        /\ serial' = serial \/ serial' = TRUE
        /\ rawq' = rawq \/ rawq' = <<>> \/ (rawq # <<>> /\ rawq' = Tail(rawq))
    BY <1>4, <2>0 DEF ProbeStep, AlignSkipped, ProbePower, ProbeNetwork, ProbePassive,
         ProbeActive, ProbeRaises, Align, board
  <2>2. Prompted' => Prompted
    BY <2>0, <2>1, PromptQueues, PromptTail
  <2>3. todo' # <<>> /\ Head(todo') = "route"
    BY <2>1, NextCall DEF Follows, Return
  <2>4. /\ phys = "uboot" => Trapped
        /\ Trapped /\ phys = "spl" => state # "BOOTLOADER" /\ ~Prompted
        /\ ~Trapped => ~Prompted
    BY <2>1 DEF At, KeepParts, AtPrompt, Booting, Unprompted
  <2>5. Trapped /\ phys = "spl" => state' # "BOOTLOADER"
    <3> SUFFICES ASSUME Trapped, phys = "spl" PROVE state' # "BOOTLOADER"
      OBVIOUS
    <3>1. CASE AlignSkipped \/ ProbePower \/ ProbeNetwork
      BY <2>4, <3>1 DEF AlignSkipped, ProbePower, ProbeNetwork, Align
    <3>2. CASE ProbePassive
      <4>1. rawq # <<>> => Head(rawq) # "uboot"
        <5>1. rawq \in Seq(Chunk)
          BY <2>0 DEF BoardTypeOK
        <5>2. rawq # <<>> => 1 \in DOMAIN rawq /\ Head(rawq) = rawq[1]
          BY <5>1
        <5> QED BY <2>4, <5>2 DEF Prompted
      <4> QED BY <3>2, <4>1 DEF ProbePassive, Align
    <3>3. CASE ProbeActive
      BY <3>3 DEF ProbeActive, ActiveAnswers, Align
    <3> QED BY <1>4, <2>0, <3>1, <3>2, <3>3 DEF ProbeStep, ProbeRaises
  <2>6. Wired'
    <3>1. Powered' <=> Powered
      BY <2>1 DEF Powered
    <3>2. CASE serial' = serial
      BY <3>1, <3>2, Zenon DEF KeepParts, Wired
    <3>3. CASE serial' = TRUE
      BY <3>3, Zenon DEF Wired
    <3> QED BY <2>1, <3>2, <3>3
  <2> QED BY <2>1, <2>2, <2>3, <2>4, <2>5, <2>6 DEF KeepParts, Stored, AtPrompt, Restoring,
            Saved, Booting, Rebooting, Unprompted, Trapped, At
<1> QED BY <1>1, <1>2, <1>3, <1>4

LEMMA KeepPower ==
  ASSUME Trapping, TypeInv, FlowInv, TrapParts, KeepParts, UNCHANGED station,
         do_power_off \/ do_apply_bootstrap \/ do_energize \/ do_hardware_reset
           \/ recovery_pin
  PROVE  KeepParts'
<1>0. /\ BoardTypeOK /\ HasPsu
      /\ "rebind" \notin Faults /\ "psu" \notin Faults /\ "operator" \notin Faults
      /\ "gpio" \notin Faults
  BY DEF TypeInv, Trapping, Clean, CleanFaults
<1>k. ASSUME NEW c, At(c), c \in {"power_off", "strap", "energize", "reset", "pin_on"}
      PROVE  /\ phys = "uboot" => Trapped
             /\ Trapped /\ phys = "spl" => state # "BOOTLOADER"
             /\ ~Trapped => ~Prompted
             /\ c # "power_off" => ~(Trapped /\ phys = "spl" /\ Prompted)
  BY <1>k DEF At, KeepParts, AtPrompt, Booting, Unprompted
<1>1. CASE do_power_off
  <2>1. /\ At("power_off") /\ Return /\ phys' = "off" /\ ram' = nv
        /\ UNCHANGED <<nv, serial, rawq, state>>
    BY <1>0, <1>1 DEF do_power_off, Quiet
  <2>2. todo' # <<>> /\ Head(todo') \in {"strap", "pin_on", "energize", "commit"}
    BY <2>1, NextCall DEF Follows, Return
  <2>3. Prompted' <=> Prompted
    BY <2>1, PromptQueues
  <2> QED BY <1>k, <2>1, <2>2, <2>3 DEF KeepParts, Wired, Stored, AtPrompt, Restoring,
            Saved, Booting, Rebooting, Unprompted, Trapped, At, Powered
<1>2. CASE do_apply_bootstrap
  <2>1. At("strap") /\ UNCHANGED <<phys, nv, ram, serial, rawq, state>>
    BY <1>2 DEF do_apply_bootstrap, SetMedium, Raise
  <2>2. todo' = <<>> \/ (todo' # <<>> /\ Head(todo') = "energize")
    BY <1>2, <2>1, NextCall DEF do_apply_bootstrap, SetMedium, Raise, Return, Follows
  <2>3. Prompted' <=> Prompted
    BY <2>1, PromptQueues
  <2> QED BY <1>k, <2>1, <2>2, <2>3 DEF KeepParts, Wired, Stored, AtPrompt, Restoring,
            Saved, Booting, Rebooting, Unprompted, Trapped, At, Powered
<1>3. CASE do_energize
  <2>1. /\ At("energize") /\ Return /\ serial' = TRUE /\ rawq' = <<>> /\ UNCHANGED <<nv, state>>
        /\ phys' = phys \/ phys' \in {"spl", "rom"}
    BY <1>0, <1>3 DEF do_energize, rebind_serial_port, ApplyPower, WakeUp, Quiet
  <2>2. /\ todo' # <<>>
        /\ Head(todo') \in {"wait_uboot", "wait_os", "pin_off", "set_energized", "set_dirty",
                            "commit"}
        /\ Head(todo') = "commit" => op'.trig # "boot_to_bootloader"
    BY <2>1, NextCall DEF Follows, Return
  <2>3. ~Prompted'
    BY <2>1, PromptQueues
  <2>4. phys' = "uboot" => Trapped
    BY <1>k, <2>1
  <2> QED BY <2>1, <2>2, <2>3, <2>4 DEF KeepParts, Wired, Stored, AtPrompt, Restoring,
            Saved, Booting, Rebooting, Unprompted, Trapped, At
<1>4. CASE do_hardware_reset
  <2>1. At("reset") /\ UNCHANGED <<nv, serial, state>>
    BY <1>4 DEF do_hardware_reset, Enter, board, Quiet, Raise
  <2>2. CASE Return
    <3>1. todo' # <<>> /\ Head(todo') \in {"set_energized", "set_dirty"}
      BY <2>1, <2>2, NextCall DEF Follows, Return
    <3>2. CASE UNCHANGED board
      <4>1. Prompted' <=> Prompted
        BY <3>2, PromptQueues DEF board
      <4> QED BY <1>k, <2>1, <3>1, <3>2, <4>1 DEF board, KeepParts, Wired, Stored, AtPrompt,
                Restoring, Saved, Booting, Rebooting, Unprompted, Trapped, At, Powered
    <3>3. CASE Powered /\ Enter(WakeUp)
      <4>1. phys' \in {"spl", "rom"} /\ serial
        BY <3>3 DEF Enter, WakeUp, KeepParts, Wired
      <4>2. WakeUp # "uboot" /\ rawq' = Rx(WakeUp)
        BY <3>3 DEF WakeUp, Enter
      <4>3. Prompted' => Prompted
        BY <1>0, <4>2, PromptRx
      <4> QED BY <1>k, <2>1, <3>1, <4>1, <4>3 DEF KeepParts, Wired, Stored, AtPrompt,
                Restoring, Saved, Booting, Rebooting, Unprompted, Trapped, At, Powered
    <3>4. UNCHANGED board \/ (Powered /\ Enter(WakeUp))
      BY <1>4 DEF do_hardware_reset
    <3> QED BY <3>2, <3>3, <3>4
  <2>3. CASE Instead(<<"power_off", "energize">> \o Tail(todo)) /\ UNCHANGED board
    <3>1. todo' # <<>> /\ Head(todo') = "power_off"
      BY <2>1, <2>3, ResetPath DEF Instead, Plan
    <3>2. Prompted' <=> Prompted
      BY <2>3, PromptQueues DEF board
    <3> QED BY <1>k, <2>1, <2>3, <3>1, <3>2 DEF board, KeepParts, Wired, Stored, AtPrompt,
              Restoring, Saved, Booting, Rebooting, Unprompted, Trapped, At, Powered
  <2> QED BY <1>0, <1>4, <2>2, <2>3 DEF do_hardware_reset
<1>5. CASE recovery_pin
  <2>1. UNCHANGED <<phys, nv, ram, serial, rawq, state>>
    BY <1>5 DEF recovery_pin, Quiet, Raise
  <2>2. Prompted' <=> Prompted
    BY <2>1, PromptQueues
  <2>3. CASE At("pin_on")
    <3>1. todo' = <<>> \/ (todo' # <<>> /\ Head(todo') = "energize")
      BY <1>5, <2>3, NextCall DEF recovery_pin, Raise, Return, Follows, At
    <3> QED BY <1>k, <2>1, <2>2, <2>3, <3>1 DEF KeepParts, Wired, Stored, AtPrompt, Restoring,
              Saved, Booting, Rebooting, Unprompted, Trapped, At, Powered
  <2>4. CASE At("pin_off")
    <3>1. todo' # <<>> /\ Head(todo') = "commit" /\ op'.trig = "boot_to_recovery"
      BY <1>0, <1>5, <2>4, NextCall DEF recovery_pin, Return, Follows, At
    <3> QED BY <2>1, <2>2, <2>4, <3>1 DEF KeepParts, Wired, Stored, AtPrompt, Restoring,
              Saved, Booting, Rebooting, Unprompted, Trapped, At, Powered
  <2> QED BY <1>5, <2>3, <2>4 DEF recovery_pin
<1> QED BY <1>1, <1>2, <1>3, <1>4, <1>5

LEMMA KeepCommand ==
  ASSUME Trapping, TypeInv, FlowInv, LiveInv, TrapParts, KeepParts, UNCHANGED station,
         \/ trap_save \/ trap_set \/ reboot \/ do_soft_reboot
         \/ restore_bootcmd \/ restore_prev \/ restore_save \/ boot_cmd
  PROVE  KeepParts'
<1>0. /\ BoardTypeOK /\ nv \in UbootEnv /\ ram \in UbootEnv
      /\ "uart" \notin Faults /\ "net" \notin Faults /\ "lostreboot" \notin Faults
  BY DEF TypeInv, BoardTypeOK, Trapping, Clean, CleanFaults
<1>c. "uboot" \in Chunk /\ "text" \in Chunk
  BY DEF Chunk
<1>k. ASSUME NEW c, At(c), c \notin {"boot_cmd", "wait_os", "wait_uboot", "pin_off",
             "set_energized", "set_dirty", "commit", "hot_wait", "power_off"}
      PROVE  /\ phys = "uboot" => Trapped
             /\ Trapped /\ phys = "spl" => state # "BOOTLOADER" /\ ~Prompted
             /\ ~Trapped => ~Prompted
  BY <1>k DEF At, KeepParts, AtPrompt, Booting, Unprompted
\* A call that raises without having done anything.
<1>r. ASSUME NEW c, At(c), c \notin {"boot_cmd", "wait_os", "wait_uboot", "pin_off",
             "set_energized", "set_dirty", "commit", "hot_wait", "power_off"},
             Raise, UNCHANGED <<phys, nv, serial, rawq>>
      PROVE  KeepParts'
  <2>1. Prompted' <=> Prompted
    BY <1>r, PromptQueues
  <2>2. todo' = <<>> /\ UNCHANGED state
    BY <1>r DEF Raise
  <2> QED BY <1>k, <1>r, <2>1, <2>2 DEF KeepParts, Wired, Stored, AtPrompt, Restoring,
            Saved, Booting, Rebooting, Unprompted, Trapped, At, Powered
<1>s. ASSUME ShellReachable, ~At("reboot") PROVE ~Trapped /\ phys \in Userland
  BY <1>s, RunningUntrapped DEF TrapParts, ShellReachable, LiveInv, Userland
<1>u. Userland \cap {"off", "spl", "uboot"} = {}
  BY DEF Userland
<1>1. CASE trap_save
  <2>1. At("trap_save") /\ UNCHANGED <<phys, serial, rawq>>
    BY <1>1 DEF trap_save, FwSetenv
  <2>2. CASE ~ShellReachable
    BY <1>1, <1>r, <2>1, <2>2 DEF trap_save, FwSetenv
  <2>3. CASE ShellReachable
    <3>1. ~Trapped /\ phys \in Userland
      BY <1>s, <2>1, <2>3 DEF At
    <3>2. Return /\ nv' = [nv EXCEPT !.prev = nv.bootcmd] /\ UNCHANGED state
      BY <1>0, <1>1, <2>3 DEF trap_save, FwSetenv, CommandFails, Quiet
    <3>3. nv' = Env("orig", "orig")
      BY <1>0, <3>1, <3>2 DEF Env, UbootEnv, Trapped
    <3>4. todo' # <<>> /\ Head(todo') = "trap_set"
      BY <2>1, <3>2, NextCall DEF Follows, Return
    <3>5. nv'.bootcmd = "orig" /\ ~Prompted'
      BY <1>k, <2>1, <3>1, <3>3, PromptQueues DEF Env
    <3> QED BY <1>u, <2>1, <3>1, <3>2, <3>3, <3>4, <3>5 DEF KeepParts, Wired, Stored, AtPrompt,
              Restoring, Saved, Booting, Rebooting, Unprompted, Trapped, At, Powered
  <2> QED BY <2>2, <2>3
<1>2. CASE trap_set
  <2>1. At("trap_set") /\ UNCHANGED <<phys, serial, rawq>>
    BY <1>2 DEF trap_set, FwSetenv
  <2>2. CASE ~ShellReachable
    BY <1>2, <1>r, <2>1, <2>2 DEF trap_set, FwSetenv
  <2>3. CASE ShellReachable
    <3>1. ~Trapped /\ phys \in Userland
      BY <1>s, <2>1, <2>3 DEF At
    <3>2. Return /\ nv' = [nv EXCEPT !.bootcmd = "trap"] /\ UNCHANGED state
      BY <1>0, <1>2, <2>3 DEF trap_set, FwSetenv, CommandFails, Quiet
    <3>3. nv' = Env("trap", "orig")
      BY <2>1, <3>2 DEF Env, KeepParts, Saved
    <3>4. todo' # <<>> /\ Head(todo') = "reboot"
      BY <2>1, <3>2, NextCall DEF Follows, Return
    <3>5. nv'.bootcmd # "orig" /\ ~Prompted'
      BY <1>k, <2>1, <3>1, <3>3, PromptQueues DEF Env
    <3> QED BY <1>u, <2>1, <3>1, <3>2, <3>3, <3>4, <3>5 DEF KeepParts, Wired, Stored, AtPrompt,
              Restoring, Saved, Booting, Rebooting, Unprompted, Trapped, At, Powered
  <2> QED BY <2>2, <2>3
<1>3. CASE reboot
  <2>1. At("reboot") /\ Return /\ UNCHANGED <<nv, serial, state>>
    BY <1>3 DEF reboot, Quiet
  <2>2. todo' # <<>> /\ Head(todo') = "wait_uboot"
    BY <2>1, NextCall DEF Follows, Return
  <2>3. ~Prompted
    BY <1>k, <2>1 DEF KeepParts, Rebooting
  <2>4. CASE UNCHANGED <<phys, rawq>>
    <3>1. ~Prompted'
      BY <2>3, <2>4, PromptQueues
    <3> QED BY <1>k, <2>1, <2>2, <2>4, <3>1 DEF KeepParts, Wired, Stored, AtPrompt,
              Restoring, Saved, Booting, Rebooting, Unprompted, Trapped, At, Powered
  <2>5. CASE ShellReachable /\ phys' = "spl" /\ rawq' = Rx("spl")
    <3>1. ~Prompted'
      BY <1>0, <2>3, <2>5, PromptRx
    <3>2. serial
      BY <1>u, <2>5 DEF KeepParts, Wired, Powered, ShellReachable, LiveInv
    <3> QED BY <2>1, <2>2, <2>5, <3>1, <3>2 DEF KeepParts, Wired, Stored, AtPrompt,
              Restoring, Saved, Booting, Rebooting, Unprompted, Trapped, At
  <2> QED BY <1>3, <2>4, <2>5 DEF reboot
<1>4. CASE do_soft_reboot
  <2>1. At("soft_reboot") /\ UNCHANGED <<nv, serial>>
    BY <1>4 DEF do_soft_reboot, Enter, board
  <2>2. CASE ~serial
    BY <1>4, <1>r, <2>1, <2>2 DEF do_soft_reboot, board
  <2>3. CASE serial
    <3>1. Return /\ UNCHANGED state
      BY <1>4, <2>3 DEF do_soft_reboot, Quiet
    <3>2. todo' # <<>> /\ Head(todo') = "wait_uboot"
      BY <2>1, <3>1, NextCall DEF Follows, Return
    <3>3. CASE UNCHANGED board
      <4>1. Prompted' <=> Prompted
        BY <3>3, PromptQueues DEF board
      <4> QED BY <1>k, <2>1, <2>3, <3>1, <3>2, <3>3, <4>1 DEF board, KeepParts, Wired, Stored,
                AtPrompt, Restoring, Saved, Booting, Rebooting, Unprompted, Trapped, At, Powered
    <3>4. CASE phys \in Userland /\ Enter("spl")
      <4>1. ~Trapped
        BY <2>1, <3>4, RunningUntrapped DEF TrapParts, At
      <4>2. Prompted' => Prompted
        BY <1>0, <3>4, PromptRx DEF Enter
      <4>3. ~Prompted'
        BY <1>k, <2>1, <4>1, <4>2
      <4> QED BY <2>1, <2>3, <3>1, <3>2, <3>4, <4>1, <4>3 DEF Enter, KeepParts, Wired, Stored,
                AtPrompt, Restoring, Saved, Booting, Rebooting, Unprompted, Trapped, At
    <3> QED BY <1>4, <2>3, <3>3, <3>4 DEF do_soft_reboot
  <2> QED BY <2>2, <2>3
<1>5. CASE restore_bootcmd
  <2>1. At("restore_bootcmd") /\ UNCHANGED <<phys, nv, serial, state>> /\ state = "BOOTLOADER"
    BY <1>5 DEF restore_bootcmd, UbootRun, Quiet, Raise, KeepParts, Restoring
  <2>2. CASE ~serial
    BY <1>5, <1>r, <2>1, <2>2 DEF restore_bootcmd, UbootRun
  <2>3. CASE serial
    <3>1. Return /\ (phys # "uboot" => rawq' = <<>>)
      BY <1>5, <2>3 DEF restore_bootcmd, UbootRun
    <3>2. todo' # <<>> /\ Head(todo') = "restore_prev"
      BY <2>1, <3>1, NextCall DEF Follows, Return
    <3>3. phys # "uboot" => ~Prompted'
      BY <3>1, PromptQueues
    <3>4. phys = "uboot" => Trapped /\ ram' = Env("orig", "orig")
      <4> SUFFICES ASSUME phys = "uboot" PROVE Trapped /\ ram' = Env("orig", "orig")
        OBVIOUS
      <4>1. Trapped /\ ram = nv
        BY <1>k, <2>1 DEF TrapParts, RamIsNv, At
      <4>2. ram = Env("trap", "orig")
        BY <4>1 DEF KeepParts, Stored, Trapped
      <4>3. ram' = [ram EXCEPT !.bootcmd = ram.prev]
        BY <1>0, <1>5, <2>3 DEF restore_bootcmd, UbootRun
      <4> QED BY <4>1, <4>2, <4>3 DEF Env
    <3> QED BY <1>k, <2>1, <2>3, <3>2, <3>3, <3>4 DEF KeepParts, Wired, Stored,
              AtPrompt, Restoring, Saved, Booting, Rebooting, Unprompted, Trapped, At, Powered
  <2> QED BY <2>2, <2>3
<1>6. CASE restore_prev
  <2>1. At("restore_prev") /\ UNCHANGED <<phys, nv, serial, state>> /\ state = "BOOTLOADER"
    BY <1>6 DEF restore_prev, UbootRun, Quiet, Raise, KeepParts, Restoring
  <2>2. CASE ~serial
    BY <1>6, <1>r, <2>1, <2>2 DEF restore_prev, UbootRun
  <2>3. CASE serial
    <3>1. Return /\ (phys # "uboot" => rawq' = <<>>)
      BY <1>6, <2>3 DEF restore_prev, UbootRun
    <3>2. todo' # <<>> /\ Head(todo') = "restore_save"
      BY <2>1, <3>1, NextCall DEF Follows, Return
    <3>3. phys # "uboot" => ~Prompted'
      BY <3>1, PromptQueues
    <3>4. phys = "uboot" => ram' = Env("orig", "none")
      <4> SUFFICES ASSUME phys = "uboot" PROVE ram' = Env("orig", "none")
        OBVIOUS
      <4>1. ram = Env("orig", "orig")
        BY <2>1 DEF KeepParts, Restoring
      <4>2. ram' = [ram EXCEPT !.prev = "none"]
        BY <1>0, <1>6, <2>3 DEF restore_prev, UbootRun
      <4> QED BY <4>1, <4>2 DEF Env
    <3> QED BY <1>k, <2>1, <2>3, <3>2, <3>3, <3>4 DEF KeepParts, Wired, Stored,
              AtPrompt, Restoring, Saved, Booting, Rebooting, Unprompted, Trapped, At, Powered
  <2> QED BY <2>2, <2>3
<1>7. CASE restore_save
  <2>1. At("restore_save") /\ UNCHANGED <<phys, ram, serial, state>> /\ state = "BOOTLOADER"
    BY <1>7 DEF restore_save, Quiet, Raise, KeepParts, Restoring
  <2>2. CASE ~serial
    BY <1>7, <1>r, <2>1, <2>2 DEF restore_save
  <2>3. CASE serial
    <3>1. Return
      BY <1>7, <2>3 DEF restore_save
    <3>2. todo' # <<>> /\ Head(todo') = "boot_cmd"
      BY <2>1, <3>1, NextCall DEF Follows, Return
    <3>3. CASE phys = "uboot"
      <4>1. nv' = Env("orig", "none")
        BY <1>0, <1>7, <2>1, <2>3, <3>3 DEF restore_save, KeepParts, Restoring
      <4>2. nv'.bootcmd = "orig"
        BY <4>1 DEF Env
      <4> QED BY <2>1, <2>3, <3>2, <3>3, <4>2 DEF KeepParts, Wired, Stored,
                AtPrompt, Restoring, Saved, Booting, Rebooting, Unprompted, Trapped, At, Powered
    <3>4. CASE phys # "uboot"
      <4>1. UNCHANGED nv /\ rawq' = <<>>
        BY <1>7, <2>3, <3>4 DEF restore_save
      <4>2. ~Prompted'
        BY <4>1, PromptQueues
      <4> QED BY <1>k, <2>1, <2>3, <3>2, <3>4, <4>1, <4>2 DEF KeepParts, Wired, Stored,
                AtPrompt, Restoring, Saved, Booting, Rebooting, Unprompted, Trapped, At, Powered
    <3> QED BY <3>3, <3>4
  <2> QED BY <2>2, <2>3
<1>8. CASE boot_cmd
  <2>1. At("boot_cmd") /\ Return /\ UNCHANGED <<nv, serial, state>> /\ ram = nv
    BY <1>8 DEF boot_cmd, Quiet, TrapParts, RamIsNv, At
  <2>2. todo' # <<>> /\ Head(todo') = "wait_os"
    BY <2>1, NextCall DEF Follows, Return
  <2>3. rawq' = <<>> \/ rawq' = <<"text">>
    BY <1>8 DEF boot_cmd
  <2>4. ~Prompted'
    BY <1>c, <2>3, PromptQueues
  <2>5. \/ phys = "uboot" /\ ~Trapped /\ phys' = "kernel"
        \/ phys' = phys /\ (phys = "uboot" => Trapped)
    BY <1>8, <2>1 DEF boot_cmd, BootCmd, Trapped
  <2> QED BY <2>1, <2>2, <2>4, <2>5 DEF KeepParts, Wired, Stored,
            AtPrompt, Restoring, Saved, Booting, Rebooting, Unprompted, Trapped, At, Powered
<1> QED BY <1>1, <1>2, <1>3, <1>4, <1>5, <1>6, <1>7, <1>8

LEMMA KeepWait ==
  ASSUME Trapping, TypeInv, FlowInv, LiveInv, TrapParts, KeepParts, UNCHANGED station,
         WaitStep \/ finalize_os_boot \/ ResumeAlive \/ ResumeDead
  PROVE  KeepParts'
<1>0. /\ BoardTypeOK /\ ~Autoboot
      /\ "uart" \notin Faults /\ "net" \notin Faults /\ "slow" \notin Faults
  BY DEF TypeInv, Trapping, Clean, CleanFaults
<1>u. Userland \cap {"off", "spl", "uboot"} = {}
  BY DEF Userland
<1>k. ASSUME NEW c, At(c), c \in {"wait_uboot", "wait_os", "hot_wait", "finalize", "resume"}
      PROVE  /\ phys = "uboot" => Trapped
             /\ Trapped /\ phys = "spl" /\ c # "hot_wait" => ~Prompted
             /\ Trapped /\ phys = "spl" /\ c \notin {"wait_os", "wait_uboot"}
                  => state # "BOOTLOADER"
             /\ ~Trapped => ~Prompted
             /\ phys = "spl" => serial
             /\ ~At("reboot")
  BY <1>k DEF At, KeepParts, AtPrompt, Booting, Unprompted, Wired, Powered
\* A wait that ends without the board moving, which is not at its start.
<1>w. ASSUME NEW c, At(c), c \in {"wait_uboot", "wait_os", "hot_wait"},
             UNCHANGED <<phys, nv, serial, state>>, phys # "spl", Prompted' => Prompted,
             todo' = <<>> \/ (todo' # <<>> /\ Head(todo') \in {"reset", "finalize"})
      PROVE  KeepParts'
  BY <1>k, <1>w DEF KeepParts, Wired, Stored, AtPrompt, Restoring, Saved, Booting, Rebooting,
       Unprompted, Trapped, At, Powered
<1>1. CASE SnipeAutoboot
  BY <1>0, <1>1 DEF SnipeAutoboot
<1>2. CASE wait_uboot
  <2>1. At("wait_uboot") /\ UNCHANGED <<phys, nv, serial, state>>
    BY <1>2 DEF wait_uboot, Quiet, Raise
  <2>2. CASE phys = "uboot" /\ Return
    <3>1. todo' # <<>> /\ Head(todo') \in {"boot_cmd", "commit"}
      BY <2>1, <2>2, NextCall DEF Follows, Return
    <3> QED BY <1>k, <2>1, <2>2, <3>1 DEF KeepParts, Wired, Stored, AtPrompt, Restoring, Saved,
              Booting, Rebooting, Unprompted, Trapped, At, Powered
  <2>3. CASE phys # "spl" /\ rawq' = <<>> /\ Raise
    BY <1>w, <2>1, <2>3, PromptQueues DEF Raise
  <2>4. phys = "spl" => ~(TimesOut({"spl", "uboot"}) \/ ~serial)
    BY <1>0, <1>k, <2>1 DEF TimesOut
  <2> QED BY <1>2, <2>2, <2>3, <2>4 DEF wait_uboot
<1>3. CASE LogIn
  <2>1. PICK c \in {"wait_os", "hot_wait"} : At(c)
    BY <1>3 DEF LogIn
  <2>2. phys = "login" /\ Enter("shell") /\ UNCHANGED fsm
    BY <1>3 DEF LogIn
  <2>3. ~Trapped
    BY <1>k, <2>1, <2>2, RunningUntrapped DEF TrapParts, Userland
  <2>4. ~Prompted'
    BY <1>0, <1>k, <2>1, <2>2, <2>3, PromptRx DEF Enter
  <2>5. serial
    BY <2>2 DEF KeepParts, Wired, Powered
  <2> QED BY <2>1, <2>2, <2>3, <2>4, <2>5 DEF Enter, fsm, KeepParts, Wired, Stored, AtPrompt,
            Restoring, Saved, Booting, Rebooting, Unprompted, Trapped, At
<1>4. CASE InjectBoot
  <2>1. PICK c \in {"wait_os", "hot_wait"} : At(c)
    BY <1>4 DEF InjectBoot
  <2>2. phys = "uboot" /\ ram.bootcmd = "orig" /\ ram = nv
    BY <1>4, <2>1 DEF InjectBoot, TrapParts, RamIsNv, At
  <2> QED BY <1>k, <2>1, <2>2 DEF Trapped
<1>5. CASE ShellSeen
  <2>1. PICK c \in {"wait_os", "hot_wait"} : At(c)
    BY <1>5 DEF ShellSeen
  <2>2. phys = "shell" /\ Return /\ UNCHANGED <<phys, nv, serial, rawq, state>>
    BY <1>5 DEF ShellSeen, Quiet, board
  <2>3. todo' # <<>> /\ Head(todo') = "finalize"
    BY <2>1, <2>2, NextCall DEF Follows, Return
  <2> QED BY <1>w, <2>1, <2>2, <2>3, PromptQueues
<1>6. CASE KernelPanic
  <2>1. PICK c \in {"wait_os", "hot_wait"} : At(c)
    BY <1>6 DEF KernelPanic
  <2>2. phys = "hung" /\ todo' = <<>> /\ UNCHANGED <<phys, nv, serial, rawq, state>>
    BY <1>6 DEF KernelPanic, Raise, board
  <2> QED BY <1>w, <2>1, <2>2, PromptQueues
<1>7. CASE WaitTimesOut
  <2>1. PICK c \in {"wait_os", "hot_wait"} : At(c)
    BY <1>7 DEF WaitTimesOut
  <2>2. UNCHANGED <<phys, nv, serial, rawq, state>>
    BY <1>7 DEF WaitTimesOut, Raise, Quiet, board
  <2>3. phys # "spl"
    BY <1>0, <1>7, <1>k, <2>1 DEF WaitTimesOut, TimesOut, OsProgressing
  <2>4. todo' = <<>> \/ (todo' # <<>> /\ Head(todo') = "reset")
    BY <1>7, OsPlans DEF WaitTimesOut, Raise, Instead, Plan
  <2> QED BY <1>w, <2>1, <2>2, <2>3, <2>4, PromptQueues
<1>8. CASE finalize_os_boot
  <2>1. At("finalize") /\ UNCHANGED <<phys, nv, serial, state>>
    BY <1>8 DEF finalize_os_boot, Quiet, Raise
  <2>2. Prompted' => Prompted
    <3>1. CASE rawq' = rawq
      BY <3>1, PromptQueues
    <3>2. CASE SshAnswers /\ rawq' = <<Prints(phys)>>
      <4>1. Prints(phys) \in Chunk /\ Prints(phys) # "uboot"
        BY <1>u, <3>2 DEF SshAnswers, Prints, Chunk
      <4> QED BY <3>2, <4>1, PromptQueues
    <3> QED BY <1>8, <3>1, <3>2 DEF finalize_os_boot
  <2>3. \/ todo' = <<>>
        \/ todo' # <<>> /\ Head(todo') = "trap_save"
        \/ todo' # <<>> /\ Head(todo') = "commit" /\ op'.trig = "boot_to_os"
    BY <1>8, <2>1, NextCall DEF finalize_os_boot, Raise, Return, Follows
  <2> QED BY <1>k, <2>1, <2>2, <2>3 DEF KeepParts, Wired, Stored, AtPrompt, Restoring, Saved,
            Booting, Rebooting, Unprompted, Trapped, At, Powered
<1>9. CASE ResumeAlive
  <2>1. At("resume") /\ UNCHANGED <<phys, nv, serial, state>>
    BY <1>9 DEF ResumeAlive, Quiet
  <2>2. Prompted' => Prompted \/ phys = "uboot"
    <3>1. CASE rawq' = rawq
      BY <3>1, PromptQueues
    <3>2. CASE rawq' = <<Prints(phys)>>
      <4>1. Prints(phys) \in Chunk /\ (Prints(phys) = "uboot" => phys = "uboot")
        BY DEF Prints, Chunk
      <4> QED BY <3>2, <4>1, PromptQueues
    <3> QED BY <1>9, <3>1, <3>2 DEF ResumeAlive
  <2>3. todo' # <<>> /\ Head(todo') = "finalize"
    BY <1>9, OtherPlans DEF ResumeAlive, Instead, Plan
  <2> QED BY <1>k, <2>1, <2>2, <2>3 DEF KeepParts, Wired, Stored, AtPrompt, Restoring, Saved,
            Booting, Rebooting, Unprompted, Trapped, At, Powered
<1>10. CASE ResumeDead
  <2>1. At("resume") /\ UNCHANGED <<phys, nv, serial, state>> /\ rawq' = <<>>
    BY <1>10 DEF ResumeDead, Quiet
  <2>2. todo' # <<>> /\ Head(todo') = "reset"
    BY <1>10, OtherPlans DEF ResumeDead, Instead, Plan
  <2>3. ~Prompted'
    BY <2>1, PromptQueues
  <2> QED BY <1>k, <2>1, <2>2, <2>3 DEF KeepParts, Wired, Stored, AtPrompt, Restoring, Saved,
            Booting, Rebooting, Unprompted, Trapped, At, Powered
<1> QED BY <1>1, <1>2, <1>3, <1>4, <1>5, <1>6, <1>7, <1>8, <1>9, <1>10 DEF WaitStep

LEMMA KeepInductive ==
  TypeInv /\ FlowInv /\ LiveInv /\ TrapInv /\ KeepInv /\ [Next]_vars => KeepInv'
<1> SUFFICES ASSUME TypeInv, FlowInv, LiveInv, TrapInv, KeepInv, [Next]_vars, Trapping'
             PROVE  KeepParts'
  BY DEF KeepInv
<1>0. UNCHANGED station
  BY DEF Next, vars
<1>1. Trapping /\ KeepParts
  BY <1>0 DEF Trapping, Clean, HasPsu, Autoboot, Faults, KeepInv
<1>2. TrapParts
  BY <1>1 DEF Trapping, TrapInv
<1>3. CASE UNCHANGED vars
  <2>1. Prompted' <=> Prompted
    BY <1>3, PromptQueues DEF vars, board
  <2> QED BY <1>1, <1>3, <2>1 DEF vars, board, fsm, KeepParts, Wired, Stored, AtPrompt, Restoring,
            Saved, Booting, Rebooting, Unprompted, Trapped, At, Powered
<1>4. CASE Next
  BY <1>0, <1>1, <1>2, <1>4, KeepWorld, KeepTrigger, KeepPower, KeepCommand, KeepWait
  DEF Next, CallStep
<1> QED BY <1>3, <1>4

\* Only the calls of TrapRebootStrategy write the stored environment.
LEMMA OnlyTrapCallsWrite ==
  ASSUME Next, nv' # nv
  PROVE  At("trap_save") \/ At("trap_set") \/ At("restore_save")
<1>1. ~Client
  BY DEF Client, Fire, mark_dirty, release_recovery, board
<1>2. ~World
  BY DEF World, BoardBoots, BoardRunsBootcmd, BoardReachesUserland, BoardHangs, BoardDropsSsh,
       TestBoots, Enter
<1>3. ~(Route \/ Commit \/ set_state \/ ProbeStep)
  BY DEF Route, Commit, set_state, ProbeStep, AlignSkipped, ProbePower, ProbeNetwork,
       ProbePassive, ProbeActive, ProbeRaises, board
<1>4. ~(do_power_off \/ do_apply_bootstrap \/ do_energize \/ do_hardware_reset \/ recovery_pin)
  BY DEF do_power_off, do_apply_bootstrap, do_energize, do_hardware_reset, recovery_pin, Enter,
       board
<1>5. ~(reboot \/ do_soft_reboot \/ restore_bootcmd \/ restore_prev \/ boot_cmd)
  BY DEF reboot, do_soft_reboot, restore_bootcmd, restore_prev, UbootRun, boot_cmd, Enter, board
<1>6. ~(WaitStep \/ finalize_os_boot \/ ResumeAlive \/ ResumeDead)
  BY DEF WaitStep, SnipeAutoboot, wait_uboot, LogIn, InjectBoot, ShellSeen, KernelPanic,
       WaitTimesOut, finalize_os_boot, ResumeAlive, ResumeDead, Enter, board
<1> QED BY <1>1, <1>2, <1>3, <1>4, <1>5, <1>6
        DEF Next, CallStep, trap_save, trap_set, FwSetenv, restore_save

LEMMA AutoInductive == TypeInv /\ FlowInv /\ AutoInv /\ [Next]_vars => AutoInv'
<1> SUFFICES ASSUME TypeInv, FlowInv, AutoInv, [Next]_vars PROVE AutoInv'
  OBVIOUS
<1>0. Autoboot' <=> Autoboot
  BY DEF Next, vars, Autoboot
<1>1. CASE nv' = nv
  BY <1>0, <1>1 DEF AutoInv, Trapped
<1>2. CASE Next /\ nv' # nv
  <2>1. At("trap_save") \/ At("trap_set") \/ At("restore_save")
    BY <1>2, OnlyTrapCallsWrite
  <2>2. todo \in Seq(Calls) /\ todo # <<>> /\ todo[1] \in TrapCalls
    BY <2>1 DEF At, TypeInv, FsmInv, FsmTypeOK, TrapCalls
  <2>3. 1 \in 1 .. Len(todo)
    BY <2>2, LenProperties, EmptySeq
  <2>4. ~Autoboot
    BY <2>2, <2>3 DEF FlowInv, Path
  <2> QED BY <1>0, <2>4 DEF AutoInv
<1> QED BY <1>1, <1>2 DEF vars, board

\* The bootcmd a board came with is in bootcmd or in mes_prev_bootcmd at every
\* moment: no order of triggers, board steps, old console output, hangs and
\* resets by a test makes _set_uboot_trap_and_reboot save the trap over it, or
\* _restore_uboot_trap store an environment in which it is in neither.  For
\* every station with a supply on which no command is left in doubt.
THEOREM BootcmdIsKept == Spec => []OriginalBootcmdKept
<1>1. Init => KeepInv /\ AutoInv
  <2>1. Init => ~Prompted
    BY DEF Init, BoardInit, Prompted
  <2>2. Init => AutoInv
    BY DEF Init, BoardInit, AutoInv, Trapped
  <2>3. Init => KeepInv
    BY <2>1 DEF Init, BoardInit, KeepInv, Trapping, KeepParts, Wired, Stored, AtPrompt, Restoring,
         Saved, Booting, Rebooting, Unprompted, Trapped, At, Powered
  <2> QED BY <2>2, <2>3
<1>2. KeepInv /\ AutoInv => OriginalBootcmdKept
  BY DEF KeepInv, AutoInv, Trapping, KeepParts, Stored, Env, Trapped, OriginalBootcmdKept
<1> QED BY <1>1, <1>2, KeepInductive, AutoInductive, TypeInitially, TypeInductive, FlowInitially,
           FlowInductive, TrapInitially, LiveInductive, TrapInductive, PTL
        DEF Spec
-----------------------------------------------------------------------------
(* What boot_to_os reports                                                  *)

\* While a callback runs, the board has been seen where it is.
HistInv == todo # <<>> => phys \in visited

LEMMA HistInductive == HistInv /\ [HistNext]_histvars => HistInv'
<1> SUFFICES ASSUME HistInv, [HistNext]_histvars PROVE HistInv'
  OBVIOUS
<1>1. CASE UNCHANGED histvars
  BY <1>1 DEF histvars, vars, board, fsm, HistInv
<1>2. CASE HistNext
  BY <1>2 DEF HistNext, Remember, Idle, HistInv
<1> QED BY <1>1, <1>2

\* OsCommitBacked is not inductive: a heartbeat is also echoed by a board at its
\* U-Boot prompt, and a session that is open, if only to an earlier boot, is then
\* taken for the proof of a running OS.  So no session may be open to a board
\* that is at that prompt, or on its way there, when a trigger starts.
OffUnseen == phys = "off" => ssh = "no"
Routed == (At("route") => state # "DIRTY") /\ (At("resume") => state = "OS_USERLAND")
\* Where the countdown can be stopped there is no session while it is waited for.
ColdUnseen == At("strap") \/ At("energize") \/ At("pin_on") \/ At("wait_uboot") => ssh = "no"
OffClosed == state = "POWER_OFF" => ssh = "no" \/ (At("commit") /\ op.trig = "boot_to_os")
CutClosed == At("commit") /\ op.trig = "power_off" => ssh = "no"
Snipes == Autoboot /\ "garbled" \notin Faults
Closed == Snipes => ColdUnseen /\ OffClosed /\ CutClosed
ShutInv == OffUnseen /\ RebootUnseen /\ Routed /\ Closed

LEMMA TrapHead ==
  ASSUME NEW t, NEW p \in Seq(Calls), Path(t, p), p # <<>>, Head(p) \in TrapCalls
  PROVE  ~Autoboot
<1>1. 1 \in 1 .. Len(p) /\ p[1] \in TrapCalls
  BY LenProperties, EmptySeq
<1> QED BY <1>1 DEF Path

LEMMA ShutInductive == TypeInv /\ FlowInv /\ ShutInv /\ [Next]_vars => ShutInv'
<1> SUFFICES ASSUME TypeInv, FlowInv, ShutInv, [Next]_vars PROVE ShutInv'
  OBVIOUS
<1>0. (Snipes' <=> Snipes) /\ (HasPsu' <=> HasPsu)
  BY DEF Next, vars, Snipes, Autoboot, Faults, HasPsu
\* The board moves and the callback does not.
<1>f. ASSUME UNCHANGED fsm, ssh = "no" => ssh' = "no", phys' = "off" => ssh' = "no"
      PROVE  ShutInv'
  BY <1>0, <1>f DEF fsm, ShutInv, OffUnseen, RebootUnseen, Routed, Closed, ColdUnseen, OffClosed,
       CutClosed, At
<1>e. ASSUME NEW p, Enter(p), p # "off"
      PROVE  (ssh = "no" => ssh' = "no") /\ (phys' = "off" => ssh' = "no")
  BY <1>e DEF Enter, SshAcross
\* The trigger ends in an exception.
<1>b. ASSUME NEW c, At(c), c # "commit", todo' = <<>>, state' = state,
             ssh = "no" => ssh' = "no", phys' = "off" => ssh' = "no"
      PROVE  ShutInv'
  BY <1>0, <1>b DEF ShutInv, OffUnseen, RebootUnseen, Routed, Closed, ColdUnseen, OffClosed,
       CutClosed, At
\* The rest of the callback is decided.
<1>h. ASSUME NEW c, todo' # <<>>, Head(todo') = c, ~At("commit"),
             c \in {"align", "reset", "power_off", "hot_wait", "finalize"},
             state' = state \/ state' \in {"ENERGIZED", "DIRTY"},
             ssh = "no" => ssh' = "no", phys' = "off" => ssh' = "no",
             state' = "POWER_OFF" => ssh' = ssh
      PROVE  ShutInv'
  BY <1>0, <1>h DEF ShutInv, OffUnseen, RebootUnseen, Routed, Closed, ColdUnseen, OffClosed,
       CutClosed, At
\* A call returns.
<1>a. ASSUME NEW c, At(c), Return, c \notin {"commit", "route", "align", "finalize", "resume"},
             state' = state, ssh = "no" => ssh' = "no", phys' = "off" => ssh' = "no",
             c \in {"power_off", "reboot"} => ssh' = "no"
      PROVE  ShutInv'
  <2> DEFINE n == Head(Tail(todo))
  <2>1. Tail(todo) # <<>> /\ Follows(op.trig, c, n) /\ c \in Calls
    BY <1>a, NextCall, HeadTailProperties DEF At, TypeInv, FsmInv, FsmTypeOK
  <2>2. /\ n \notin {"route", "resume", "soft_reboot"}
        /\ n = "commit" /\ op.trig = "power_off" => c = "power_off"
        /\ n \in {"strap", "energize", "pin_on", "wait_uboot"}
             => c \in {"power_off", "strap", "pin_on", "energize", "reboot", "soft_reboot"}
    BY <1>a, <2>1 DEF Follows, Calls
  <2>3. todo' # <<>> /\ Head(todo') = n /\ op' = op
    BY <1>a, <2>1 DEF Return
  <2>4. c \in {"strap", "pin_on", "energize"} /\ Snipes => ssh = "no"
    BY <1>a DEF ShutInv, Closed, ColdUnseen
  <2>5. c = "soft_reboot" => ssh = "no"
    BY <1>a DEF ShutInv, RebootUnseen
  <2>6. Snipes /\ state = "POWER_OFF" => ssh = "no"
    BY <1>a DEF ShutInv, Closed, OffClosed, At
  <2> HIDE DEF n
  <2> QED BY <1>0, <1>a, <2>2, <2>3, <2>4, <2>5, <2>6 DEF ShutInv, OffUnseen, RebootUnseen, Routed,
            Closed, ColdUnseen, OffClosed, CutClosed, At
<1>o. phys = "off" => ssh = "no"
  BY DEF ShutInv, OffUnseen
<1>1. CASE UNCHANGED vars
  BY <1>1, <1>f, <1>o DEF vars, board
<1>2. CASE Client
  <2>1. CASE mark_dirty
    <3>1. todo' = <<>> /\ state' = "DIRTY" /\ UNCHANGED <<phys, ssh>>
      BY <2>1 DEF mark_dirty, board, Idle
    <3> QED BY <1>o, <3>1 DEF ShutInv, OffUnseen, RebootUnseen, Routed, Closed, ColdUnseen,
              OffClosed, CutClosed, At
  <2>2. CASE release_recovery
    BY <2>2, <1>f, <1>o DEF release_recovery
  <2>3. ASSUME NEW t \in Trigger, NEW m \in Mediums, Fire(t, m) PROVE ShutInv'
    <3>1. /\ todo' # <<>> /\ Head(todo') = "align" /\ ~At("commit")
          /\ UNCHANGED <<phys, ssh, state>>
      BY <2>3 DEF Fire, Idle, At, board
    <3> QED BY <1>h, <1>o, <3>1
  <2> QED BY <1>2, <2>1, <2>2, <2>3 DEF Client
<1>3. CASE World
  <2>1. CASE BoardDropsSsh /\ UNCHANGED fsm
    BY <2>1, <1>f DEF BoardDropsSsh
  <2>2. ASSUME NEW p, Enter(p), p # "off", UNCHANGED fsm PROVE ShutInv'
    BY <2>2, <1>e, <1>f
  <2>3. "off" \notin Userland
    BY DEF Userland
  <2> QED BY <1>3, <2>1, <2>2, <2>3 DEF World, BoardBoots, BoardRunsBootcmd,
            BoardReachesUserland, BoardHangs, TestBoots
<1>4. CASE Route
  <2>1. op.trig \in Trigger /\ state \in DutState
    BY <1>4 DEF Route, At, TypeInv, FsmInv, FsmTypeOK
  <2>2. PICK c \in Calls : Plan(op.trig, c, Callback) /\ Starts(op.trig, c)
    BY <2>1, CallbackPath
  <2>3. /\ todo' # <<>> /\ Head(todo') = c /\ op' = op /\ UNCHANGED <<phys, ssh, state>>
        /\ At("route")
    BY <1>4, <2>2 DEF Route, Instead, Plan, Quiet, board
  <2>4. /\ state # "DIRTY"
        /\ Snipes /\ state = "POWER_OFF" => ssh = "no"
        /\ ~HasPsu /\ state = "ENERGIZED" => ssh = "no"
    BY <2>3 DEF ShutInv, Routed, Closed, OffClosed, RebootUnseen, At
  <2>5. /\ c \notin {"route", "wait_uboot"}
        /\ c \in {"strap", "energize", "pin_on"} => state = "POWER_OFF"
        /\ c = "commit" /\ op.trig = "power_off" => state = "POWER_OFF"
        /\ c = "resume" => state = "OS_USERLAND"
        /\ c = "soft_reboot" => ~HasPsu /\ state = "ENERGIZED"
    BY <2>2, <2>4 DEF Starts
  <2> QED BY <1>0, <1>o, <2>3, <2>4, <2>5 DEF ShutInv, OffUnseen, RebootUnseen, Routed, Closed,
            ColdUnseen, OffClosed, CutClosed, At
<1>5. CASE Commit
  <2>1. op.trig \in Trigger
    BY <1>5 DEF Commit, At, TypeInv, FsmInv
  <2>2. Dest[op.trig] = "POWER_OFF" => op.trig = "power_off"
    BY <2>1, TriggerNames DEF Dest
  <2>3. At("commit") /\ todo' = <<>> /\ state' = Dest[op.trig] /\ UNCHANGED <<phys, ssh>>
    BY <1>5 DEF Commit, board
  <2> QED BY <1>0, <1>o, <2>2, <2>3 DEF ShutInv, OffUnseen, RebootUnseen, Routed, Closed,
            ColdUnseen, OffClosed, CutClosed, At
<1>6. CASE set_state
  <2>1. /\ state' \in {"ENERGIZED", "DIRTY"} /\ UNCHANGED <<phys, ssh>>
        /\ At("set_energized") \/ At("set_dirty")
    BY <1>6 DEF set_state, board
  <2>2. todo' # <<>> /\ Head(todo') \in {"hot_wait", "power_off"} /\ ~At("commit")
    BY <1>6, <2>1, NextCall DEF set_state, Follows, Return, At
  <2> QED BY <1>h, <1>o, <2>1, <2>2
<1>7. CASE ProbeStep
  <2>1. At("align") /\ UNCHANGED <<phys, ssh>>
    BY <1>7 DEF ProbeStep, AlignSkipped, ProbePower, ProbeNetwork, ProbePassive,
         ProbeActive, ProbeRaises, board
  <2>2. CASE ProbeRaises
    BY <1>b, <1>o, <2>1, <2>2 DEF ProbeRaises, Raise
  <2>3. CASE ~ProbeRaises
    <3>1. Return
      BY <1>7, <2>3 DEF ProbeStep, AlignSkipped, ProbePower, ProbeNetwork, ProbePassive,
           ProbeActive, Align
    <3>2. todo' # <<>> /\ Head(todo') = "route"
      BY <2>1, <3>1, NextCall DEF Follows, Return
    <3>3. Snipes /\ state = "POWER_OFF" => ssh = "no"
      BY <2>1 DEF ShutInv, Closed, OffClosed, At
    <3>4. state' # "DIRTY" /\ (~HasPsu /\ state' = "ENERGIZED" => ssh = "no")
          /\ (Snipes /\ state' = "POWER_OFF" => ssh = "no")
      <4>1. CASE AlignSkipped
        BY <3>3, <4>1 DEF AlignSkipped, SkipProbe, Align
      <4>2. CASE ProbePower
        BY <1>o, <4>2 DEF ProbePower, Powered, Align, Snipes
      <4>3. CASE ProbeNetwork
        BY <4>3 DEF ProbeNetwork, Align
      <4>4. CASE ProbePassive
        BY <4>4 DEF ProbePassive, NetworkInconclusive, Align
      <4>5. CASE ProbeActive
        BY <4>5 DEF ProbeActive, NetworkInconclusive, ActiveAnswers, Align
      <4> QED BY <1>7, <2>3, <4>1, <4>2, <4>3, <4>4, <4>5 DEF ProbeStep
    <3> QED BY <1>0, <1>o, <2>1, <3>2, <3>4 DEF ShutInv, OffUnseen, RebootUnseen, Routed, Closed,
              ColdUnseen, OffClosed, CutClosed, At
  <2> QED BY <2>2, <2>3
<1>8. CASE do_power_off
  BY <1>8, <1>a, <1>b DEF do_power_off, CloseSsh, Quiet, Raise
<1>9. CASE do_apply_bootstrap \/ recovery_pin
  BY <1>9, <1>a, <1>b, <1>o DEF do_apply_bootstrap, SetMedium, recovery_pin, Quiet, Raise
<1>10. CASE do_energize
  <2>1. At("energize") /\ UNCHANGED <<ssh, state>> /\ (phys' = "off" => ssh' = "no")
    BY <1>10, <1>o DEF do_energize, ApplyPower, WakeUp, Powered, rebind_serial_port, Quiet, Raise
  <2> QED BY <1>10, <1>a, <1>b, <2>1 DEF do_energize, rebind_serial_port, Raise
<1>11. CASE do_hardware_reset
  <2>1. At("reset") /\ UNCHANGED state
    BY <1>11 DEF do_hardware_reset, Quiet, Raise
  <2>2. CASE Return \/ Raise
    <3>1. UNCHANGED board \/ Enter(WakeUp)
      BY <1>11, <2>2 DEF do_hardware_reset
    <3>2. WakeUp # "off"
      BY DEF WakeUp
    <3>3. (ssh = "no" => ssh' = "no") /\ (phys' = "off" => ssh' = "no")
      BY <1>e, <1>o, <3>1, <3>2 DEF board
    <3> QED BY <1>a, <1>b, <2>1, <2>2, <3>3 DEF Raise
  <2>3. CASE Instead(<<"power_off", "energize">> \o Tail(todo)) /\ UNCHANGED board
    <3>1. todo' # <<>> /\ Head(todo') = "power_off" /\ ~At("commit")
      BY <2>1, <2>3, ResetPath DEF Instead, Plan, At
    <3> QED BY <1>h, <1>o, <2>1, <2>3, <3>1 DEF board
  <2> QED BY <1>11, <2>2, <2>3 DEF do_hardware_reset
<1>12. CASE \/ trap_save \/ trap_set \/ restore_bootcmd \/ restore_prev \/ restore_save
            \/ wait_uboot \/ ShellSeen \/ KernelPanic
  BY <1>12, <1>a, <1>b, <1>o DEF trap_save, trap_set, FwSetenv, restore_bootcmd, restore_prev,
       UbootRun, restore_save, wait_uboot, ShellSeen, KernelPanic, Quiet, Raise, board
<1>13. CASE reboot
  BY <1>13, <1>a DEF reboot, CloseSsh, Quiet
<1>14. CASE do_soft_reboot
  <2>1. At("soft_reboot") /\ UNCHANGED state /\ (Return \/ Raise)
    BY <1>14 DEF do_soft_reboot, Quiet, Raise
  <2>2. UNCHANGED board \/ Enter("spl")
    BY <1>14 DEF do_soft_reboot
  <2>3. (ssh = "no" => ssh' = "no") /\ (phys' = "off" => ssh' = "no")
    BY <1>e, <1>o, <2>2 DEF board
  <2> QED BY <1>a, <1>b, <2>1, <2>3 DEF Raise
<1>15. CASE boot_cmd
  <2>1. At("boot_cmd") /\ Return /\ UNCHANGED <<ssh, state>> /\ (phys' = "off" => ssh' = "no")
    BY <1>15, <1>o DEF boot_cmd, BootCmd, Quiet
  <2> QED BY <1>a, <2>1
<1>16. CASE SnipeAutoboot \/ LogIn \/ InjectBoot
  BY <1>16, <1>e, <1>f DEF SnipeAutoboot, LogIn, InjectBoot
<1>17. CASE WaitTimesOut
  <2>1. UNCHANGED <<phys, ssh, state>>
    BY <1>17 DEF WaitTimesOut, Raise, Quiet, board
  <2>2. CASE At("wait_os") /\ Raise
    BY <1>b, <1>o, <2>1, <2>2 DEF Raise
  <2>3. CASE At("hot_wait") /\ ~Raise
    <3>1. todo' # <<>> /\ Head(todo') = "reset" /\ ~At("commit")
      BY <1>17, <2>3, OsPlans DEF WaitTimesOut, Instead, Plan, At
    <3> QED BY <1>h, <1>o, <2>1, <3>1
  <2>4. CASE At("hot_wait") /\ Raise
    BY <1>b, <1>o, <2>1, <2>4 DEF Raise
  <2> QED BY <1>17, <2>2, <2>3, <2>4 DEF WaitTimesOut
<1>18. CASE finalize_os_boot
  <2>1. At("finalize") /\ UNCHANGED <<phys, state>> /\ (phys = "off" => ssh' = ssh)
    BY <1>18 DEF finalize_os_boot, Quiet, Raise, SshAnswers, Userland
  <2>2. CASE Raise /\ UNCHANGED ssh
    BY <1>b, <1>o, <2>1, <2>2 DEF Raise
  <2>3. CASE Return
    <3>1. /\ todo \in Seq(Calls) /\ todo # <<>> /\ Tail(todo) # <<>>
          /\ Follows(op.trig, "finalize", Head(Tail(todo)))
      BY <2>1, NextCall DEF At, TypeInv, FsmInv, FsmTypeOK
    <3>2. /\ todo' # <<>> /\ op' = op
          /\ Head(todo') = "trap_save" \/ (Head(todo') = "commit" /\ op.trig = "boot_to_os")
      BY <2>3, <3>1 DEF Return, Follows
    <3>3. Head(todo') = "trap_save" => ~Snipes
      <4>1. Tail(todo) \in Seq(Calls) /\ Path(op.trig, Tail(todo))
        BY <3>1, PathTail DEF FlowInv
      <4> QED BY <2>3, <3>1, <4>1, TrapHead DEF Return, TrapCalls, Snipes
    <3> QED BY <1>0, <1>o, <2>1, <3>2, <3>3 DEF ShutInv, OffUnseen, RebootUnseen, Routed, Closed,
              ColdUnseen, OffClosed, CutClosed, At
  <2> QED BY <1>18, <2>2, <2>3 DEF finalize_os_boot
<1>19. CASE ResumeAlive \/ ResumeDead
  <2>1. /\ At("resume") /\ UNCHANGED <<phys, state>> /\ state # "POWER_OFF"
        /\ phys = "off" /\ ssh = "no" => ssh' = "no"
    BY <1>19 DEF ResumeAlive, ResumeDead, Quiet, ShutInv, Routed, SshHeartbeat,
         SshHeartbeatFails, SshAnswers, Userland
  <2>2. todo' # <<>> /\ Head(todo') \in {"finalize", "reset"}
    BY <1>19, OtherPlans DEF ResumeAlive, ResumeDead, Instead, Plan
  <2> QED BY <1>0, <1>o, <2>1, <2>2 DEF ShutInv, OffUnseen, RebootUnseen, Routed, Closed,
            ColdUnseen, OffClosed, CutClosed, At
<1> QED BY <1>1, <1>2, <1>3, <1>4, <1>5, <1>6, <1>7, <1>8, <1>9, <1>10, <1>11, <1>12, <1>13,
           <1>14, <1>15, <1>16, <1>17, <1>18, <1>19
        DEF Next, CallStep, WaitStep

\* A session is open to a board that is at its U-Boot prompt, or bound for it:
\* only while _try_hot_login is on its way to the power-off that closes it.
Lost == ssh = "stale" /\ (phys = "uboot" \/ (phys = "spl" /\ Trapped))
Closing == {"set_energized", "hot_wait", "reset", "set_dirty", "power_off"}
LostIsClosed == Lost => \E c \in Closing : At(c)
LostInv == Undoubted => LostIsClosed

LEMMA LostInductive ==
  TypeInv /\ FlowInv /\ LiveInv /\ TrapInv /\ AutoInv /\ ShutInv /\ LostInv /\ [Next]_vars
    => LostInv'
<1> SUFFICES ASSUME TypeInv, FlowInv, LiveInv, TrapInv, AutoInv, ShutInv, LostInv, [Next]_vars,
                    Undoubted'
             PROVE  LostIsClosed'
  BY DEF LostInv
<1>0. Undoubted /\ LostIsClosed
  BY DEF Next, vars, Undoubted, Clean, Autoboot, Faults, LostInv
<1>n. ASSUME ~Lost' PROVE LostIsClosed'
  BY <1>n DEF LostIsClosed
<1>h. ASSUME NEW c \in Closing, todo' # <<>>, Head(todo') = c PROVE LostIsClosed'
  BY <1>h DEF LostIsClosed, At
<1>f. ASSUME UNCHANGED todo, Lost' => Lost PROVE LostIsClosed'
  BY <1>0, <1>f DEF LostIsClosed, At
\* At the other calls nobody has lost a session.
<1>a. ASSUME NEW c, At(c), c \notin Closing PROVE ~Lost
  BY <1>0, <1>a DEF LostIsClosed, At
<1>q. ASSUME UNCHANGED <<phys, nv, ssh>> PROVE Lost' <=> Lost
  BY <1>q DEF Lost, Trapped
<1>1. CASE UNCHANGED vars
  BY <1>1, <1>f, <1>q DEF vars, board, fsm
<1>2. CASE Client
  <2>1. UNCHANGED <<phys, nv, ssh>>
    BY <1>2 DEF Client, Fire, mark_dirty, release_recovery, board
  <2>2. CASE mark_dirty \/ release_recovery
    BY <1>f, <1>q, <2>1, <2>2 DEF mark_dirty, release_recovery, fsm
  <2>3. CASE \E t \in Trigger, m \in Mediums : Fire(t, m)
    <3>1. ~Lost
      BY <1>0, <2>3 DEF Fire, Idle, LostIsClosed, At
    <3> QED BY <1>n, <1>q, <2>1, <3>1
  <2> QED BY <1>2, <2>2, <2>3 DEF Client
<1>3. CASE World
  <2>1. CASE BoardRunsBootcmd /\ UNCHANGED fsm
    <3>1. Lost' => Lost
      BY <2>1 DEF BoardRunsBootcmd, Enter, SshAcross, Lost, Trapped, LiveInv, Userland
    <3> QED BY <1>f, <2>1, <3>1 DEF fsm
  <2>2. CASE BoardReachesUserland \/ BoardHangs \/ BoardDropsSsh
    BY <1>n, <2>2 DEF BoardReachesUserland, BoardHangs, BoardDropsSsh, Enter, Lost, Userland
  <2>3. CASE TestBoots
    <3>1. CASE phys = "shell" /\ Enter("spl") /\ "selfboot" \in Faults
      <4>1. ~Trapped
        BY <1>0, <2>3, <3>1 DEF TestBoots, Idle, Undoubted, TrapInv, TrapParts, TrapStops, AutoInv,
             At, Userland
      <4>2. ~Lost'
        BY <3>1, <4>1 DEF Enter, Lost, Trapped
      <4> QED BY <1>n, <4>2
    <3>2. CASE Enter("kernel")
      BY <1>n, <3>2 DEF Enter, Lost
    <3> QED BY <2>3, <3>1, <3>2 DEF TestBoots
  <2> QED BY <1>3, <2>1, <2>2, <2>3 DEF World, BoardBoots
<1>4. CASE Route \/ Commit \/ ProbeStep
  <2>1. UNCHANGED <<phys, nv, ssh>> /\ (At("route") \/ At("commit") \/ At("align"))
    BY <1>4 DEF Route, Commit, ProbeStep, AlignSkipped, ProbePower, ProbeNetwork, ProbePassive,
         ProbeActive, ProbeRaises, board
  <2>2. ~Lost
    BY <1>a, <2>1 DEF Closing
  <2> QED BY <1>n, <1>q, <2>1, <2>2
<1>5. CASE set_state
  <2>1. todo' # <<>> /\ Head(todo') \in {"hot_wait", "power_off"}
    BY <1>5, NextCall DEF set_state, Follows, Return
  <2> QED BY <1>h, <2>1 DEF Closing
<1>6. CASE do_power_off \/ reboot
  BY <1>6, <1>n DEF do_power_off, reboot, CloseSsh, Lost
<1>7. CASE do_apply_bootstrap \/ recovery_pin
  <2>1. UNCHANGED <<phys, nv, ssh>> /\ (At("strap") \/ At("pin_on") \/ At("pin_off"))
    BY <1>7 DEF do_apply_bootstrap, recovery_pin
  <2>2. ~Lost
    BY <1>a, <2>1 DEF Closing
  <2> QED BY <1>n, <1>q, <2>1, <2>2
<1>8. CASE do_energize
  <2>1. At("energize") /\ UNCHANGED <<nv, ssh>> /\ (phys' = phys \/ phys = "off")
    BY <1>8 DEF do_energize, ApplyPower, Powered
  <2>2. ~Lost /\ (phys = "off" => ssh = "no")
    BY <1>a, <2>1 DEF Closing, ShutInv, OffUnseen
  <2>3. ~Lost'
    BY <2>1, <2>2 DEF Lost, Trapped
  <2> QED BY <1>n, <2>3
<1>9. CASE do_hardware_reset
  <2>1. At("reset")
    BY <1>9 DEF do_hardware_reset
  <2>2. CASE Return
    <3>1. todo' # <<>> /\ Head(todo') \in {"set_energized", "set_dirty"}
      BY <2>1, <2>2, NextCall DEF Follows, Return
    <3> QED BY <1>h, <3>1 DEF Closing
  <2>3. CASE Instead(<<"power_off", "energize">> \o Tail(todo))
    <3>1. todo' # <<>> /\ Head(todo') = "power_off"
      BY <2>1, <2>3, ResetPath DEF Instead, Plan
    <3> QED BY <1>h, <3>1 DEF Closing
  <2> QED BY <1>0, <1>9, <2>2, <2>3 DEF do_hardware_reset, Undoubted
<1>10. CASE trap_save \/ trap_set
  <2>1. /\ At("trap_save") \/ At("trap_set")
        /\ UNCHANGED <<phys, ssh>> /\ (~ShellReachable => nv' = nv)
    BY <1>10 DEF trap_save, trap_set, FwSetenv
  <2>2. ~Lost /\ (ssh = "stale" => ~ShellReachable)
    BY <1>a, <2>1 DEF Closing, ShellReachable
  <2>3. ~Lost'
    BY <2>1, <2>2 DEF Lost, Trapped
  <2> QED BY <1>n, <2>3
<1>11. CASE do_soft_reboot
  <2>1. ssh = "no" /\ (UNCHANGED board \/ Enter("spl"))
    BY <1>11 DEF do_soft_reboot, ShutInv, RebootUnseen
  <2>2. ~Lost'
    BY <2>1 DEF Enter, SshAcross, Lost, board
  <2> QED BY <1>n, <2>2
<1>12. CASE restore_bootcmd \/ restore_prev \/ restore_save \/ boot_cmd
  <2>1. /\ At("restore_bootcmd") \/ At("restore_prev") \/ At("restore_save") \/ At("boot_cmd")
        /\ UNCHANGED ssh /\ (phys' = phys \/ phys' = "kernel") /\ (nv' = nv \/ phys = "uboot")
    BY <1>12 DEF restore_bootcmd, restore_prev, UbootRun, restore_save, boot_cmd, BootCmd
  <2>2. ~Lost
    BY <1>a, <2>1 DEF Closing
  <2>3. ~Lost'
    BY <2>1, <2>2 DEF Lost, Trapped
  <2> QED BY <1>n, <2>3
<1>13. CASE SnipeAutoboot
  <2>1. ssh = "no" /\ Enter("uboot")
    BY <1>0, <1>13 DEF SnipeAutoboot, ShutInv, Closed, ColdUnseen, Snipes, Undoubted
  <2>2. ~Lost'
    BY <2>1 DEF Enter, SshAcross, Lost
  <2> QED BY <1>n, <2>2
<1>14. CASE wait_uboot
  <2>1. ~Lost /\ UNCHANGED <<phys, nv, ssh>>
    BY <1>14, <1>a DEF wait_uboot, Closing
  <2> QED BY <1>n, <1>q, <2>1
<1>15. CASE LogIn \/ InjectBoot \/ ShellSeen \/ KernelPanic
  BY <1>15, <1>n DEF LogIn, InjectBoot, ShellSeen, KernelPanic, Enter, board, Lost
<1>16. CASE WaitTimesOut
  <2>0. UNCHANGED <<phys, nv, ssh>>
    BY <1>16 DEF WaitTimesOut, board
  <2>1. CASE At("wait_os")
    <3>1. ~Lost
      BY <1>a, <2>1 DEF Closing
    <3> QED BY <1>n, <1>q, <2>0, <3>1
  <2>2. CASE Instead(<<"reset", "set_dirty", "power_off", "strap">> \o cold_boot_to_os)
    <3>1. todo' # <<>> /\ Head(todo') = "reset"
      BY <2>2, OsPlans DEF Instead, Plan
    <3> QED BY <1>h, <3>1 DEF Closing
  <2> QED BY <1>16, <2>1, <2>2 DEF WaitTimesOut
<1>17. CASE finalize_os_boot \/ ResumeAlive \/ ResumeDead
  <2>1. /\ At("finalize") \/ At("resume")
        /\ UNCHANGED <<phys, nv>> /\ ssh' \in {ssh, "live", "no"}
    BY <1>17 DEF finalize_os_boot, ResumeAlive, ResumeDead, SshHeartbeat, SshHeartbeatFails
  <2>2. ~Lost
    BY <1>a, <2>1 DEF Closing
  <2>3. ~Lost'
    BY <2>1, <2>2 DEF Lost, Trapped
  <2> QED BY <1>n, <2>3
<1> QED BY <1>1, <1>2, <1>3, <1>4, <1>5, <1>6, <1>7, <1>8, <1>9, <1>10, <1>11, <1>12, <1>13,
           <1>14, <1>15, <1>16, <1>17
        DEF Next, CallStep, WaitStep

\* The OS was seen, or will have to answer before the trigger can end.
UserSeen ==
    op.trig = "boot_to_os" =>
        /\ At("finalize") => visited \cap Userland # {} \/ ssh = "no"
        /\ At("commit") => visited \cap Userland # {}
SeenInv == Undoubted => UserSeen

LEMMA UserCommitted ==
  ASSUME TypeInv, FlowInv, LiveInv, HistInv, LostIsClosed, UserSeen, HistNext
  PROVE  UserSeen'
<1>0. Next /\ (todo # <<>> => visited' = visited \cup {phys'} /\ phys \in visited)
  BY DEF HistNext, Remember, Idle, HistInv
<1>f. ASSUME UNCHANGED fsm, ssh = "no" => ssh' = "no" PROVE UserSeen'
  BY <1>0, <1>f DEF UserSeen, At, fsm
<1>b. ASSUME todo' = <<>> PROVE UserSeen'
  BY <1>b DEF UserSeen, At
<1>h. ASSUME NEW c, todo' # <<>>, Head(todo') = c, c \notin {"finalize", "commit"} PROVE UserSeen'
  BY <1>h DEF UserSeen, At
<1>s. ASSUME todo # <<>>, phys \in Userland PROVE UserSeen'
  BY <1>0, <1>s DEF UserSeen
<1>e. ASSUME NEW p, Enter(p) PROVE ssh = "no" => ssh' = "no"
  BY <1>e DEF Enter, SshAcross
<1>a. ASSUME NEW c, At(c), Return,
             c \notin {"commit", "route", "wait_os", "hot_wait", "finalize", "resume"}
      PROVE  UserSeen'
  <2>1. Tail(todo) # <<>> /\ Follows(op.trig, c, Head(Tail(todo))) /\ c \in Calls
    BY <1>a, NextCall, HeadTailProperties DEF At, TypeInv, FsmInv, FsmTypeOK
  <2>2. /\ Head(Tail(todo)) # "finalize"
        /\ Head(Tail(todo)) = "commit" => op.trig # "boot_to_os"
    BY <1>a, <2>1 DEF Follows, Calls
  <2> QED BY <1>a, <2>2 DEF Return, UserSeen, At
<1>i. ASSUME NEW t, NEW c, NEW p, Plan(t, c, p), Instead(p), c \notin {"finalize", "commit"}
      PROVE  UserSeen'
  BY <1>i, <1>h DEF Plan, Instead
<1>1. CASE Client
  <2>1. CASE mark_dirty
    BY <2>1, <1>b DEF mark_dirty, Idle
  <2>2. ASSUME NEW t \in Trigger, NEW m \in Mediums, Fire(t, m) PROVE UserSeen'
    BY <2>2, <1>h DEF Fire
  <2> QED BY <1>1, <1>f, <2>1, <2>2 DEF Client, release_recovery
<1>2. CASE World \/ SnipeAutoboot \/ LogIn \/ InjectBoot
  BY <1>2, <1>e, <1>f DEF World, BoardBoots, BoardRunsBootcmd, BoardReachesUserland, BoardHangs,
       BoardDropsSsh, TestBoots, SnipeAutoboot, LogIn, InjectBoot
<1>3. CASE Route
  <2>1. op.trig \in Trigger /\ state \in DutState
    BY <1>3 DEF Route, At, TypeInv, FsmInv, FsmTypeOK
  <2>2. PICK c \in Calls : Plan(op.trig, c, Callback) /\ Starts(op.trig, c)
    BY <2>1, CallbackPath
  <2>3. todo' # <<>> /\ Head(todo') = c /\ op' = op
    BY <1>3, <2>2 DEF Route, Instead, Plan
  <2> QED BY <2>2, <2>3 DEF Starts, UserSeen, At
<1>4. CASE Commit
  BY <1>4, <1>b DEF Commit
<1>5. CASE ProbeStep \/ set_state
  BY <1>5, <1>a, <1>b DEF ProbeStep, AlignSkipped, ProbePower, ProbeNetwork, ProbePassive,
       ProbeActive, ProbeRaises, Align, set_state, Raise
<1>6. CASE do_power_off \/ do_apply_bootstrap \/ do_energize \/ recovery_pin
  BY <1>6, <1>a, <1>b DEF do_power_off, do_apply_bootstrap, SetMedium,
       do_energize, rebind_serial_port, recovery_pin, Raise
<1>7. CASE do_hardware_reset
  <2>1. CASE Return
    BY <1>7, <2>1, <1>a DEF do_hardware_reset
  <2>2. CASE Instead(<<"power_off", "energize">> \o Tail(todo))
    BY <1>7, <2>2, <1>i, ResetPath DEF do_hardware_reset
  <2>3. CASE Raise
    BY <1>7, <2>3, <1>b DEF Raise, do_hardware_reset
  <2> QED BY <1>7, <2>1, <2>2, <2>3 DEF do_hardware_reset
<1>8. CASE \/ trap_save \/ trap_set \/ reboot \/ do_soft_reboot
           \/ restore_bootcmd \/ restore_prev \/ restore_save \/ boot_cmd
  BY <1>8, <1>a, <1>b DEF trap_save, trap_set, FwSetenv, reboot, do_soft_reboot,
       restore_bootcmd, restore_prev, UbootRun, restore_save, boot_cmd, Raise
<1>9. CASE wait_uboot \/ KernelPanic
  BY <1>9, <1>a, <1>b DEF wait_uboot, KernelPanic, Raise
<1>10. CASE ShellSeen
  BY <1>10, <1>s DEF ShellSeen, At, Userland
<1>11. CASE WaitTimesOut
  BY <1>11, <1>b, <1>i, OsPlans DEF WaitTimesOut, Raise
<1>12. CASE finalize_os_boot
  <2>0. At("finalize") /\ todo # <<>>
    BY <1>12 DEF finalize_os_boot, At
  <2>1. CASE Raise
    BY <2>1, <1>b DEF Raise
  <2>2. CASE SshAnswers
    BY <1>s, <2>0, <2>2 DEF SshAnswers
  <2>3. CASE ssh # "no" /\ Return
    <3>1. op.trig = "boot_to_os" => visited \cap Userland # {}
      BY <2>0, <2>3 DEF UserSeen
    <3> QED BY <1>0, <2>0, <2>3, <3>1 DEF UserSeen, Return
  <2> QED BY <1>12, <2>1, <2>2, <2>3 DEF finalize_os_boot
<1>13. CASE ResumeAlive
  <2>0. At("resume") /\ todo # <<>> /\ ~Lost
    BY <1>13 DEF ResumeAlive, At, LostIsClosed, Closing
  <2>1. todo' # <<>> /\ Head(todo') = "finalize"
    BY <1>13, OtherPlans DEF ResumeAlive, Instead, Plan
  <2>2. CASE phys \in Userland
    BY <1>s, <2>0, <2>2
  <2>3. CASE phys \notin Userland
    <3>1. SshHeartbeatFails /\ phys = "uboot"
      BY <1>13, <2>3 DEF ResumeAlive, SshHeartbeat, SshAnswers, LiveInv, ConsoleEchoes, Userland
    <3>2. ssh \in {"no", "live", "stale"}
      BY DEF TypeInv, BoardTypeOK
    <3>3. ssh' = "no"
      BY <2>0, <2>3, <3>1, <3>2 DEF Lost, LiveInv, SshHeartbeatFails
    <3> QED BY <2>1, <3>3 DEF UserSeen, At
  <2> QED BY <2>2, <2>3
<1>14. CASE ResumeDead
  BY <1>14, <1>i, OtherPlans DEF ResumeDead
<1> QED BY <1>0, <1>1, <1>2, <1>3, <1>4, <1>5, <1>6, <1>7, <1>8, <1>9, <1>10, <1>11, <1>12, <1>13,
           <1>14
        DEF Next, CallStep, WaitStep

LEMMA SeenInductive ==
  TypeInv /\ FlowInv /\ LiveInv /\ HistInv /\ LostInv /\ SeenInv /\ [HistNext]_histvars
    => SeenInv'
<1> SUFFICES ASSUME TypeInv, FlowInv, LiveInv, HistInv, LostInv, SeenInv, [HistNext]_histvars,
                    Undoubted'
             PROVE  UserSeen'
  BY DEF SeenInv
<1>1. UNCHANGED station
  BY DEF HistNext, Next, histvars, vars
<1>2. LostIsClosed /\ UserSeen
  BY <1>1 DEF Undoubted, Clean, Autoboot, Faults, LostInv, SeenInv
<1>3. CASE UNCHANGED histvars
  BY <1>2, <1>3 DEF histvars, vars, board, fsm, UserSeen, At
<1>4. CASE HistNext
  BY <1>2, <1>4, UserCommitted
<1> QED BY <1>3, <1>4

LEMMA SeenInitially == HistInit => Init /\ HistInv /\ AutoInv /\ ShutInv /\ LostInv /\ SeenInv
<1>1. HistInit => Init /\ HistInv
  BY DEF HistInit, Init, HistInv
<1>2. Init => AutoInv /\ ShutInv /\ LostInv /\ SeenInv
  BY DEF Init, BoardInit, AutoInv, Trapped, ShutInv, OffUnseen, RebootUnseen, Routed, Closed,
       ColdUnseen, OffClosed, CutClosed, LostInv, LostIsClosed, Lost, SeenInv, UserSeen, At
<1> QED BY <1>1, <1>2

\* boot_to_os reports OS_USERLAND only of a board that was in userland since the
\* trigger was fired, although a U-Boot prompt echoes the heartbeat as a shell
\* does and finalize_os_boot takes any open session as it is.  For every station
\* and every fault, but a test that reboots a board on which a command in doubt
\* has left the trap.
THEOREM OsIsSeen == HistSpec => OsCommitBacked
<1>1. [HistNext]_histvars => [Next]_vars
  BY DEF HistNext, histvars
<1>2. SeenInv => [Undoubted /\ At("commit") /\ op.trig = "boot_to_os"
                    => visited \cap Userland # {}]_histvars
  BY DEF SeenInv, UserSeen
<1> QED BY <1>1, <1>2, SeenInitially, SeenInductive, TypeInitially, TypeInductive, FlowInitially,
           FlowInductive, HistInductive, TrapInitially, LiveInductive, TrapInductive, AutoInductive,
           ShutInductive, LostInductive, PTL
        DEF HistSpec, OsCommitBacked
-----------------------------------------------------------------------------
(* The routing fixture                                                      *)

\* A call leaves the trigger running, or it ends it, in an exception or in the
\* destination.
Proceeds ==
    /\ todo # <<>>
    /\ \/ todo' # <<>> /\ op' = op
       \/ todo' = <<>> /\ exc' = TRUE
       \/ todo' = <<>> /\ At("commit") /\ state' = Dest[op.trig]

LEMMA CallEnds ==
  ASSUME TypeInv, FlowInv, CallStep
  PROVE  Proceeds
<1>a. ASSUME NEW c, At(c), c \notin {"commit", "route"}, Return PROVE Proceeds
  BY <1>a, NextCall DEF At, Return, Proceeds
<1>b. ASSUME NEW c, At(c), Raise PROVE Proceeds
  BY <1>b DEF At, Raise, Proceeds
<1>f. ASSUME NEW c, At(c), UNCHANGED fsm PROVE Proceeds
  BY <1>f DEF At, fsm, Proceeds
<1>i. ASSUME NEW d, At(d), NEW t, NEW c, NEW p, Plan(t, c, p), Instead(p) PROVE Proceeds
  BY <1>i DEF At, Plan, Instead, Proceeds
<1>1. CASE Route
  <2>1. op.trig \in Trigger /\ state \in DutState
    BY <1>1 DEF Route, At, TypeInv, FsmInv, FsmTypeOK
  <2> QED BY <1>1, <1>i, <2>1, CallbackPath DEF Route
<1>2. CASE Commit
  BY <1>2 DEF Commit, At, Proceeds
<1>3. CASE set_state \/ ProbeStep
  BY <1>3, <1>a, <1>b DEF set_state, ProbeStep, AlignSkipped, ProbePower, ProbeNetwork,
       ProbePassive, ProbeActive, ProbeRaises, Align
<1>4. CASE do_power_off \/ do_apply_bootstrap \/ do_energize \/ recovery_pin
  BY <1>4, <1>a, <1>b DEF do_power_off, do_apply_bootstrap, SetMedium,
       do_energize, rebind_serial_port, recovery_pin
<1>5. CASE do_hardware_reset
  <2>1. CASE Return
    BY <1>5, <2>1, <1>a DEF do_hardware_reset
  <2>2. CASE Instead(<<"power_off", "energize">> \o Tail(todo))
    BY <1>5, <2>2, <1>i, ResetPath DEF do_hardware_reset
  <2>3. CASE Raise
    BY <1>5, <2>3, <1>b DEF Raise, do_hardware_reset
  <2> QED BY <1>5, <2>1, <2>2, <2>3 DEF do_hardware_reset
<1>6. CASE \/ trap_save \/ trap_set \/ reboot \/ do_soft_reboot
           \/ restore_bootcmd \/ restore_prev \/ restore_save \/ boot_cmd
  BY <1>6, <1>a, <1>b DEF trap_save, trap_set, FwSetenv, reboot, do_soft_reboot,
       restore_bootcmd, restore_prev, UbootRun, restore_save, boot_cmd
<1>7. CASE SnipeAutoboot \/ LogIn \/ InjectBoot
  BY <1>7, <1>f DEF SnipeAutoboot, LogIn, InjectBoot
<1>8. CASE wait_uboot \/ ShellSeen \/ KernelPanic \/ finalize_os_boot
  BY <1>8, <1>a, <1>b DEF wait_uboot, ShellSeen, KernelPanic, finalize_os_boot
<1>9. CASE WaitTimesOut
  BY <1>9, <1>b, <1>i, OsPlans DEF WaitTimesOut
<1>10. CASE ResumeAlive \/ ResumeDead
  BY <1>10, <1>i, OtherPlans DEF ResumeAlive, ResumeDead
<1> QED BY <1>1, <1>2, <1>3, <1>4, <1>5, <1>6, <1>7, <1>8, <1>9, <1>10 DEF CallStep, WaitStep

\* The fixture adds two steps to those of the machine: a heartbeat that is
\* answered, and one that is not, with mark_dirty and boot_to_os after it.
LEMMA OrchSteps ==
  ASSUME TypeInv, OrchNext
  PROVE  [Next]_vars \/ \E t \in Targets : BypassAlive(t) \/ RouteDead(t)
<1>0. UNCHANGED station /\ medium \in Mediums
  BY DEF OrchNext, TypeInv, FsmInv, FsmTypeOK
<1>1. ASSUME Client \/ CallStep \/ World PROVE Next
  BY <1>0, <1>1 DEF Next
<1>2. ASSUME NEW t \in Trigger, Fire(t, medium) PROVE Next
  BY <1>0, <1>1, <1>2 DEF Client
<1>3. CASE SetupEnds \/ BodyPasses \/ SessionOver
  BY <1>3 DEF SetupEnds, BodyPasses, SessionOver
<1>4. CASE BodyFires \/ BodyFails
  BY <1>1, <1>4 DEF BodyFires, BodyFails, Client
<1>5. CASE EndSession
  BY <1>2, <1>5, TriggerNames DEF EndSession
<1>6. ASSUME NEW t \in Targets, StartTest(t), ~BypassAlive(t), ~RouteDead(t) PROVE [Next]_vars
  <2>1. t \in RoutedStates => TriggerFor[t] \in Trigger
    BY TriggerNames DEF RoutedStates, TriggerFor
  <2> QED BY <1>2, <1>6, <2>1 DEF StartTest, BypassBoot, RouteTo
<1>7. CASE CallStep
  BY <1>1, <1>7
<1>8. CASE BoardBoots \/ ((BoardHangs \/ BoardDropsSsh) /\ UNCHANGED <<fsm, orch>>) \/ TestBoots
  BY <1>1, <1>8 DEF World
<1> QED BY <1>3, <1>4, <1>5, <1>6, <1>7, <1>8 DEF OrchNext, OrchStep

LEMMA HeartbeatTyped ==
  ASSUME BoardTypeOK, HeartbeatOk \/ HeartbeatFails, UNCHANGED station
  PROVE  BoardTypeOK'
<1>1. Prints(phys) \in Chunk
  BY DEF Prints, Chunk
<1>2. rawq' = rawq \/ rawq' = <<>> \/ rawq' = <<Prints(phys)>>
  BY DEF HeartbeatOk, HeartbeatFails
<1>3. rawq' \in Seq(Chunk) /\ Len(rawq') <= QMax
  BY <1>1, <1>2, ShortQueues DEF BoardTypeOK
<1>4. ssh' \in {"no", "live", "stale"} /\ UNCHANGED <<phys, nv, ram, strap, pin, serial>>
  BY DEF HeartbeatOk, HeartbeatFails, SshHeartbeat, BoardTypeOK
<1> QED BY <1>3, <1>4 DEF BoardTypeOK

LEMMA OrchTyped == TypeInv /\ FlowInv /\ [OrchNext]_orchvars => TypeInv' /\ FlowInv'
<1> SUFFICES ASSUME TypeInv, FlowInv, [OrchNext]_orchvars PROVE TypeInv' /\ FlowInv'
  OBVIOUS
<1>0. UNCHANGED station /\ (Autoboot' <=> Autoboot)
  BY DEF OrchNext, orchvars, histvars, vars, Autoboot
<1>1. CASE [Next]_vars
  BY <1>1, TypeInductive, FlowInductive
<1>2. ASSUME NEW t \in Targets, BypassAlive(t) PROVE TypeInv' /\ FlowInv'
  <2>1. BoardTypeOK'
    BY <1>0, <1>2, HeartbeatTyped DEF BypassAlive, TypeInv
  <2>2. FsmInv' /\ FlowInv'
    BY <1>0, <1>2 DEF BypassAlive, fsm, TypeInv, FsmInv, FsmTypeOK, FlowInv, Path
  <2> QED BY <2>1, <2>2 DEF TypeInv
<1>3. ASSUME NEW t \in Targets, RouteDead(t) PROVE TypeInv' /\ FlowInv'
  <2>1. BoardTypeOK'
    BY <1>0, <1>3, HeartbeatTyped DEF RouteDead, TypeInv
  <2>2. Plan("boot_to_os", "align", <<"align", "route">>)
    BY OtherPlans
  <2>3. FlowInv'
    BY <1>0, <1>3, <2>2 DEF RouteDead, Plan, FlowInv, Path
  <2>4. FsmInv'
    BY <1>3, <2>2, TriggerNames DEF RouteDead, Plan, TypeInv, FsmInv, FsmTypeOK, DutState
  <2> QED BY <2>1, <2>3, <2>4 DEF TypeInv
<1>4. CASE UNCHANGED orchvars
  BY <1>1, <1>4 DEF orchvars, histvars
<1> QED BY <1>1, <1>2, <1>3, <1>4, OrchSteps

\* While the fixture's trigger runs it is the one for the marker; when it is over
\* it has raised, or the machine is in the state of the marker.
Serving ==
    /\ target \in RoutedStates
    /\ IF Idle THEN exc = TRUE \/ state = target ELSE op.trig = TriggerFor[target]
OrchInv == stage = "setup" => Serving

LEMMA OrchInductive == TypeInv /\ FlowInv /\ OrchInv /\ [OrchNext]_orchvars => OrchInv'
<1> SUFFICES ASSUME TypeInv, FlowInv, OrchInv, [OrchNext]_orchvars, stage' = "setup"
             PROVE  Serving'
  BY DEF OrchInv
<1>r. /\ \A s \in RoutedStates : Dest[TriggerFor[s]] = s
      /\ "OS_USERLAND" \in RoutedStates /\ TriggerFor["OS_USERLAND"] = "boot_to_os"
  BY DEF RoutedStates, TriggerFor, Dest
<1>u. ASSUME UNCHANGED <<fsm, orch>> PROVE Serving'
  BY <1>u DEF fsm, orch, OrchInv, Serving, Idle
<1>1. CASE UNCHANGED orchvars
  BY <1>1, <1>u DEF orchvars, histvars, vars
<1>2. ASSUME NEW t \in Targets, StartTest(t) PROVE Serving'
  <2>1. RouteDead(t) \/ RouteTo(t)
    BY <1>2 DEF StartTest, BypassBoot, BypassAlive, Goes
  <2>2. /\ target' = t /\ t \in RoutedStates /\ op'.trig = TriggerFor[t]
        /\ todo' = <<"align", "route">>
    BY <1>r, <2>1 DEF RouteDead, RouteTo, Fire, Goes
  <2> QED BY <2>2 DEF Serving, Idle
<1>3. CASE SetupEnds \/ BodyPasses \/ BodyFails \/ EndSession \/ SessionOver
  BY <1>3 DEF SetupEnds, BodyPasses, BodyFails, EndSession, SessionOver, Goes
<1>4. CASE BodyFires \/ (stage = "body" /\ TestBoots /\ UNCHANGED orch)
  BY <1>4 DEF BodyFires, orch
<1>5. CASE CallStep /\ UNCHANGED orch
  <2>1. Serving /\ UNCHANGED target
    BY <1>5 DEF orch, OrchInv
  <2>2. Proceeds
    BY <1>5, CallEnds
  <2> QED BY <1>r, <2>1, <2>2 DEF Serving, Idle, Proceeds
<1>6. CASE \/ BoardBoots /\ UNCHANGED orch
           \/ (BoardHangs \/ BoardDropsSsh) /\ UNCHANGED <<fsm, orch>>
  BY <1>6, <1>u DEF BoardBoots
<1> QED BY <1>1, <1>2, <1>3, <1>4, <1>5, <1>6 DEF OrchNext, OrchStep

\* A test starts only in the state its requires_state marker names, whatever
\* goes wrong on the way there and whatever the tests before it did: a trigger of
\* enforce_physical_state that raised ends the test, and one that did not has set
\* its destination.  For every station, every fault and every set of markers.
THEOREM TestsStartInTheirState == OrchSpec => BodyRunsInTarget
<1>1. OrchInit => Init /\ OrchInv
  BY DEF OrchInit, HistInit, OrchInv
<1>2. OrchInv /\ [OrchNext]_orchvars
        => [StartsBody /\ target' \in RoutedStates => state = target']_orchvars
  <2> SUFFICES ASSUME OrchInv, OrchNext, StartsBody, target' \in RoutedStates
               PROVE  state = target'
    OBVIOUS
  <2>1. target' # "none"
    BY DEF RoutedStates
  <2>2. ASSUME NEW t \in Targets, StartTest(t) PROVE state = target'
    BY <2>1, <2>2 DEF StartTest, BypassBoot, BypassAlive, RouteDead, RouteTo, Goes, StartsBody
  <2>3. CASE SetupEnds
    <3>1. stage = "setup" /\ Idle /\ target' = target /\ stage' = "body"
      BY <2>3 DEF SetupEnds, Goes, StartsBody
    <3>2. exc # TRUE
      BY <2>3, <3>1, Zenon DEF SetupEnds, Goes
    <3> QED BY <3>1, <3>2 DEF OrchInv, Serving
  <2>4. ~(BodyFires \/ BodyPasses \/ BodyFails \/ EndSession \/ SessionOver)
    BY DEF BodyFires, BodyPasses, BodyFails, EndSession, SessionOver, Goes, StartsBody, orch
  <2>5. stage' # stage
    BY DEF StartsBody
  <2> QED BY <2>2, <2>3, <2>4, <2>5 DEF OrchNext, OrchStep, orch
<1> QED BY <1>1, <1>2, TypeInitially, FlowInitially, OrchTyped, OrchInductive, PTL
        DEF OrchSpec, BodyRunsInTarget
-----------------------------------------------------------------------------
(* Tests that ask for the OS                                                *)

\* The steps of a session are those of the machine with its history, and the
\* fixture's heartbeats.
LEMMA OrchRemembers ==
  ASSUME TypeInv, HistInv, OrchNext
  PROVE  [HistNext]_histvars \/ \E t \in Targets : BypassAlive(t) \/ RouteDead(t)
<1>0. Remember
  BY DEF OrchNext
<1>1. CASE Next
  BY <1>0, <1>1 DEF HistNext
<1>2. CASE UNCHANGED vars
  <2>1. visited' = visited
    <3>1. CASE todo = <<>>
      BY <1>0, <1>2, <3>1 DEF vars, fsm, Remember, Idle
    <3>2. CASE todo # <<>>
      <4>1. visited' = visited \cup {phys'} /\ phys' = phys /\ phys \in visited
        BY <1>0, <1>2, <3>2 DEF vars, board, Remember, Idle, HistInv
      <4> QED BY <4>1
    <3> QED BY <3>1, <3>2
  <2>2. booted' = booted
    BY <1>0, <1>2 DEF vars, board, Remember
  <2> QED BY <1>2, <2>1, <2>2 DEF histvars
<1> QED BY <1>1, <1>2, OrchSteps

\* A heartbeat does not move the board; it opens a session only to userland.
LEMMA HeartbeatEffect ==
  ASSUME NEW t, BypassAlive(t) \/ RouteDead(t), OrchNext
  PROVE  /\ todo = <<>> /\ state = "OS_USERLAND"
         /\ UNCHANGED <<station, phys, nv, ram, serial>>
         /\ rawq' \in {rawq, <<>>, <<Prints(phys)>>}
         /\ ssh' \in {ssh, "no"} \/ (ssh' = "live" /\ phys \in Userland)
         /\ \/ UNCHANGED fsm
            \/ /\ state' = "DIRTY" /\ todo' = <<"align", "route">>
               /\ op'.trig = "boot_to_os"
<1>1. UNCHANGED station
  BY DEF OrchNext
<1>2. HeartbeatOk \/ HeartbeatFails
  BY DEF BypassAlive, RouteDead
<1>3. /\ UNCHANGED <<phys, nv, ram, serial>> /\ rawq' \in {rawq, <<>>, <<Prints(phys)>>}
      /\ ssh' \in {ssh, "no"} \/ (ssh' = "live" /\ phys \in Userland)
  BY <1>2 DEF HeartbeatOk, HeartbeatFails, SshHeartbeat, SshAnswers
<1> QED BY <1>1, <1>3 DEF BypassAlive, RouteDead, BetweenTests, Idle

LEMMA HeartbeatKeeps ==
  ASSUME LiveInv, TrapInv, AutoInv, ShutInv, LostInv, OrchNext,
         NEW t, BypassAlive(t) \/ RouteDead(t)
  PROVE  LiveInv' /\ TrapInv' /\ AutoInv' /\ ShutInv' /\ LostInv' /\ HistInv' /\ SeenInv'
<1>1. /\ UNCHANGED <<station, phys, nv, ram, serial>>
      /\ todo = <<>> /\ state' \in {"OS_USERLAND", "DIRTY"}
      /\ ssh' \in {ssh, "no"} \/ (ssh' = "live" /\ phys \in Userland)
  BY HeartbeatEffect DEF fsm
<1>2. \A c : ~At(c) /\ (At(c)' => c = "align")
  BY <1>1, HeartbeatEffect DEF At, fsm
<1>3. /\ Clean' <=> Clean
      /\ Autoboot' <=> Autoboot
      /\ HasPsu' <=> HasPsu
      /\ Undoubted' <=> Undoubted
      /\ Trapped' <=> Trapped
  BY <1>1 DEF Clean, Autoboot, HasPsu, Undoubted, Faults, Trapped
<1>4. LiveInv' /\ AutoInv'
  BY <1>1, <1>3 DEF LiveInv, AutoInv
<1>5. TrapInv'
  <2> SUFFICES ASSUME Clean PROVE TrapParts' /\ OsCommit'
    BY <1>3 DEF TrapInv
  <2>1. /\ Trapped => phys \notin {"kernel"} \cup Userland /\ ssh = "no"
        /\ ~Autoboot /\ phys = "uboot" => ssh = "no"
        /\ ram = nv
    BY <1>2 DEF TrapInv, TrapParts, TrapStops, TrapUnseen, PromptUnseen, RamIsNv
  <2>2. ~At("commit")'
    BY <1>2
  <2>3. /\ Trapped => phys \notin {"kernel"} \cup Userland /\ ssh' = "no"
        /\ ~Autoboot /\ phys = "uboot" => ssh' = "no"
    BY <1>1, <2>1 DEF Userland
  <2> QED BY <1>1, <1>3, <2>1, <2>2, <2>3 DEF TrapParts, TrapStops, TrapUnseen, PromptUnseen,
            RamIsNv, OsCommit
<1>6. ShutInv'
  <2>1. \A c \in {"route", "resume", "strap", "energize", "pin_on", "wait_uboot", "commit",
                  "soft_reboot"} : ~At(c)'
    BY <1>2
  <2>2. phys' = "off" => ssh' = "no"
    BY <1>1 DEF ShutInv, OffUnseen, Userland
  <2> QED BY <1>1, <2>1, <2>2 DEF ShutInv, OffUnseen, RebootUnseen, Routed, Closed, ColdUnseen,
            OffClosed, CutClosed
<1>7. LostInv'
  <2> SUFFICES ASSUME Undoubted PROVE ~Lost'
    BY <1>3 DEF LostInv, LostIsClosed
  <2>1. ~Lost
    BY <1>2 DEF LostInv, LostIsClosed
  <2> QED BY <1>1, <1>3, <2>1 DEF Lost
<1>8. SeenInv'
  <2>1. ~At("finalize")' /\ ~At("commit")'
    BY <1>2
  <2> QED BY <2>1 DEF SeenInv, UserSeen
<1>9. HistInv'
  <2>1. ~At("commit")'
    BY <1>2
  <2>2. todo' # <<>> => phys' \in visited'
    BY <1>1 DEF OrchNext, Remember, Idle
  <2> QED BY <2>1, <2>2 DEF HistInv
<1> QED BY <1>4, <1>5, <1>6, <1>7, <1>8, <1>9

PastInv == LiveInv /\ TrapInv /\ AutoInv /\ ShutInv /\ LostInv /\ HistInv /\ SeenInv

LEMMA PastInductive == TypeInv /\ FlowInv /\ PastInv /\ [OrchNext]_orchvars => PastInv'
<1> SUFFICES ASSUME TypeInv, FlowInv, PastInv, [OrchNext]_orchvars PROVE PastInv'
  OBVIOUS
<1>1. CASE [HistNext]_histvars
  <2>1. [Next]_vars
    BY <1>1 DEF HistNext, histvars
  <2> QED BY <1>1, <2>1, LiveInductive, TrapInductive, AutoInductive, ShutInductive,
            LostInductive, HistInductive, SeenInductive DEF PastInv
<1>2. ASSUME OrchNext, NEW t \in Targets, BypassAlive(t) \/ RouteDead(t) PROVE PastInv'
  BY <1>2, HeartbeatKeeps DEF PastInv
<1>3. CASE UNCHANGED orchvars
  BY <1>1, <1>3 DEF orchvars
<1> QED BY <1>1, <1>2, <1>3, OrchRemembers DEF PastInv

\* When the fixture's boot_to_os is over, and has not raised, the board has been
\* in userland.
Backed ==
    stage = "setup" /\ target = "OS_USERLAND" /\ Idle /\ exc # TRUE
      => visited \cap Userland # {}
BackedInv == Undoubted => Backed

LEMMA BackedInductive ==
  TypeInv /\ FlowInv /\ PastInv /\ OrchInv /\ BackedInv /\ [OrchNext]_orchvars => BackedInv'
<1> SUFFICES ASSUME TypeInv, FlowInv, PastInv, OrchInv, BackedInv, [OrchNext]_orchvars,
                    Undoubted', stage' = "setup", target' = "OS_USERLAND", todo' = <<>>,
                    exc' # TRUE
             PROVE  visited' \cap Userland # {}
  BY DEF BackedInv, Backed, Idle
<1>0. UNCHANGED station
  BY DEF OrchNext, orchvars, histvars, vars
<1>1. Undoubted /\ Backed /\ UserSeen
  BY <1>0 DEF Undoubted, Clean, Autoboot, Faults, BackedInv, PastInv, SeenInv
<1>2. ASSUME UNCHANGED <<todo, exc, orch>> PROVE visited' \cap Userland # {}
  <2>1. visited \cap Userland # {}
    BY <1>1, <1>2 DEF Backed, Idle, orch
  <2>2. visited' = visited
    BY <1>2 DEF OrchNext, Remember, Idle, orchvars, histvars
  <2> QED BY <2>1, <2>2
<1>3. CASE UNCHANGED orchvars
  BY <1>2, <1>3 DEF orchvars, histvars, vars, fsm
<1>4. ASSUME NEW t \in Targets, StartTest(t) PROVE FALSE
  BY <1>4 DEF StartTest, BypassBoot, BypassAlive, RouteDead, RouteTo, Fire, Goes
<1>5. CASE SetupEnds \/ BodyPasses \/ BodyFails \/ EndSession \/ SessionOver
  BY <1>5 DEF SetupEnds, BodyPasses, BodyFails, EndSession, SessionOver, Goes
<1>6. CASE BodyFires \/ (stage = "body" /\ TestBoots /\ UNCHANGED orch)
  BY <1>6 DEF BodyFires, orch
<1>7. CASE OrchNext /\ CallStep /\ UNCHANGED orch
  <2>1. Proceeds
    BY <1>7, CallEnds
  <2>2. At("commit") /\ todo # <<>>
    BY <2>1 DEF Proceeds
  <2>3. op.trig = "boot_to_os"
    BY <1>7, <2>2 DEF orch, OrchInv, Serving, Idle, TriggerFor
  <2>4. visited \cap Userland # {}
    BY <1>1, <2>2, <2>3 DEF UserSeen
  <2>5. visited' = visited \cup {phys'}
    BY <1>7, <2>2 DEF OrchNext, Remember, Idle
  <2> QED BY <2>4, <2>5
<1>8. CASE \/ BoardBoots /\ UNCHANGED orch
           \/ (BoardHangs \/ BoardDropsSsh) /\ UNCHANGED <<fsm, orch>>
  BY <1>2, <1>8 DEF BoardBoots, fsm
<1> QED BY <1>3, <1>4, <1>5, <1>6, <1>7, <1>8 DEF OrchNext, OrchStep

\* Where the framework stops the countdown, U-Boot's copy of bootcmd is the
\* original: the boot command leaves its prompt.
RamInv == Autoboot => ram.bootcmd = "orig"

LEMMA RamInductive == TypeInv /\ FlowInv /\ AutoInv /\ RamInv /\ [Next]_vars => RamInv'
<1> SUFFICES ASSUME TypeInv, FlowInv, AutoInv, RamInv, [Next]_vars, Autoboot
             PROVE  ram'.bootcmd = "orig"
  BY DEF RamInv, Next, vars, Autoboot
<1>u. ASSUME ram' \in {ram, nv} PROVE ram'.bootcmd = "orig"
  BY <1>u DEF RamInv, AutoInv, Trapped
<1>t. ASSUME NEW c \in TrapCalls, At(c) PROVE FALSE
  BY <1>t, TrapHead DEF At, TypeInv, FsmInv, FsmTypeOK, FlowInv
<1>1. CASE UNCHANGED vars
  BY <1>1, <1>u DEF vars, board
<1>2. CASE Client \/ World
  BY <1>2, <1>u DEF Client, Fire, mark_dirty, release_recovery, World, BoardBoots,
       BoardRunsBootcmd, BoardReachesUserland, BoardHangs, BoardDropsSsh, TestBoots, Enter, board
<1>3. CASE Route \/ Commit \/ set_state \/ ProbeStep
  BY <1>3, <1>u DEF Route, Commit, set_state, ProbeStep, AlignSkipped, ProbePower, ProbeNetwork,
       ProbePassive, ProbeActive, ProbeRaises, board
<1>4. CASE do_power_off \/ do_apply_bootstrap \/ do_energize \/ do_hardware_reset \/ recovery_pin
  BY <1>4, <1>u DEF do_power_off, do_apply_bootstrap, do_energize, ApplyPower, do_hardware_reset,
       recovery_pin, Enter, board
<1>5. CASE trap_save \/ trap_set \/ restore_bootcmd \/ restore_prev \/ restore_save
  BY <1>5, <1>t DEF trap_save, trap_set, FwSetenv, restore_bootcmd, restore_prev, UbootRun,
       restore_save, TrapCalls
<1>6. CASE reboot \/ do_soft_reboot \/ boot_cmd
  BY <1>6, <1>u DEF reboot, do_soft_reboot, boot_cmd, BootCmd, Enter, board
<1>7. CASE WaitStep \/ finalize_os_boot \/ ResumeAlive \/ ResumeDead
  BY <1>7, <1>u DEF WaitStep, SnipeAutoboot, wait_uboot, LogIn, InjectBoot, ShellSeen,
       KernelPanic, WaitTimesOut, finalize_os_boot, ResumeAlive, ResumeDead, Enter, board
<1> QED BY <1>1, <1>2, <1>3, <1>4, <1>5, <1>6, <1>7 DEF Next, CallStep

\* A board at its U-Boot prompt is not taken for one in its OS: its old console
\* output shows no shell, but in the wait for the countdown, which flushes it; and
\* a trigger that was fired in OS_USERLAND has stopped the countdown and will
\* report BOOTLOADER, or boots the board on.
NoShell == \A k \in DOMAIN rawq : rawq[k] # "shell"
Leaving ==
    \/ At("wait_uboot") /\ serial
    \/ At("boot_cmd")
    \/ At("commit") /\ op.trig = "boot_to_bootloader"
Told ==
    phys = "uboot" =>
        /\ At("wait_uboot") \/ NoShell
        /\ state = "OS_USERLAND" => Leaving
        /\ At("commit") => op.trig # "boot_to_os"
ToldInv == Sniping => Told

LEMMA ShellQueues ==
  /\ rawq' = rawq => (NoShell' <=> NoShell)
  /\ rawq' = <<>> => NoShell'
  /\ rawq' = <<"uboot">> => NoShell'
<1>1. rawq' = <<>> => NoShell'
  BY DEF NoShell
<1>2. rawq' = <<"uboot">> => NoShell'
  BY DEF NoShell
<1>3. rawq' = rawq => (NoShell' <=> NoShell)
  BY DEF NoShell
<1> QED BY <1>1, <1>2, <1>3

LEMMA ShellTail ==
  ASSUME BoardTypeOK, rawq # <<>>, rawq' = Tail(rawq), NoShell
  PROVE  NoShell' /\ Head(rawq) # "shell"
<1>1. rawq \in Seq(Chunk) /\ DOMAIN rawq = 1 .. Len(rawq) /\ Len(rawq) \in Nat
  BY LenProperties DEF BoardTypeOK
<1>2. /\ Tail(rawq) \in Seq(Chunk) /\ Len(Tail(rawq)) = Len(rawq) - 1
      /\ \A i \in 1 .. Len(Tail(rawq)) : Tail(rawq)[i] = rawq[i + 1]
  BY <1>1, HeadTailProperties
<1>3. Head(rawq) = rawq[1] /\ 1 \in 1 .. Len(rawq)
  BY <1>1, EmptySeq, LenProperties
<1>4. ASSUME NEW k \in DOMAIN rawq' PROVE rawq'[k] # "shell"
  <2>1. k \in 1 .. Len(Tail(rawq))
    BY <1>2, <1>4, LenProperties
  <2>2. k + 1 \in 1 .. Len(rawq) /\ rawq'[k] = rawq[k + 1]
    BY <1>1, <1>2, <2>1
  <2> QED BY <1>1, <2>2 DEF NoShell
<1> QED BY <1>1, <1>3, <1>4 DEF NoShell

\* Whatever happens away from the three calls of Leaving.
LEMMA ToldStays ==
  ASSUME Told, phys' = "uboot" => phys = "uboot",
         rawq' \in {rawq, <<>>, <<"uboot">>} \/ NoShell',
         ~At("wait_uboot"), ~At("boot_cmd"), ~At("commit"),
         state' = state \/ state' # "OS_USERLAND",
         At("commit")' => op'.trig # "boot_to_os"
  PROVE  Told'
<1> SUFFICES ASSUME phys' = "uboot"
             PROVE  NoShell' /\ state' # "OS_USERLAND" /\ (At("commit")' => op'.trig # "boot_to_os")
  BY DEF Told
<1>1. NoShell /\ state # "OS_USERLAND"
  BY DEF Told, Leaving
<1> QED BY <1>1, ShellQueues

LEMMA ToldStep ==
  ASSUME TypeInv, FlowInv, LiveInv, AutoInv, RamInv, LostIsClosed, Sniping, Told, Next
  PROVE  Told'
<1>n. ASSUME phys' # "uboot" PROVE Told'
  BY <1>n DEF Told
<1>f. ASSUME UNCHANGED <<fsm, phys, serial, rawq>> PROVE Told'
  <2>1. NoShell' <=> NoShell
    BY <1>f, ShellQueues
  <2> QED BY <1>f, <2>1 DEF Told, Leaving, At, fsm
<1>b. ASSUME NEW c, At(c), c \notin {"wait_uboot", "boot_cmd", "commit"}, todo' = <<>>,
             phys' = "uboot" => phys = "uboot", state' = state,
             rawq' \in {rawq, <<>>, <<"uboot">>}
      PROVE  Told'
  BY <1>b, ToldStays DEF At
<1>a. ASSUME NEW c, At(c), Return,
             c \notin {"wait_uboot", "boot_cmd", "commit", "route", "finalize", "resume"},
             phys' = "uboot" => phys = "uboot", state' = state \/ state' # "OS_USERLAND",
             rawq' \in {rawq, <<>>, <<"uboot">>} \/ NoShell'
      PROVE  Told'
  <2>1. Tail(todo) # <<>> /\ Follows(op.trig, c, Head(Tail(todo))) /\ c \in Calls
    BY <1>a, NextCall, HeadTailProperties DEF At, TypeInv, FsmInv, FsmTypeOK
  <2>2. Head(Tail(todo)) = "commit" => op.trig # "boot_to_os"
    BY <1>a, <2>1 DEF Follows, Calls
  <2>3. At("commit")' => op'.trig # "boot_to_os"
    BY <1>a, <2>2 DEF At, Return
  <2> QED BY <1>a, <2>3, ToldStays DEF At
<1>i. ASSUME NEW t, NEW c, NEW p, Plan(t, c, p), Instead(p), c # "commit",
             NEW d, At(d), d \notin {"wait_uboot", "boot_cmd", "commit"},
             phys' = "uboot" => phys = "uboot", state' = state,
             rawq' \in {rawq, <<>>, <<"uboot">>}
      PROVE  Told'
  <2>1. ~At("commit")'
    BY <1>i DEF Plan, Instead, At
  <2> QED BY <1>i, <2>1, ToldStays DEF At
<1>e. ASSUME NEW p, Enter(p), p # "uboot" PROVE Told'
  BY <1>e, <1>n DEF Enter
\* No session is open to a board at its prompt.
<1>s. ASSUME NEW c, At(c), c \notin Closing, phys = "uboot" PROVE ssh = "no"
  <2>1. ~Lost
    BY <1>s DEF LostIsClosed, At
  <2>2. ssh \in {"no", "live", "stale"}
    BY DEF TypeInv, BoardTypeOK
  <2> QED BY <1>s, <2>1, <2>2 DEF Lost, LiveInv, Userland
<1>1. CASE Client
  <2>1. CASE mark_dirty
    <3>1. todo = <<>> /\ todo' = <<>> /\ state' = "DIRTY" /\ UNCHANGED <<phys, rawq>>
      BY <2>1 DEF mark_dirty, Idle, board
    <3> QED BY <3>1, ToldStays DEF At
  <2>2. CASE release_recovery
    BY <2>2, <1>f DEF release_recovery
  <2>3. ASSUME NEW t \in Trigger, NEW m \in Mediums, Fire(t, m) PROVE Told'
    <3>1. /\ todo = <<>> /\ ~At("commit")' /\ UNCHANGED <<phys, rawq, state>>
      BY <2>3 DEF Fire, Idle, At, board
    <3> QED BY <3>1, ToldStays DEF At
  <2> QED BY <1>1, <2>1, <2>2, <2>3 DEF Client
<1>2. CASE World
  <2>1. CASE BoardDropsSsh /\ UNCHANGED fsm
    BY <2>1, <1>f DEF BoardDropsSsh
  <2>2. CASE BoardRunsBootcmd
    BY <2>2, <1>e DEF BoardRunsBootcmd, AutoInv, Trapped, Sniping
  <2>3. CASE BoardReachesUserland \/ BoardHangs \/ TestBoots
    BY <2>3, <1>e DEF BoardReachesUserland, BoardHangs, TestBoots, Userland
  <2> QED BY <1>2, <2>1, <2>2, <2>3 DEF World, BoardBoots
<1>3. CASE Route
  <2>1. op.trig \in Trigger /\ state \in DutState
    BY <1>3 DEF Route, At, TypeInv, FsmInv, FsmTypeOK
  <2>2. PICK c \in Calls : Plan(op.trig, c, Callback) /\ Starts(op.trig, c)
    BY <2>1, CallbackPath
  <2>3. /\ todo' # <<>> /\ Head(todo') = c /\ op' = op /\ UNCHANGED <<phys, rawq, state>>
        /\ At("route")
    BY <1>3, <2>2 DEF Route, Instead, Plan, Quiet, board
  <2>4. At("commit")' => op'.trig # "boot_to_os"
    BY <2>2, <2>3 DEF Starts, At
  <2> QED BY <2>3, <2>4, ToldStays DEF At
<1>4. CASE Commit
  <2>1. op.trig \in Trigger /\ At("commit")
    BY <1>4 DEF Commit, At, TypeInv, FsmInv
  <2>2. op.trig # "boot_to_os" => Dest[op.trig] # "OS_USERLAND"
    BY <2>1, TriggerNames DEF Dest
  <2>3. todo' = <<>> /\ state' = Dest[op.trig] /\ UNCHANGED <<phys, rawq>>
    BY <1>4 DEF Commit, board
  <2> QED BY <2>1, <2>2, <2>3, ShellQueues DEF Told, At
<1>5. CASE set_state
  BY <1>5, <1>a DEF set_state, board
<1>6. CASE ProbeStep
  <2>1. At("align") /\ UNCHANGED phys
    BY <1>6 DEF ProbeStep, AlignSkipped, ProbePower, ProbeNetwork, ProbePassive,
         ProbeActive, ProbeRaises, board
  <2>2. CASE ProbeRaises
    BY <1>b, <2>1, <2>2 DEF ProbeRaises, Raise, board
  <2>3. CASE AlignSkipped \/ ProbePower
    BY <1>a, <2>1, <2>3 DEF AlignSkipped, ProbePower, Align, board
  <2>4. CASE ProbeNetwork
    <3>1. phys # "uboot"
      BY <1>s, <2>1, <2>4 DEF ProbeNetwork, Closing, Userland
    <3> QED BY <1>n, <2>1, <3>1
  <2>5. CASE ProbePassive
    <3> SUFFICES ASSUME phys = "uboot" PROVE Told'
      BY <1>n, <2>1
    <3>1. NoShell
      BY <2>1 DEF Told, At
    <3>2. NoShell' /\ Head(rawq) # "shell"
      BY <2>5, <3>1, ShellTail DEF ProbePassive, TypeInv
    <3>3. Return /\ state' # "OS_USERLAND"
      BY <2>5, <3>2 DEF ProbePassive, Align
    <3> QED BY <1>a, <2>1, <3>2, <3>3
  <2>6. CASE ProbeActive
    <3>1. Return /\ rawq' = <<>> /\ (phys = "uboot" => state' # "OS_USERLAND")
      BY <2>6 DEF ProbeActive, ActiveAnswers, Align
    <3> QED BY <1>a, <1>n, <2>1, <3>1
  <2> QED BY <1>6, <2>2, <2>3, <2>4, <2>5, <2>6 DEF ProbeStep
<1>7. CASE do_power_off
  BY <1>7, <1>a, <1>b DEF do_power_off, Quiet, Raise
<1>8. CASE do_apply_bootstrap \/ recovery_pin
  BY <1>8, <1>a, <1>b DEF do_apply_bootstrap, SetMedium, recovery_pin, Quiet, Raise
<1>9. CASE do_energize
  <2>1. /\ At("energize") /\ UNCHANGED state /\ rawq' \in {rawq, <<>>}
        /\ phys' = "uboot" => phys = "uboot"
    BY <1>9 DEF do_energize, ApplyPower, WakeUp, rebind_serial_port, Quiet, Raise
  <2> QED BY <1>9, <1>a, <1>b, <2>1 DEF do_energize, rebind_serial_port, Raise
<1>10. CASE do_hardware_reset
  <2>1. CASE Enter(WakeUp)
    BY <1>e, <2>1 DEF WakeUp
  <2>2. CASE ~Powered /\ UNCHANGED board
    BY <1>n, <2>2 DEF Powered, board
  <2>3. CASE Instead(<<"power_off", "energize">> \o Tail(todo)) /\ UNCHANGED board
    <3>1. At("reset") /\ UNCHANGED state
      BY <1>10 DEF do_hardware_reset, Quiet, Raise
    <3> QED BY <1>i, <2>3, <3>1, ResetPath DEF board
  <2>4. CASE Raise /\ UNCHANGED board
    BY <1>10, <1>b, <2>4 DEF do_hardware_reset, Raise, board
  <2> QED BY <1>10, <2>1, <2>2, <2>3, <2>4 DEF do_hardware_reset
<1>11. CASE trap_save \/ trap_set \/ restore_bootcmd \/ restore_prev \/ restore_save
  BY <1>11, <1>a, <1>b DEF trap_save, trap_set, FwSetenv, restore_bootcmd, restore_prev, UbootRun,
       restore_save, Quiet, Raise
<1>12. CASE reboot
  <2>1. At("reboot") /\ Return /\ state' = state /\ (phys' = "spl" \/ UNCHANGED <<phys, rawq>>)
    BY <1>12 DEF reboot, Quiet
  <2> QED BY <1>a, <1>n, <2>1
<1>13. CASE do_soft_reboot
  <2>1. CASE Enter("spl")
    BY <1>e, <2>1
  <2>2. CASE UNCHANGED board
    BY <1>13, <2>2, <1>a, <1>b DEF do_soft_reboot, Quiet, Raise, board
  <2> QED BY <1>13, <2>1, <2>2 DEF do_soft_reboot
<1>14. CASE boot_cmd
  <2>1. ram.bootcmd = "orig"
    BY DEF RamInv, Sniping
  <2> QED BY <1>14, <2>1, <1>n DEF boot_cmd, BootCmd
<1>15. CASE SnipeAutoboot
  <2>1. At("wait_uboot")' /\ serial'
    BY <1>15 DEF SnipeAutoboot, Enter, fsm, At
  <2> QED BY <2>1 DEF Told, Leaving, At
<1>16. CASE wait_uboot
  <2> SUFFICES ASSUME phys = "uboot" PROVE Told'
    BY <1>16, <1>n DEF wait_uboot
  <2>1. At("wait_uboot") /\ UNCHANGED <<phys, serial>>
    BY <1>16 DEF wait_uboot
  <2>2. CASE rawq' = <<"uboot">> /\ Return
    <3>1. /\ todo' # <<>> /\ op' = op
          /\ Head(todo') = "boot_cmd" \/ (Head(todo') = "commit" /\ op.trig = "boot_to_bootloader")
      BY <2>1, <2>2, NextCall DEF Return, Follows
    <3> QED BY <2>2, <3>1, ShellQueues DEF Told, Leaving, At
  <2>3. CASE rawq' = <<>> /\ Raise /\ ~serial
    <3>1. state # "OS_USERLAND"
      BY <2>1, <2>3 DEF Told, Leaving, At
    <3> QED BY <2>3, <3>1, ShellQueues DEF Told, Raise, At
  <2> QED BY <1>16, <2>2, <2>3 DEF wait_uboot, TimesOut, Sniping
<1>17. CASE LogIn \/ InjectBoot
  BY <1>17, <1>e DEF LogIn, InjectBoot
<1>18. CASE ShellSeen \/ KernelPanic
  BY <1>18, <1>n DEF ShellSeen, KernelPanic, board
<1>19. CASE WaitTimesOut
  <2>1. UNCHANGED <<phys, rawq, state>>
    BY <1>19 DEF WaitTimesOut, Raise, Quiet, board
  <2>2. CASE At("wait_os") /\ Raise
    BY <1>b, <2>1, <2>2 DEF Raise
  <2>3. CASE /\ At("hot_wait")
             /\ Instead(<<"reset", "set_dirty", "power_off", "strap">> \o cold_boot_to_os)
    BY <1>i, <2>1, <2>3, OsPlans
  <2> QED BY <1>19, <2>2, <2>3 DEF WaitTimesOut
<1>20. CASE finalize_os_boot
  <2> SUFFICES ASSUME phys = "uboot" PROVE Told'
    BY <1>20, <1>n DEF finalize_os_boot
  <2>1. At("finalize") /\ UNCHANGED <<phys, rawq>> /\ Raise
    BY <1>20, <1>s DEF finalize_os_boot, SshAnswers, Userland, Closing
  <2> QED BY <1>b, <2>1 DEF Raise
<1>21. CASE ResumeAlive \/ ResumeDead
  <2> SUFFICES ASSUME phys = "uboot" PROVE Told'
    BY <1>21, <1>n DEF ResumeAlive, ResumeDead
  <2>1. At("resume") /\ UNCHANGED <<phys, state>> /\ rawq' \in {rawq, <<>>, <<"uboot">>}
    BY <1>21 DEF ResumeAlive, ResumeDead, Quiet, Prints
  <2> QED BY <1>21, <1>i, <2>1, OtherPlans DEF ResumeAlive, ResumeDead
<1> QED BY <1>1, <1>2, <1>3, <1>4, <1>5, <1>6, <1>7, <1>8, <1>9, <1>10, <1>11, <1>12, <1>13,
           <1>14, <1>15, <1>16, <1>17, <1>18, <1>19, <1>20, <1>21
        DEF Next, CallStep, WaitStep

LEMMA ToldInductive ==
  TypeInv /\ FlowInv /\ PastInv /\ RamInv /\ ToldInv /\ [OrchNext]_orchvars
    => RamInv' /\ ToldInv'
<1> SUFFICES ASSUME TypeInv, FlowInv, PastInv, RamInv, ToldInv, [OrchNext]_orchvars
             PROVE  RamInv' /\ ToldInv'
  OBVIOUS
<1>0. UNCHANGED station /\ (Sniping' <=> Sniping)
  BY DEF OrchNext, orchvars, histvars, vars, Sniping, Autoboot, Faults
<1>1. CASE UNCHANGED vars
  <2>1. NoShell' <=> NoShell
    BY <1>1, ShellQueues DEF vars, board
  <2> QED BY <1>0, <1>1, <2>1 DEF vars, board, fsm, RamInv, ToldInv, Told, Leaving, At, Autoboot
<1>2. CASE Next
  <2>1. RamInv'
    BY <1>2, RamInductive DEF PastInv
  <2>2. ASSUME Sniping PROVE Told'
    <3>1. LiveInv /\ AutoInv /\ LostIsClosed /\ Told
      BY <2>2 DEF PastInv, LostInv, Undoubted, Sniping, ToldInv
    <3> QED BY <1>2, <2>2, <3>1, ToldStep
  <2> QED BY <1>0, <2>1, <2>2 DEF ToldInv
<1>3. ASSUME OrchNext, NEW t \in Targets, BypassAlive(t) \/ RouteDead(t)
      PROVE  RamInv' /\ ToldInv'
  <2>1. /\ todo = <<>> /\ UNCHANGED <<station, phys, ram>>
        /\ state' = state \/ state' = "DIRTY"
        /\ rawq' \in {rawq, <<>>, <<Prints(phys)>>}
        /\ ~At("commit")'
    BY <1>3, HeartbeatEffect DEF fsm, At
  <2>2. RamInv'
    BY <2>1 DEF RamInv, Autoboot
  <2>3. ASSUME Sniping PROVE Told'
    <3>1. CASE phys = "uboot"
      <4>1. rawq' \in {rawq, <<>>, <<"uboot">>} /\ Told
        BY <2>1, <2>3, <3>1 DEF Prints, ToldInv
      <4> QED BY <2>1, <4>1, ToldStays DEF At
    <3>2. CASE phys # "uboot"
      BY <2>1, <3>2 DEF Told
    <3> QED BY <3>1, <3>2
  <2> QED BY <1>0, <2>2, <2>3 DEF ToldInv
<1> QED BY <1>1, <1>2, <1>3, OrchSteps DEF orchvars, histvars

\* A test marked OS_USERLAND starts on a live board.  When enforce_physical_state
\* ran boot_to_os for it, the board has been in userland since the trigger was
\* fired; when it only called verify_heartbeat, the board is in userland, although
\* a U-Boot prompt would have echoed the heartbeat as well: no board is at that
\* prompt, between triggers, while the machine is in OS_USERLAND.  Whatever the
\* tests before it did and in whatever the board was left; for every station and
\* fault under the conditions OsBodyIsAlive names.
THEOREM OsTestsStartAlive == OrchSpec => OsBodyIsAlive
<1>1. OrchInit => /\ HistInit /\ Init /\ OrchInv /\ BackedInv /\ RamInv /\ ToldInv
  <2> SUFFICES ASSUME OrchInit
               PROVE  HistInit /\ Init /\ OrchInv /\ BackedInv /\ RamInv /\ ToldInv
    OBVIOUS
  <2>1. HistInit /\ Init /\ stage = "idle"
    BY DEF OrchInit, HistInit
  <2>2. ram.bootcmd = "orig" /\ rawq = <<>> /\ state = "DIRTY" /\ todo = <<>>
    BY <2>1 DEF Init, BoardInit
  <2>3. ToldInv
    BY <2>2 DEF ToldInv, Told, NoShell, At
  <2> QED BY <2>1, <2>2, <2>3 DEF OrchInv, BackedInv, Backed, RamInv
<1>2. Init /\ HistInit => PastInv
  BY SeenInitially, TrapInitially DEF PastInv
<1>3. TypeInv /\ PastInv /\ OrchInv /\ BackedInv /\ ToldInv /\ [OrchNext]_orchvars
        => [StartsBody /\ target' = "OS_USERLAND"
              => IF stage = "setup" THEN Undoubted => visited \cap Userland # {}
                 ELSE Sniping => phys \in Userland]_orchvars
  <2> SUFFICES ASSUME PastInv, BackedInv, ToldInv, OrchNext, StartsBody,
                      target' = "OS_USERLAND"
               PROVE  IF stage = "setup" THEN Undoubted => visited \cap Userland # {}
                      ELSE Sniping => phys \in Userland
    OBVIOUS
  <2>1. ASSUME NEW t \in Targets, StartTest(t)
        PROVE  stage # "setup" /\ (Sniping => phys \in Userland)
    <3>1. t = "OS_USERLAND" /\ BypassAlive(t)
      BY <2>1 DEF StartTest, BypassBoot, BypassAlive, RouteDead, RouteTo, Goes, StartsBody,
           RoutedStates
    <3>2. stage = "idle" /\ todo = <<>> /\ state = "OS_USERLAND" /\ HeartbeatOk
      BY <3>1 DEF BypassAlive, BetweenTests, Idle
    <3>3. CASE SshHeartbeat
      BY <3>2, <3>3 DEF SshHeartbeat, SshAnswers, PastInv, LiveInv
    <3>4. CASE ConsoleEchoes
      <4>1. Sniping => phys # "uboot"
        BY <3>2 DEF ToldInv, Told, Leaving, At
      <4> QED BY <3>2, <3>4, <4>1 DEF ConsoleEchoes, Userland
    <3> QED BY <3>2, <3>3, <3>4 DEF HeartbeatOk
  <2>2. CASE SetupEnds
    <3>1. stage = "setup" /\ Idle /\ target' = target /\ stage' = "body"
      BY <2>2 DEF SetupEnds, Goes, StartsBody
    <3>2. exc # TRUE
      BY <2>2, <3>1, Zenon DEF SetupEnds, Goes
    <3> QED BY <3>1, <3>2 DEF BackedInv, Backed
  <2>3. ~(BodyFires \/ BodyPasses \/ BodyFails \/ EndSession \/ SessionOver)
    BY DEF BodyFires, BodyPasses, BodyFails, EndSession, SessionOver, Goes, StartsBody, orch
  <2>4. stage' # stage
    BY DEF StartsBody
  <2> QED BY <2>1, <2>2, <2>3, <2>4 DEF OrchNext, OrchStep, orch
<1> QED BY <1>1, <1>2, <1>3, TypeInitially, FlowInitially, OrchTyped, OrchInductive, PastInductive,
           BackedInductive, ToldInductive, PTL
        DEF OrchSpec, OsBodyIsAlive
==============================================================================
