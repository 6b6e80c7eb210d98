-------------------------- MODULE BenchPowerProofs --------------------------
(* Proofs about BenchPower, for any station, voltage, current and step.     *)
EXTENDS BenchPower, SequenceTheorems, TLAPS

(* The calls of the operations are calls                                    *)

LEMMA OpType ==
  ASSUME NEW d \in {"on", "off", "open", "close", "measure", "trip", "try"}
  PROVE  Op(d) \in Call
  BY DEF Op, Call

LEMMA MeasureType == \A a \in Nat : MeasureAgainst(a) \in Call
  BY DEF MeasureAgainst, Call

LEMMA VoltType == \A v \in Nat : Volt(v) \in Call /\ Amp(v) \in Call
  BY DEF Volt, Amp, Call

LEMMA NoCalls == <<>> \in Seq(Call)
  BY EmptySeq

LEMMA SetupType ==
  ASSUME rig \in Rigs
  PROVE  Setup \in Seq(Call)
<1>1. rig.preset \in Nat /\ DefaultA \in Nat
  BY PowerAssumption DEF Rig
<1> QED BY <1>1, OpType, VoltType DEF Setup

LEMMA ExitType == Teardown \in Seq(Call) /\ ExitCalls \in Seq(Call) /\ <<Op("off")>> \in Seq(Call)
  BY OpType, VoltType DEF Teardown, ExitCalls

LEMMA RampType ==
  ASSUME NEW t \in Nat
  PROVE  Ramp(t) \in Seq(Call)
<1>1. t \div 2 \in Nat
  OBVIOUS
<1>2. [i \in 1 .. t \div 2 |-> Volt(2 * i)] \in Seq(Call)
  BY <1>1, VoltType
<1>3. <<Volt(t)>> \in Seq(Call)
  BY VoltType
<1> QED BY <1>2, <1>3 DEF Ramp

LEMMA EnterType ==
  ASSUME NEW t \in Nat, NEW a \in Nat
  PROVE  ControllerEnter(t, a) \in Seq(Call) /\ ShmooEnter(t, a) \in Seq(Call)
<1>1. <<Amp(a), Volt(0), Op("on")>> \in Seq(Call) /\ <<Amp(a), Volt(t), Op("on")>> \in Seq(Call)
  BY VoltType, OpType
<1>2. <<MeasureAgainst(a)>> \in Seq(Call)
  BY MeasureType
<1> QED BY <1>1, <1>2, RampType DEF ControllerEnter, ShmooEnter

\* The last step of a sweep does not pass its end.
LEMMA StepsWithin ==
  ASSUME NEW d \in Nat, NEW s \in Nat \ {0}, NEW i \in 1 .. (d \div s) + 1
  PROVE  (i - 1) * s \in 0 .. d
<1> DEFINE q == d \div s
<1>1. q \in Nat /\ q * s <= d
  OBVIOUS
<1> HIDE DEF q
<1>2. i - 1 \in Nat /\ i - 1 <= q
  BY <1>1 DEF q
<1>3. (i - 1) * s <= q * s /\ (i - 1) * s \in Nat
  BY <1>1, <1>2
<1>4. q * s \in Nat
  BY <1>1
<1> QED BY <1>1, <1>3, <1>4

LEMMA PointsType ==
  ASSUME NEW x \in Nat, NEW y \in Nat, NEW s \in Nat \ {0}
  PROVE  Points(x, y, s) \in Seq(Nat)
<1>1. CASE x <= y
  <2>1. y - x \in Nat /\ (y - x) \div s \in Nat
    BY <1>1
  <2>2. ASSUME NEW i \in 1 .. ((y - x) \div s) + 1 PROVE x + (i - 1) * s \in Nat
    BY <2>1, StepsWithin
  <2> QED BY <1>1, <2>1, <2>2 DEF Points
<1>2. CASE ~(x <= y)
  <2>1. x - y \in Nat /\ (x - y) \div s \in Nat
    BY <1>2
  <2>2. ASSUME NEW i \in 1 .. ((x - y) \div s) + 1 PROVE x - (i - 1) * s \in Nat
    <3>1. (i - 1) * s \in 0 .. x - y
      BY <2>1, StepsWithin
    <3> QED BY <3>1
  <2> QED BY <1>2, <2>1, <2>2 DEF Points
<1> QED BY <1>1, <1>2

LEMMA SweepType ==
  ASSUME NEW x \in Nat, NEW y \in Nat, NEW s \in Nat \ {0}
  PROVE  VoltSweep(x, y, s) \in Seq(Call) /\ AmpSweep(x, y, s) \in Seq(Call)
<1> DEFINE p == Points(x, y, s)
<1>1. p \in Seq(Nat)
  BY PointsType
<1>2. /\ DOMAIN p = 1 .. Len(p) /\ Len(p) \in Nat
      /\ \A i \in DOMAIN p : p[i] \in Nat
  BY <1>1
<1>3. /\ [i \in DOMAIN p |-> Volt(p[i])] \in Seq(Call)
      /\ [i \in DOMAIN p |-> Amp(p[i])] \in Seq(Call)
  BY <1>2, VoltType
<1> QED BY <1>3 DEF VoltSweep, AmpSweep
-----------------------------------------------------------------------------
(* Type correctness                                                         *)

LEMMA TodoType ==
  ASSUME TypeOKPower, todo # <<>>
  PROVE  /\ Tail(todo) \in Seq(Call)
         /\ Head(todo) \in Call /\ Arg \in Nat
<1>1. Tail(todo) \in Seq(Call) /\ Head(todo) \in Call
  BY HeadTailProperties DEF TypeOKPower
<1>2. Arg \in Nat
  BY <1>1 DEF Call, Arg
<1> QED BY <1>1, <1>2

LEMMA ReturnsType ==
  ASSUME TypeOKPower, todo # <<>>, Returns
  PROVE  /\ at' \in Place /\ todo' \in Seq(Call) /\ ctx' \in Context
         /\ tries' \in 0 .. 2 /\ halt' \in BOOLEAN
  BY TodoType DEF TypeOKPower, Returns

\* Unwinding leads from every place to a place, with the calls to make there;
\* connect is tried three times at most.
LEMMA UnwindType ==
  ASSUME TypeOKPower, NEW stopping \in BOOLEAN, Unwind(stopping)
  PROVE  /\ at' \in Place /\ todo' \in Seq(Call) /\ ctx' \in Context
         /\ tries' \in 0 .. 2 /\ halt' \in BOOLEAN
<1>1. halt' \in BOOLEAN /\ ctx' \in Context
  BY DEF TypeOKPower, Unwind
<1>2. tries' \in 0 .. 2
  BY DEF TypeOKPower, Unwind, Goes
<1>3. at' \in Place /\ todo' \in Seq(Call)
  BY SetupType, ExitType, NoCalls DEF TypeOKPower, Unwind, Goes, Place
<1> QED BY <1>1, <1>2, <1>3

LEMMA CallTyped ==
  ASSUME TypeOKPower, CallStep, UNCHANGED rig
  PROVE  TypeOKPower'
<1>1. CASE Open
  <2>1. todo # <<>> /\ Returns
    BY <1>1 DEF Open, At
  <2> QED BY <1>1, <2>1, ReturnsType DEF Open, TypeOKPower, supply, estop
<1>2. CASE SetVoltage
  <2>1. todo # <<>> /\ (Returns \/ Unwind(FALSE))
    BY <1>2 DEF SetVoltage, At, Raises
  <2>2. volts' \in Nat
    BY <1>2, <2>1, TodoType DEF SetVoltage, TypeOKPower
  <2> QED BY <1>2, <2>1, <2>2, ReturnsType, UnwindType DEF SetVoltage, TypeOKPower, estop
<1>3. CASE SetCurrent
  <2>1. todo # <<>> /\ (Returns \/ Unwind(FALSE))
    BY <1>3 DEF SetCurrent, At, Raises
  <2>2. amps' \in Nat
    BY <1>3, <2>1, TodoType DEF SetCurrent, TypeOKPower
  <2> QED BY <1>3, <2>1, <2>2, ReturnsType, UnwindType DEF SetCurrent, TypeOKPower, estop
<1>4. CASE Switch
  <2>1. todo # <<>> /\ Returns /\ out' \in BOOLEAN
    BY <1>4 DEF Switch, At
  <2> QED BY <1>4, <2>1, ReturnsType DEF Switch, TypeOKPower, estop
<1>5. CASE Close
  <2>1. todo # <<>> /\ Returns
    BY <1>5 DEF Close, At
  <2> QED BY <1>5, <2>1, ReturnsType DEF Close, TypeOKPower, supply, estop
<1>6. CASE Measure
  <2>1. <<Op("off"), Op("trip")>> \in Seq(Call)
    BY OpType
  <2>2. /\ at' \in Place /\ todo' \in Seq(Call) /\ ctx' \in Context
        /\ tries' \in 0 .. 2 /\ halt' \in BOOLEAN
    <3>1. CASE Returns
      BY <1>6, <3>1, ReturnsType DEF Measure, At
    <3>2. CASE todo' = <<Op("off"), Op("trip")>> /\ UNCHANGED <<at, ctx, tries, halt>>
      BY <2>1, <3>2 DEF TypeOKPower
    <3> QED BY <1>6, <3>1, <3>2 DEF Measure
  <2> QED BY <1>6, <2>2 DEF Measure, TypeOKPower, supply, estop
<1>7. CASE Trip
  <2>1. Unwind(FALSE)
    BY <1>7 DEF Trip, Raises
  <2> QED BY <1>7, <2>1, UnwindType DEF Trip, TypeOKPower, supply, estop
<1> QED BY <1>1, <1>2, <1>3, <1>4, <1>5, <1>6, <1>7 DEF CallStep

LEMMA BeginsType ==
  ASSUME TypeOKPower, UNCHANGED rig, NEW p \in Place, NEW calls \in Seq(Call),
         NEW c \in Context, Begins(p, calls, c)
  PROVE  TypeOKPower'
  BY DEF Begins, Goes, TypeOKPower, supply, estop

LEMMA TestTyped ==
  ASSUME TypeOKPower, TestStep, UNCHANGED rig
  PROVE  TypeOKPower'
<1>1. CASE EnterController
  <2>1. PICK t \in Volts, a \in Amps : Begins("enter", ControllerEnter(t, a), "controller")
    BY <1>1 DEF EnterController
  <2>2. t \in Nat /\ a \in Nat
    BY PowerAssumption
  <2> QED BY <2>1, <2>2, EnterType, BeginsType DEF Place, Context
<1>2. CASE EnterShmoo
  <2>1. PICK t \in Volts, a \in Amps : Begins("enter", ShmooEnter(t, a), "shmoo")
    BY <1>2 DEF EnterShmoo
  <2>2. t \in Nat /\ a \in Nat
    BY PowerAssumption
  <2> QED BY <2>1, <2>2, EnterType, BeginsType DEF Place, Context
<1>3. CASE SweepVoltage
  <2>1. PICK x \in Volts, y \in Volts, s \in Steps, a \in Amps :
          Begins("sweep_on", <<Amp(a), Volt(x), Op("on"), Op("try")>> \o VoltSweep(x, y, s), "none")
    BY <1>3 DEF SweepVoltage
  <2>2. x \in Nat /\ y \in Nat /\ s \in Nat \ {0} /\ a \in Nat
    BY PowerAssumption
  <2>3. <<Amp(a), Volt(x), Op("on"), Op("try")>> \in Seq(Call)
    BY <2>2, OpType, VoltType
  <2>4. <<Amp(a), Volt(x), Op("on"), Op("try")>> \o VoltSweep(x, y, s) \in Seq(Call)
    BY <2>2, <2>3, SweepType
  <2> QED BY <2>1, <2>4, BeginsType DEF Place, Context
<1>4. CASE SweepCurrent
  <2>1. PICK x \in Amps, y \in Amps, s \in Steps, v \in Volts :
          Begins("sweep_on", <<Volt(v), Amp(x), Op("on"), Op("try")>> \o AmpSweep(x, y, s), "none")
    BY <1>4 DEF SweepCurrent
  <2>2. x \in Nat /\ y \in Nat /\ s \in Nat \ {0} /\ v \in Nat
    BY PowerAssumption
  <2>3. <<Volt(v), Amp(x), Op("on"), Op("try")>> \in Seq(Call)
    BY <2>2, OpType, VoltType
  <2>4. <<Volt(v), Amp(x), Op("on"), Op("try")>> \o AmpSweep(x, y, s) \in Seq(Call)
    BY <2>2, <2>3, SweepType
  <2> QED BY <2>1, <2>4, BeginsType DEF Place, Context
<1>5. CASE SweepTry
  BY <1>5, TodoType DEF SweepTry, At, Goes, TypeOKPower, Place, supply, estop
<1>6. CASE ShmooSweep
  <2>1. PICK x \in Volts, y \in Volts, s \in Steps : todo' = VoltSweep(x, y, s)
    BY <1>6 DEF ShmooSweep
  <2>2. x \in Nat /\ y \in Nat /\ s \in Nat \ {0}
    BY PowerAssumption
  <2> QED BY <1>6, <2>1, <2>2, SweepType DEF ShmooSweep, TypeOKPower, supply, estop
<1> QED BY <1>1, <1>2, <1>3, <1>4, <1>5, <1>6 DEF TestStep

LEMMA RaisingTyped ==
  ASSUME TypeOKPower, CallRaises \/ TestFails \/ DownloadFails \/ Interrupted, UNCHANGED rig
  PROVE  TypeOKPower'
<1>1. \E stopping \in BOOLEAN : Unwind(stopping)
  BY DEF CallRaises, TestFails, DownloadFails, Interrupted, Raises
<1>2. /\ at' \in Place /\ todo' \in Seq(Call) /\ ctx' \in Context
      /\ tries' \in 0 .. 2 /\ halt' \in BOOLEAN
  BY <1>1, UnwindType
<1> QED BY <1>2 DEF CallRaises, TestFails, DownloadFails, Interrupted, TypeOKPower, supply, estop

LEMMA ProceedsTyped ==
  ASSUME TypeOKPower, Proceeds, UNCHANGED rig
  PROVE  TypeOKPower'
<1>1. at' \in Place /\ todo' \in Seq(Call)
  BY ExitType, NoCalls DEF Proceeds, Goes, Place
<1>2. ctx' \in Context
  BY DEF Proceeds, TypeOKPower, Context
<1> QED BY <1>1, <1>2 DEF Proceeds, TypeOKPower, supply, estop

\* What the watchdog's counter needs: a thread that still polls has not yet
\* counted MaxErrors errors in a row.
StillCounting == est = "poll" => errs < MaxErrors

LEMMA OthersTyped ==
  ASSUME TypeOKPower, StillCounting, WatchStep \/ Start \/ Press, UNCHANGED rig
  PROVE  TypeOKPower'
<1>1. CASE Poll
  <2>1. errs' \in 0 .. MaxErrors
    BY <1>1 DEF Poll, MaxErrors
  <2>2. sig' \in BOOLEAN
    BY <1>1 DEF Poll, TypeOKPower
  <2>3. est' \in {"off", "poll", "sent"}
    BY <1>1 DEF Poll, TypeOKPower
  <2> QED BY <1>1, <2>1, <2>2, <2>3 DEF Poll, TypeOKPower, supply, main
<1>2. CASE PollFails
  <2>1. errs' \in 0 .. MaxErrors
    BY <1>2 DEF PollFails, TypeOKPower, StillCounting, MaxErrors
  <2>2. sig' \in BOOLEAN
    BY <1>2 DEF PollFails, TypeOKPower
  <2>3. est' \in {"off", "poll", "sent"}
    BY <1>2 DEF PollFails, TypeOKPower
  <2> QED BY <1>2, <2>1, <2>2, <2>3 DEF PollFails, TypeOKPower, supply, main
<1>3. CASE HardKill
  BY <1>3, NoCalls DEF HardKill, Goes, TypeOKPower, Place, supply
<1>4. CASE Start
  <2>1. est' \in {"off", "poll", "sent"}
    BY <1>4 DEF Start
  <2>2. errs' \in 0 .. MaxErrors /\ tries' \in 0 .. 2 /\ cap' \in {MaxVoltage, DefaultCap}
    BY <1>4 DEF Start, MaxErrors
  <2>3. at' \in Place /\ todo' \in Seq(Call) /\ ctx' \in Context
    BY <1>4, SetupType DEF Start, Goes, Place, Context, TypeOKPower
  <2> QED BY <1>4, <2>1, <2>2, <2>3 DEF Start, TypeOKPower, supply
<1>5. CASE Press
  BY <1>5 DEF Press, TypeOKPower, supply, main
<1> QED BY <1>1, <1>2, <1>3, <1>4, <1>5 DEF WatchStep

LEMMA Counting ==
  ASSUME TypeOKPower, StillCounting, [Next]_vars
  PROVE  StillCounting'
<1>1. CASE MainStep
  <2>1. UNCHANGED <<est, errs>>
    <3>1. CASE CallStep
      BY <3>1 DEF CallStep, Open, SetVoltage, SetCurrent, Switch, Close, Measure, Trip, estop
    <3>2. CASE TestStep
      BY <3>2 DEF TestStep, EnterController, EnterShmoo, SweepVoltage, SweepCurrent, SweepTry,
                  ShmooSweep, Begins, estop
    <3>3. CASE CallRaises \/ TestFails \/ DownloadFails \/ Proceeds \/ Interrupted
      BY <3>3 DEF CallRaises, TestFails, DownloadFails, Proceeds, Interrupted, estop
    <3> QED BY <1>1, <3>1, <3>2, <3>3 DEF MainStep
  <2> QED BY <2>1 DEF StillCounting
<1>2. CASE Poll
  BY <1>2 DEF Poll, StillCounting, MaxErrors
<1>3. CASE PollFails
  BY <1>3 DEF PollFails, GivesUp, StillCounting, TypeOKPower, MaxErrors
<1>4. CASE HardKill
  BY <1>4 DEF HardKill, StillCounting
<1>5. CASE Start
  BY <1>5 DEF Start, StillCounting, MaxErrors
<1>6. CASE Press
  BY <1>6 DEF Press, StillCounting
<1>7. CASE UNCHANGED vars
  BY <1>7 DEF vars, estop, StillCounting
<1> QED BY <1>1, <1>2, <1>3, <1>4, <1>5, <1>6, <1>7 DEF Next, WatchStep

\* Every state of every station is well typed: whatever is interrupted, the
\* main thread has calls to make that its place knows, connect gives up after
\* three attempts and the watchdog after three errors.
THEOREM TypeCorrect == Spec => []TypeOKPower
<1>1. Init => TypeOKPower /\ StillCounting
  <2> SUFFICES ASSUME Init PROVE TypeOKPower /\ StillCounting
    OBVIOUS
  <2>1. /\ volts \in Nat /\ amps \in Nat /\ tries \in 0 .. 2 /\ errs \in 0 .. MaxErrors
        /\ StillCounting
    BY DEF Init, StillCounting, MaxErrors
  <2>2. todo \in Seq(Call)
    BY NoCalls DEF Init
  <2>3. /\ rig \in Rigs /\ cap \in {MaxVoltage, DefaultCap} /\ at \in Place
        /\ ctx \in Context /\ est \in {"off", "poll", "sent"}
    BY DEF Init, Place, Context
  <2>4. /\ out \in BOOLEAN /\ halt \in BOOLEAN /\ sig \in BOOLEAN /\ pressed \in BOOLEAN
    BY DEF Init
  <2> QED BY <2>1, <2>2, <2>3, <2>4 DEF TypeOKPower
<1>2. TypeOKPower /\ StillCounting /\ [Next]_vars => (TypeOKPower /\ StillCounting)'
  <2> SUFFICES ASSUME TypeOKPower, StillCounting, [Next]_vars
               PROVE  TypeOKPower' /\ StillCounting'
    OBVIOUS
  <2>1. CASE UNCHANGED vars
    BY <2>1, Counting DEF vars, supply, main, estop, TypeOKPower
  <2>2. CASE Next
    BY <2>2, Counting, CallTyped, TestTyped, RaisingTyped, ProceedsTyped, OthersTyped
       DEF Next, MainStep
  <2> QED BY <2>1, <2>2
<1> QED BY <1>1, <1>2, PTL DEF Spec
-----------------------------------------------------------------------------
(* The rating of a DPS150                                                   *)

Rated == ~Scpi /\ "badread" \notin Upsets

\* Inductive: until connect has read the rating, the first call of a session
\* is still to be made, so that nothing is checked against DefaultCap.
Unasked ==
    \/ at = "over" /\ todo = <<>>
    \/ at = "setup" /\ todo = <<Op("open"), Volt(rig.preset), Amp(DefaultA)>>
RatingInv == Rated => volts <= MaxVoltage /\ (cap = MaxVoltage \/ Unasked)

LEMMA UnaskedCalls ==
  ASSUME Unasked, NEW d, At(d)
  PROVE  d = "open"
  BY DEF Unasked, At, Op

\* An exception before the rating is known ends the session.
LEMMA UnaskedUnwinds ==
  ASSUME Rated, Unasked, NEW stopping, Unwind(stopping), at # "over"
  PROVE  Unasked'
  BY DEF Unasked, Unwind, Goes, Rated

LEMMA RatingStep ==
  ASSUME TypeOKPower, RatingInv, [Next]_vars
  PROVE  RatingInv'
<1> SUFFICES ASSUME Rated' PROVE volts' <= MaxVoltage /\ (cap' = MaxVoltage \/ Unasked')
  BY DEF RatingInv
<1>0. UNCHANGED rig
  BY DEF Next, vars
<1>1. Rated /\ volts <= MaxVoltage /\ (cap = MaxVoltage \/ Unasked)
  BY <1>0 DEF RatingInv, Rated, Scpi, Upsets
<1>2. volts \in Int /\ MaxVoltage \in Int
  BY PowerAssumption DEF TypeOKPower
<1>a. CASE Open
  BY <1>a, <1>1 DEF Open, Rated, supply
<1>b. CASE SetVoltage
  <2>1. cap = MaxVoltage
    BY <1>b, <1>1, UnaskedCalls DEF SetVoltage
  <2> QED BY <1>b, <1>1, <2>1 DEF SetVoltage, InRange, Rated
<1>c. CASE SetCurrent \/ Switch \/ Close \/ Measure
  <2>1. UNCHANGED <<volts, cap>>
    BY <1>c DEF SetCurrent, Switch, Close, Measure, supply
  <2>2. cap = MaxVoltage
    BY <1>c, <1>1, UnaskedCalls DEF SetCurrent, Switch, Close, Measure
  <2> QED BY <1>1, <2>1, <2>2
<1>d. CASE Trip \/ CallRaises \/ TestFails \/ DownloadFails \/ Interrupted
  <2>1. /\ UNCHANGED <<volts, cap>>
        /\ at # "over" \/ todo # <<>>
        /\ \E stopping \in BOOLEAN : Unwind(stopping)
    BY <1>d DEF Trip, CallRaises, TestFails, DownloadFails, Interrupted, Raises, At, supply
  <2>2. Unasked => at # "over"
    BY <2>1 DEF Unasked
  <2> QED BY <1>1, <2>1, <2>2, UnaskedUnwinds
<1>e. CASE TestStep
  <2>1. UNCHANGED <<volts, cap>>
    BY <1>e DEF TestStep, EnterController, EnterShmoo, SweepVoltage, SweepCurrent, SweepTry,
                ShmooSweep, Begins, supply
  <2>2. at = "idle" \/ At("try") \/ at = "body"
    BY <1>e DEF TestStep, EnterController, EnterShmoo, SweepVoltage, SweepCurrent, SweepTry,
                ShmooSweep, NextTest
  <2>3. cap = MaxVoltage
    BY <1>1, <2>2, UnaskedCalls DEF Unasked
  <2> QED BY <1>1, <2>1, <2>3
<1>f. CASE Proceeds
  BY <1>f, <1>1 DEF Proceeds, Unasked, supply
<1>g. CASE WatchStep \/ Press
  <2>1. UNCHANGED <<volts, cap>>
    BY <1>g DEF WatchStep, Poll, PollFails, HardKill, Press, supply
  <2>2. Unasked => Unasked'
    BY <1>0, <1>g DEF WatchStep, Poll, PollFails, HardKill, Press, main, Goes, Unasked, Op, Volt, Amp
  <2> QED BY <1>1, <2>1, <2>2
<1>h. CASE Start
  BY <1>0, <1>h, <1>1 DEF Start, Goes, Setup, Unasked, Rated, supply, Op, Volt, Amp
<1>i. CASE UNCHANGED vars
  BY <1>i, <1>1 DEF vars, supply, main, Unasked
<1> QED BY <1>a, <1>b, <1>c, <1>d, <1>e, <1>f, <1>g, <1>h, <1>i DEF Next, MainStep, CallStep

\* A DPS150 that told its rating is never asked for more, whatever the tests
\* ask for, wherever a ramp or a sweep is interrupted and however often
\* sessions follow one another.
THEOREM RatingKept == Spec => []WithinRating
<1>1. Init => RatingInv
  BY PowerAssumption DEF Init, RatingInv, Unasked
<1>2. TypeOKPower /\ RatingInv /\ [Next]_vars => RatingInv'
  BY RatingStep
<1>3. RatingInv => WithinRating
  BY DEF RatingInv, Rated, WithinRating
<1> QED BY <1>1, <1>2, <1>3, TypeCorrect, PTL DEF Spec
-----------------------------------------------------------------------------
(* A ScpiPowerSupply is off at the end                                      *)

Healthy == Scpi /\ Upsets \cap {"io", "slow", "log"} = {}

\* The watchdog signals once: a session that was interrupted is not
\* interrupted again, while it closes the supply.
OneSignal == (sig \/ halt => est # "poll") /\ (halt => ~sig)

LEMMA OneSignalStep ==
  ASSUME TypeOKPower, OneSignal, [Next]_vars
  PROVE  OneSignal'
<1>1. CASE CallStep \/ TestStep \/ CallRaises \/ TestFails \/ DownloadFails \/ Proceeds
  <2>1. UNCHANGED <<sig, est>>
    BY <1>1 DEF CallStep, Open, SetVoltage, SetCurrent, Switch, Close, Measure, Trip,
                TestStep, EnterController, EnterShmoo, SweepVoltage, SweepCurrent, SweepTry,
                ShmooSweep, Begins, CallRaises, TestFails, DownloadFails, Proceeds, estop
  <2>2. halt' = halt
    BY <1>1 DEF CallStep, Open, SetVoltage, SetCurrent, Switch, Close, Measure, Trip,
                TestStep, EnterController, EnterShmoo, SweepVoltage, SweepCurrent, SweepTry,
                ShmooSweep, Begins, CallRaises, TestFails, DownloadFails, Proceeds, Returns, Raises, Unwind,
                TypeOKPower
  <2> QED BY <2>1, <2>2 DEF OneSignal
<1>2. CASE Interrupted
  BY <1>2 DEF Interrupted, Unwind, OneSignal
<1>3. CASE WatchStep \/ Press
  BY <1>3 DEF WatchStep, Poll, PollFails, HardKill, Press, main, OneSignal
<1>4. CASE Start
  BY <1>4 DEF Start, OneSignal
<1>5. CASE UNCHANGED vars
  BY <1>5 DEF vars, main, estop, OneSignal
<1> QED BY <1>1, <1>2, <1>3, <1>4, <1>5 DEF Next, MainStep

Calm == {c \in Call : c.do \notin {"trip", "try"}}
VoltCalls == {c \in Call : c.do = "volt"}

\* Inductive: what is left to do at each place, and why the output is off
\* when nothing is left that would switch it off.
OffInv == Healthy =>
    /\ at \in {"over", "setup", "idle", "enter", "body", "exit", "teardown"}
    /\ at = "over" => todo = <<>> /\ ~out
    /\ at = "setup" => todo \in {<<Op("open"), Op("off")>>, <<Op("off")>>, <<>>} /\ ~out
    /\ at = "idle" => todo = <<>> /\ (out => halt)
    /\ at = "enter" => \/ todo \in Seq(Calm)
                       \/ todo = <<Op("off"), Op("trip")>>
                       \/ todo = <<Op("trip")>> /\ ~out
    /\ at = "body" => todo \in Seq(VoltCalls)
    /\ at = "exit" => \/ todo \in {<<Volt(0), Op("off")>>, <<Op("off")>>}
                      \/ todo = <<>> /\ ~out
    /\ at = "teardown" => \/ todo = <<Op("off"), Op("close")>> /\ (out => halt)
                          \/ todo \in {<<Op("close")>>, <<>>} /\ ~out

LEMMA CalmCalls ==
  /\ \A d \in {"on", "off", "measure"} : Op(d) \in Calm
  /\ \A v \in Nat : /\ Volt(v) \in Calm /\ Volt(v) \in VoltCalls /\ Amp(v) \in Calm
                   /\ MeasureAgainst(v) \in Calm
  BY DEF Calm, VoltCalls, Call, Op, Volt, Amp, MeasureAgainst

LEMMA CalmEnter ==
  ASSUME NEW t \in Nat, NEW a \in Nat
  PROVE  ControllerEnter(t, a) \in Seq(Calm) /\ ShmooEnter(t, a) \in Seq(Calm)
<1>1. t \div 2 \in Nat
  OBVIOUS
<1>2. [i \in 1 .. t \div 2 |-> Volt(2 * i)] \in Seq(Calm)
  BY <1>1, CalmCalls
<1>3. <<Volt(t)>> \in Seq(Calm) /\ <<MeasureAgainst(a)>> \in Seq(Calm)
  BY CalmCalls
<1>4. Ramp(t) \in Seq(Calm)
  BY <1>2, <1>3 DEF Ramp
<1>5. <<Amp(a), Volt(0), Op("on")>> \in Seq(Calm) /\ <<Amp(a), Volt(t), Op("on")>> \in Seq(Calm)
  BY CalmCalls
<1> QED BY <1>3, <1>4, <1>5 DEF ControllerEnter, ShmooEnter

LEMMA VoltSweepCalls ==
  ASSUME NEW x \in Nat, NEW y \in Nat, NEW s \in Nat \ {0}
  PROVE  VoltSweep(x, y, s) \in Seq(VoltCalls)
<1> DEFINE p == Points(x, y, s)
<1>1. p \in Seq(Nat)
  BY PointsType
<1>2. /\ DOMAIN p = 1 .. Len(p) /\ Len(p) \in Nat
      /\ \A i \in DOMAIN p : p[i] \in Nat
  BY <1>1
<1>3. [i \in DOMAIN p |-> Volt(p[i])] \in Seq(VoltCalls)
  BY <1>2, CalmCalls
<1> QED BY <1>3 DEF VoltSweep

\* A call that does not raise and is no measurement returns.
LEMMA PlainCall ==
  ASSUME Healthy, CallStep, Head(todo).do \notin {"trip", "measure"}
  PROVE  /\ Returns
         /\ Head(todo).do \in {"on", "off"} => (out' <=> Head(todo).do = "on")
         /\ Head(todo).do \notin {"on", "off"} => UNCHANGED out
  BY DEF CallStep, Open, SetVoltage, SetCurrent, Switch, Close, Measure, Trip, At, Healthy,
         InRange, supply

LEMMA OffCalls ==
  ASSUME TypeOKPower, OffInv, Healthy, CallStep, UNCHANGED rig
  PROVE  OffInv'
<1>0. todo # <<>> /\ todo \in Seq(Call)
  BY DEF CallStep, Open, SetVoltage, SetCurrent, Switch, Close, Measure, Trip, At, TypeOKPower
<1>1. CASE at = "setup"
  <2>1. CASE todo = <<Op("open"), Op("off")>>
    <3>1. Head(todo).do = "open" /\ Tail(todo) = <<Op("off")>>
      BY <2>1 DEF Op
    <3> QED BY <1>1, <3>1, PlainCall DEF Returns, OffInv
  <2>2. CASE todo = <<Op("off")>>
    <3>1. Head(todo).do = "off" /\ Tail(todo) = <<>>
      BY <2>2 DEF Op
    <3> QED BY <1>1, <3>1, PlainCall DEF Returns, OffInv
  <2> QED BY <1>0, <1>1, <2>1, <2>2 DEF OffInv
<1>2. CASE at = "teardown"
  <2>1. CASE todo = <<Op("off"), Op("close")>>
    <3>1. Head(todo).do = "off" /\ Tail(todo) = <<Op("close")>>
      BY <2>1 DEF Op
    <3> QED BY <1>2, <3>1, PlainCall DEF Returns, OffInv
  <2>2. CASE todo = <<Op("close")>>
    <3>1. Head(todo).do = "close" /\ Tail(todo) = <<>> /\ todo # <<Op("off"), Op("close")>>
      BY <2>2 DEF Op
    <3> QED BY <1>0, <1>2, <3>1, PlainCall DEF Returns, OffInv
  <2> QED BY <1>0, <1>2, <2>1, <2>2 DEF OffInv
<1>3. CASE at = "exit"
  <2>1. CASE todo = <<Volt(0), Op("off")>>
    <3>1. Head(todo).do = "volt" /\ Tail(todo) = <<Op("off")>>
      BY <2>1 DEF Volt
    <3> QED BY <1>3, <3>1, PlainCall DEF Returns, OffInv
  <2>2. CASE todo = <<Op("off")>>
    <3>1. Head(todo).do = "off" /\ Tail(todo) = <<>>
      BY <2>2 DEF Op
    <3> QED BY <1>3, <3>1, PlainCall DEF Returns, OffInv
  <2> QED BY <1>0, <1>3, <2>1, <2>2 DEF OffInv
<1>4. CASE at = "body"
  <2>1. Head(todo) \in VoltCalls /\ Tail(todo) \in Seq(VoltCalls)
    BY <1>0, <1>4, HeadTailProperties DEF OffInv
  <2> QED BY <1>0, <1>4, <2>1 DEF CallStep, Open, SetVoltage, SetCurrent, Switch, Close, Measure,
       Trip, At, Returns, OffInv, Healthy, InRange, VoltCalls
<1>5. CASE at = "enter" /\ todo \in Seq(Calm)
  <2>1. Head(todo) \in Calm /\ Tail(todo) \in Seq(Calm)
    BY <1>0, <1>5, HeadTailProperties
  <2>2. ~Trip
    BY <2>1 DEF Trip, At, Calm
  <2>3. Returns \/ (todo' = <<Op("off"), Op("trip")>> /\ UNCHANGED at)
    BY <2>2 DEF CallStep, Open, SetVoltage, SetCurrent, Switch, Close, Measure, Healthy, InRange
  <2> QED BY <1>5, <2>1, <2>3 DEF Returns, OffInv
<1>6. CASE at = "enter" /\ todo = <<Op("off"), Op("trip")>>
  <2>1. Head(todo).do = "off" /\ Tail(todo) = <<Op("trip")>>
    BY <1>6 DEF Op
  <2>2. Switch
    BY <2>1 DEF CallStep, Open, SetVoltage, SetCurrent, Switch, Close, Measure, Trip, At
  <2> QED BY <1>6, <2>1, <2>2 DEF Switch, At, Returns, OffInv
<1>7. CASE at = "enter" /\ todo = <<Op("trip")>> /\ ~out
  <2>1. Head(todo).do = "trip"
    BY <1>7 DEF Op
  <2>2. Trip
    BY <2>1 DEF CallStep, Open, SetVoltage, SetCurrent, Switch, Close, Measure, Trip, At
  <2>3. at' = "idle" /\ todo' = <<>> /\ ~out'
    BY <1>7, <2>2 DEF Trip, Raises, Unwind, Goes, supply
  <2> QED BY <2>3 DEF OffInv
<1> QED BY <1>0, <1>1, <1>2, <1>3, <1>4, <1>5, <1>6, <1>7 DEF OffInv

LEMMA OffExit ==
  ASSUME Healthy
  PROVE  /\ Setup = <<Op("open"), Op("off")>>
         /\ Teardown = <<Op("off"), Op("close")>>
         /\ ExitCalls \in {<<Volt(0), Op("off")>>, <<Op("off")>>}
  BY DEF Healthy, Setup, Teardown, ExitCalls

\* An interrupt finds the output off, or leads to a place that is followed by
\* the close of the supply.
LEMMA OffInterrupted ==
  ASSUME TypeOKPower, OneSignal, OffInv, Healthy, Interrupted, UNCHANGED rig
  PROVE  OffInv'
<1>1. sig /\ ~halt /\ at # "over" /\ Unwind(TRUE) /\ UNCHANGED out
  BY DEF Interrupted, OneSignal, supply
<1>2. halt'
  BY <1>1 DEF Unwind
<1>3. CASE at \in {"setup", "teardown"}
  <2>1. ~out
    BY <1>1, <1>3 DEF OffInv
  <2>2. at' = "over" /\ todo' = <<>>
    BY <1>1, <1>3 DEF Unwind, Goes
  <2> QED BY <1>1, <2>1, <2>2 DEF OffInv
<1>4. CASE at = "body"
  <2>1. at' = "exit" /\ todo' = ExitCalls
    BY <1>1, <1>4 DEF Unwind, Goes
  <2> QED BY <2>1, OffExit DEF OffInv, Volt, Op
<1>5. CASE at \in {"idle", "enter", "exit"}
  <2>1. at' = "idle" /\ todo' = <<>>
    BY <1>1, <1>5 DEF Unwind, Goes
  <2> QED BY <1>2, <2>1 DEF OffInv
<1> QED BY <1>1, <1>3, <1>4, <1>5 DEF OffInv

LEMMA OffTests ==
  ASSUME TypeOKPower, OffInv, Healthy, TestStep \/ TestFails \/ Proceeds, UNCHANGED rig
  PROVE  OffInv'
<1>1. CASE EnterController
  <2>1. PICK t \in Volts, a \in Amps : Begins("enter", ControllerEnter(t, a), "controller")
    BY <1>1 DEF EnterController
  <2>2. ControllerEnter(t, a) \in Seq(Calm)
    BY PowerAssumption, CalmEnter
  <2> QED BY <2>1, <2>2 DEF Begins, Goes, OffInv
<1>2. CASE EnterShmoo
  <2>1. PICK t \in Volts, a \in Amps : Begins("enter", ShmooEnter(t, a), "shmoo")
    BY <1>2 DEF EnterShmoo
  <2>2. ShmooEnter(t, a) \in Seq(Calm)
    BY PowerAssumption, CalmEnter
  <2> QED BY <2>1, <2>2 DEF Begins, Goes, OffInv
<1>3. ~SweepVoltage /\ ~SweepCurrent
  BY DEF Healthy, SweepVoltage, SweepCurrent
<1>4. ~SweepTry
  <2> SUFFICES ASSUME At("try") PROVE FALSE
    BY DEF SweepTry
  <2>1. todo # <<>> /\ Head(todo).do = "try"
    BY DEF At
  <2>2. CASE at = "enter" /\ todo \in Seq(Calm)
    <3>1. Head(todo) \in Calm
      BY <2>1, <2>2, HeadTailProperties
    <3> QED BY <2>1, <3>1 DEF Calm
  <2>3. CASE at = "body"
    <3>1. Head(todo) \in VoltCalls
      BY <2>1, <2>3, HeadTailProperties DEF OffInv
    <3> QED BY <2>1, <3>1 DEF VoltCalls
  <2>4. CASE \/ todo \in {<<Op("open"), Op("off")>>, <<Op("off")>>, <<Volt(0), Op("off")>>}
             \/ todo \in {<<Op("off"), Op("close")>>, <<Op("close")>>}
             \/ todo \in {<<Op("off"), Op("trip")>>, <<Op("trip")>>}
    BY <2>1, <2>4 DEF Op, Volt
  <2> QED BY <2>1, <2>2, <2>3, <2>4 DEF OffInv
<1>5. CASE ShmooSweep
  <2>1. PICK x \in Volts, y \in Volts, s \in Steps : todo' = VoltSweep(x, y, s)
    BY <1>5 DEF ShmooSweep
  <2>2. todo' \in Seq(VoltCalls)
    BY <2>1, PowerAssumption, VoltSweepCalls
  <2> QED BY <1>5, <2>2 DEF ShmooSweep, OffInv
<1>6. CASE TestFails
  <2>1. at = "body"
    BY <1>6 DEF TestFails, OffInv
  <2>2. at' = "exit" /\ todo' = ExitCalls
    BY <1>6, <2>1 DEF TestFails, Raises, Unwind, Goes
  <2> QED BY <2>2, OffExit DEF OffInv, Volt, Op
<1>7. CASE Proceeds
  <2>1. todo = <<>> /\ UNCHANGED <<out, halt>>
    BY <1>7 DEF Proceeds, supply
  <2>2. CASE at = "setup"
    <3>1. at' = "idle" /\ todo' = <<>>
      BY <1>7, <2>2 DEF Proceeds, Goes
    <3> QED BY <2>1, <2>2, <3>1 DEF OffInv
  <2>3. CASE at = "enter"
    <3>1. at' = "body" /\ todo' = <<>>
      BY <1>7, <2>3 DEF Proceeds, Goes
    <3> QED BY <3>1, EmptySeq DEF OffInv
  <2>4. CASE at = "body"
    <3>1. at' = "exit" /\ todo' = ExitCalls
      BY <1>7, <2>4 DEF Proceeds, Goes
    <3> QED BY <3>1, OffExit DEF OffInv, Volt, Op
  <2>5. CASE at = "exit"
    <3>1. at' = "idle" /\ todo' = <<>>
      BY <1>7, <2>5 DEF Proceeds, Goes
    <3>2. ~out
      BY <2>1, <2>5 DEF OffInv
    <3> QED BY <2>1, <3>1, <3>2 DEF OffInv
  <2>6. CASE at = "idle"
    <3>1. at' = "teardown" /\ todo' = Teardown
      BY <1>7, <2>6 DEF Proceeds, Goes
    <3> QED BY <2>1, <2>6, <3>1, OffExit DEF OffInv, Op
  <2>7. CASE at = "teardown"
    <3>1. at' = "over" /\ todo' = <<>>
      BY <1>7, <2>7 DEF Proceeds, Goes
    <3>2. ~out
      BY <2>1, <2>7 DEF OffInv
    <3> QED BY <2>1, <3>1, <3>2 DEF OffInv
  <2> QED BY <1>7, <2>2, <2>3, <2>4, <2>5, <2>6, <2>7 DEF Proceeds, OffInv
<1> QED BY <1>1, <1>2, <1>3, <1>4, <1>5, <1>6, <1>7 DEF TestStep

LEMMA OffStep ==
  ASSUME TypeOKPower, OneSignal, OffInv, [Next]_vars
  PROVE  OffInv'
<1>0. UNCHANGED rig
  BY DEF Next, vars
<1> SUFFICES ASSUME Healthy PROVE OffInv'
  BY <1>0 DEF OffInv, Healthy, Scpi, Upsets
<1>1. CASE CallStep
  BY <1>0, <1>1, OffCalls
<1>2. CASE TestStep \/ TestFails \/ Proceeds
  BY <1>0, <1>2, OffTests
<1>3. CASE Interrupted
  BY <1>0, <1>3, OffInterrupted
<1>4. ~CallRaises /\ ~HardKill /\ ~DownloadFails
  BY DEF CallRaises, HardKill, DownloadFails, Healthy
<1>5. CASE Poll \/ PollFails \/ Press
  BY <1>5 DEF Poll, PollFails, Press, supply, main, OffInv
<1>6. CASE Start
  <2>1. at = "over" /\ at' = "setup" /\ todo' = Setup /\ UNCHANGED out
    BY <1>6 DEF Start, Goes, supply
  <2> QED BY <2>1, OffExit DEF OffInv, Op
<1>7. CASE UNCHANGED vars
  BY <1>7 DEF vars, supply, main, OffInv
<1> QED BY <1>1, <1>2, <1>3, <1>4, <1>5, <1>6, <1>7 DEF Next, MainStep, WatchStep

\* A session with a ScpiPowerSupply that answers and that is not killed leaves
\* the output off: the E-Stop may strike between any two calls, in a ramp
\* whose context is then never left, in the exit of a context or in the
\* teardown.
THEOREM OffWhenOver == Spec => []OffAtTheEnd
<1>1. Init => OneSignal /\ OffInv
  BY DEF Init, OneSignal, OffInv
<1>2. TypeOKPower /\ OneSignal /\ OffInv /\ [Next]_vars => (OneSignal /\ OffInv)'
  BY OneSignalStep, OffStep
<1>3. OffInv => OffAtTheEnd
  BY DEF OffInv, Healthy, OffAtTheEnd
<1> QED BY <1>1, <1>2, <1>3, TypeCorrect, PTL DEF Spec
-----------------------------------------------------------------------------
(* SafePowerController.__enter__                                            *)

\* The calls of s after the first k: a ramp that starts at most a volt above v and
\* goes up by at most a volt, then the measurement.
RampAfter(s, k, v) ==
    /\ Len(s) > k
    /\ s[Len(s)].do = "measure"
    /\ \A i \in k + 1 .. Len(s) - 1 : s[i].do = "volt"
    /\ k + 1 < Len(s) => s[k + 1].x <= v + 2
    /\ \A i \in k + 1 .. Len(s) - 2 : s[i + 1].x <= s[i].x + 2

\* The measurement at the end will be compared with a.
Against(a) == todo[Len(todo)].x = a

\* How far __enter__ has come: the limit is to be set, then 0 V, then the output is
\* switched on at 0 V, then the ramp; the end is reached after a measurement that
\* found no short circuit, or none that could be read.  The limit of the comparison
\* is the limit of the supply.
BeforeLimit == Against(todo[1].x) /\ todo[1].do = "amp" /\ todo[2].do = "volt" /\ todo[2].x = 0 /\ todo[3].do = "on" /\ RampAfter(todo, 3, 0)
BeforeZero == Against(amps) /\ todo[1].do = "volt" /\ todo[1].x = 0 /\ todo[2].do = "on" /\ RampAfter(todo, 2, 0)
BeforeOn == Against(amps) /\ todo[1].do = "on" /\ volts = 0 /\ RampAfter(todo, 1, 0)
Ramping == Against(amps) /\ RampAfter(todo, 0, volts)
Cutting == todo \in {<<Op("off"), Op("trip")>>, <<Op("trip")>>}
Entered == todo = <<>> /\ (Limiting => "badread" \in Upsets)

Entering == BeforeLimit \/ BeforeZero \/ BeforeOn \/ Ramping \/ Cutting \/ Entered

ControllerInv ==
    /\ at = "enter" /\ ctx = "controller" => Entering
    /\ at = "body" /\ ctx = "controller" => Entered

LEMMA CallsLeft ==
  ASSUME NEW s \in Seq(Call), s # <<>>
  PROVE  /\ Len(s) \in Nat /\ Len(s) > 0 /\ Head(s) = s[1]
         /\ Len(Tail(s)) = Len(s) - 1 /\ Tail(s) \in Seq(Call)
         /\ \A i \in 1 .. Len(s) - 1 : Tail(s)[i] = s[i + 1]
         /\ \A i \in 1 .. Len(s) : s[i].x \in Nat
<1>1. Len(s) \in Nat /\ Len(s) > 0 /\ Head(s) = s[1] /\ Len(Tail(s)) = Len(s) - 1 /\ Tail(s) \in Seq(Call)
  BY HeadTailProperties, EmptySeq
<1>2. \A i \in 1 .. Len(s) - 1 : Tail(s)[i] = s[i + 1]
  BY HeadTailProperties
<1>3. \A i \in 1 .. Len(s) : s[i] \in Call
  BY ElementOfSeq
<1> QED BY <1>1, <1>2, <1>3 DEF Call

\* A call before the ramp is made.
LEMMA RampNearer ==
  ASSUME NEW s \in Seq(Call), NEW k \in Nat, NEW v \in Nat, RampAfter(s, k + 1, v)
  PROVE  s # <<>> /\ RampAfter(Tail(s), k, v)
<1>1. s # <<>>
  BY DEF RampAfter
<1>2. /\ Len(s) \in Nat /\ Len(Tail(s)) = Len(s) - 1 /\ Len(s) > k + 1
      /\ \A i \in 1 .. Len(s) - 1 : Tail(s)[i] = s[i + 1]
  BY <1>1, CallsLeft DEF RampAfter
<1> DEFINE r == Tail(s)
<1> HIDE DEF r
<1>3. r[Len(r)].do = "measure" /\ Len(r) > k
  BY <1>2 DEF RampAfter, r
<1>4. \A i \in k + 1 .. Len(r) - 1 : r[i].do = "volt"
  BY <1>2 DEF RampAfter, r
<1>5. k + 1 < Len(r) => r[k + 1].x <= v + 2
  BY <1>2 DEF RampAfter, r
<1>6. ASSUME NEW i \in k + 1 .. Len(r) - 2 PROVE r[i + 1].x <= r[i].x + 2
  <2>1. r[i] = s[i + 1] /\ r[i + 1] = s[i + 2] /\ i + 1 \in k + 2 .. Len(s) - 2 /\ i + 2 = (i + 1) + 1
    BY <1>2 DEF r
  <2> QED BY <2>1 DEF RampAfter
<1> QED BY <1>1, <1>3, <1>4, <1>5, <1>6 DEF RampAfter, r

\* A step of the ramp is made.
LEMMA RampOn ==
  ASSUME NEW s \in Seq(Call), NEW v \in Nat, RampAfter(s, 0, v), Len(s) > 1
  PROVE  s[1].do = "volt" /\ s[1].x <= v + 2 /\ RampAfter(Tail(s), 0, s[1].x)
<1>1. s # <<>>
  OBVIOUS
<1>2. /\ Len(s) \in Nat /\ Len(Tail(s)) = Len(s) - 1
      /\ \A i \in 1 .. Len(s) - 1 : Tail(s)[i] = s[i + 1]
  BY <1>1, CallsLeft
<1> DEFINE r == Tail(s)
<1> HIDE DEF r
<1>3. s[1].do = "volt" /\ s[1].x <= v + 2
  BY <1>2 DEF RampAfter
<1>4. r[Len(r)].do = "measure" /\ Len(r) > 0
  BY <1>2 DEF RampAfter, r
<1>5. \A i \in 1 .. Len(r) - 1 : r[i].do = "volt"
  BY <1>2 DEF RampAfter, r
<1>6. 1 < Len(r) => r[1].x <= s[1].x + 2
  <2> SUFFICES ASSUME 1 < Len(r) PROVE r[1].x <= s[1].x + 2
    OBVIOUS
  <2>1. r[1] = s[1 + 1] /\ 1 \in 0 + 1 .. Len(s) - 2
    BY <1>2 DEF r
  <2> QED BY <2>1 DEF RampAfter
<1>7. ASSUME NEW i \in 1 .. Len(r) - 2 PROVE r[i + 1].x <= r[i].x + 2
  <2>1. r[i] = s[i + 1] /\ r[i + 1] = s[i + 2] /\ i + 1 \in 0 + 1 .. Len(s) - 2 /\ i + 2 = (i + 1) + 1
    BY <1>2 DEF r
  <2> QED BY <2>1 DEF RampAfter
<1> QED BY <1>3, <1>4, <1>5, <1>6, <1>7 DEF RampAfter, r

LEMMA Joined ==
  ASSUME NEW s \in Seq(Call), NEW u \in Seq(Call)
  PROVE  /\ s \o u \in Seq(Call) /\ Len(s \o u) = Len(s) + Len(u) /\ Len(s) \in Nat /\ Len(u) \in Nat
         /\ \A i \in 1 .. Len(s) : (s \o u)[i] = s[i]
         /\ \A i \in 1 .. Len(u) : (s \o u)[Len(s) + i] = u[i]
  OBVIOUS

\* The calls that __enter__ is to make.
LEMMA EnterRamps ==
  ASSUME NEW t \in Nat, NEW a \in Nat, todo' = ControllerEnter(t, a)
  PROVE  BeforeLimit'
<1> DEFINE h == t \div 2
           up == [i \in 1 .. h |-> Volt(2 * i)]
           r == Ramp(t)
           c == ControllerEnter(t, a)
           first == <<Amp(a), Volt(0), Op("on")>>
           last == <<MeasureAgainst(a)>>
<1>1. h \in Nat /\ 2 * h <= t /\ t <= 2 * h + 1
  OBVIOUS
<1> HIDE DEF h
<1>2. up \in Seq(Call) /\ Len(up) = h /\ \A i \in 1 .. h : up[i] = Volt(2 * i)
  BY <1>1, VoltType
<1>3. <<Volt(t)>> \in Seq(Call) /\ Len(<<Volt(t)>>) = 1 /\ <<Volt(t)>>[1] = Volt(t)
  BY VoltType
<1>4. r = up \o <<Volt(t)>>
  BY DEF Ramp, h
<1> HIDE DEF up
<1>5. /\ r \in Seq(Call) /\ Len(r) = h + 1 /\ r[h + 1] = Volt(t)
      /\ \A i \in 1 .. h : r[i] = Volt(2 * i)
  <2> DEFINE one == <<Volt(t)>>
  <2>1. one \in Seq(Call) /\ Len(one) = 1 /\ one[1] = Volt(t) /\ r = up \o one
    BY <1>3, <1>4
  <2> HIDE DEF one, r
  <2>2. /\ r \in Seq(Call) /\ Len(r) = Len(up) + Len(one)
        /\ \A i \in 1 .. Len(up) : r[i] = up[i]
        /\ \A i \in 1 .. Len(one) : r[Len(up) + i] = one[i]
    BY <1>2, <2>1, Joined
  <2>3. r[h + 1] = one[1]
    BY <1>2, <2>1, <2>2
  <2> QED BY <1>1, <1>2, <2>1, <2>2, <2>3
<1>6. /\ first \in Seq(Call) /\ Len(first) = 3 /\ first[1] = Amp(a) /\ first[2] = Volt(0)
      /\ first[3] = Op("on")
  BY VoltType, OpType
<1>7. last \in Seq(Call) /\ Len(last) = 1 /\ last[1] = MeasureAgainst(a)
  BY MeasureType
<1>8. c = (first \o r) \o last
  BY DEF ControllerEnter
<1> HIDE DEF r, first, last
<1> DEFINE f == first \o r
<1>9. /\ f \in Seq(Call) /\ Len(f) = h + 4 /\ \A i \in 1 .. 3 : f[i] = first[i]
      /\ \A i \in 1 .. h + 1 : f[3 + i] = r[i]
  <2>1. /\ f \in Seq(Call) /\ Len(f) = Len(first) + Len(r)
        /\ \A i \in 1 .. Len(first) : f[i] = first[i]
        /\ \A i \in 1 .. Len(r) : f[Len(first) + i] = r[i]
    BY <1>5, <1>6, Joined
  <2> HIDE DEF f
  <2> QED BY <1>1, <1>5, <1>6, <2>1
<1>10. c = f \o last
  BY <1>8
<1> HIDE DEF f, c
<1>11. /\ Len(c) = h + 5 /\ c[h + 5] = last[1] /\ \A i \in 1 .. h + 4 : c[i] = f[i]
  <2>1. /\ Len(c) = Len(f) + Len(last)
        /\ \A i \in 1 .. Len(f) : c[i] = f[i]
        /\ \A i \in 1 .. Len(last) : c[Len(f) + i] = last[i]
    BY <1>7, <1>9, <1>10, Joined
  <2> QED BY <1>1, <1>7, <1>9, <2>1
<1>12. c[1] = Amp(a) /\ c[2] = Volt(0) /\ c[3] = Op("on") /\ c[h + 5] = MeasureAgainst(a)
  <2>1. c[1] = f[1] /\ c[2] = f[2] /\ c[3] = f[3]
    BY <1>1, <1>11
  <2> QED BY <1>6, <1>7, <1>9, <1>11, <2>1
<1>13. ASSUME NEW i \in 1 .. h PROVE c[3 + i] = Volt(2 * i)
  <2>1. c[3 + i] = f[3 + i]
    BY <1>1, <1>11
  <2>2. f[3 + i] = r[i]
    BY <1>1, <1>9
  <2> QED BY <1>5, <2>1, <2>2
<1>14. c[h + 4] = Volt(t)
  <2>1. c[h + 4] = f[h + 4]
    BY <1>1, <1>11
  <2>2. f[3 + (h + 1)] = r[h + 1] /\ 3 + (h + 1) = h + 4
    BY <1>1, <1>9
  <2> QED BY <1>5, <2>1, <2>2
<1>15. \A i \in 4 .. h + 4 : c[i].do = "volt" /\ c[i].x = IF i = h + 4 THEN t ELSE 2 * (i - 3)
  <2> SUFFICES ASSUME NEW i \in 4 .. h + 4
               PROVE  c[i].do = "volt" /\ c[i].x = IF i = h + 4 THEN t ELSE 2 * (i - 3)
    OBVIOUS
  <2>1. CASE i = h + 4
    BY <1>14, <2>1 DEF Volt
  <2>2. CASE i # h + 4
    <3>1. i - 3 \in 1 .. h /\ 3 + (i - 3) = i
      BY <1>1, <2>2
    <3>2. c[i] = Volt(2 * (i - 3))
      BY <1>13, <3>1
    <3> QED BY <2>2, <3>2 DEF Volt
  <2> QED BY <2>1, <2>2
<1>16. RampAfter(c, 3, 0)
  <2>1. Len(c) > 3 /\ c[Len(c)].do = "measure"
    BY <1>1, <1>11, <1>12 DEF MeasureAgainst
  <2>2. \A i \in 3 + 1 .. Len(c) - 1 : c[i].do = "volt"
    BY <1>1, <1>11, <1>15
  <2>3. c[3 + 1].x <= 0 + 2
    BY <1>1, <1>15
  <2>4. ASSUME NEW i \in 3 + 1 .. Len(c) - 2 PROVE c[i + 1].x <= c[i].x + 2
    <3>1. i \in 4 .. h + 4 /\ i + 1 \in 4 .. h + 4 /\ i # h + 4
      BY <1>1, <1>11
    <3>2. c[i].x = 2 * (i - 3) /\ c[i + 1].x = IF i + 1 = h + 4 THEN t ELSE 2 * ((i + 1) - 3)
      BY <1>15, <3>1
    <3> QED BY <1>1, <3>1, <3>2
  <2> QED BY <2>1, <2>2, <2>3, <2>4 DEF RampAfter
<1>17. /\ c[1].do = "amp" /\ c[2].do = "volt" /\ c[2].x = 0 /\ c[3].do = "on"
       /\ c[Len(c)].x = c[1].x
  BY <1>11, <1>12 DEF Amp, Volt, Op, MeasureAgainst
<1>18. todo' = c
  BY DEF c
<1> QED BY <1>16, <1>17, <1>18 DEF BeforeLimit, Against

\* What a call of __enter__ does: it raises, or does its work.
LEMMA EnterCall ==
  ASSUME TypeOKPower, at = "enter", CallStep
  PROVE  \/ at' = "idle" /\ UNCHANGED <<out, volts>>
         \/ /\ UNCHANGED <<at, ctx>>
            /\ \/ /\ Head(todo).do = "volt" /\ volts' = Head(todo).x /\ UNCHANGED <<out, amps>>
                  /\ todo' = Tail(todo)
               \/ /\ Head(todo).do \in {"on", "off"} /\ (out' <=> Head(todo).do = "on")
                  /\ UNCHANGED <<volts, amps>>
                  /\ todo' = Tail(todo)
               \/ /\ Head(todo).do = "amp" /\ amps' = Head(todo).x /\ UNCHANGED <<out, volts>>
                  /\ todo' = Tail(todo)
               \/ /\ Head(todo).do \in {"open", "close"} /\ UNCHANGED <<out, volts, amps>>
                  /\ todo' = Tail(todo)
               \/ /\ Head(todo).do = "measure" /\ UNCHANGED <<out, volts, amps>>
                  /\ \/ todo' = <<Op("off"), Op("trip")>>
                     \/ /\ todo' = Tail(todo)
                        /\ Head(todo).x = amps /\ Limiting => "badread" \in Upsets
<1> USE DEF At, Returns, supply
<1>1. CASE Open \/ Close
  BY <1>1 DEF Open, Close
<1>2. CASE SetVoltage
  BY <1>2 DEF SetVoltage, Arg, Raises, Unwind, Goes
<1>3. CASE SetCurrent
  BY <1>3 DEF SetCurrent, Arg, Raises, Unwind, Goes
<1>4. CASE Switch
  BY <1>4 DEF Switch
<1>5. CASE Measure
  <2>1. Head(todo).do = "measure" /\ UNCHANGED <<out, volts, amps, at, ctx>>
    BY <1>5 DEF Measure
  <2>2. PICK idle \in Readings : \/ todo' = <<Op("off"), Op("trip")>>
                                 \/ ~TooMuch(idle, Arg) /\ todo' = Tail(todo)
    BY <1>5 DEF Measure
  <2>3. ASSUME ~TooMuch(idle, Arg), Head(todo).x = amps, Limiting, "badread" \notin Upsets
        PROVE  FALSE
    <3>1. amps \in Nat /\ rig.draw \in Nat
      BY PowerAssumption DEF TypeOKPower, Rig
    <3>2. idle = amps
      BY <2>3, <3>1 DEF Readings, Current, Limiting
    <3> QED BY <2>3, <3>1, <3>2 DEF TooMuch, Arg
  <2> QED BY <2>1, <2>2, <2>3
<1>6. CASE Trip
  BY <1>6 DEF Trip, Raises, Unwind, Goes
<1> QED BY <1>1, <1>2, <1>3, <1>4, <1>5, <1>6 DEF CallStep

\* What NoSurge asks of a step.
Gentle ==
    /\ out /\ out' => volts' <= volts + 2
    /\ ~out /\ out' => volts = 0

LEMMA EnterStep ==
  ASSUME TypeOKPower, at = "enter", ctx = "controller", Entering, CallStep, UNCHANGED rig
  PROVE  Gentle /\ (at' = "enter" => Entering')
<1>1. todo # <<>> /\ todo \in Seq(Call) /\ volts \in Nat
  BY DEF CallStep, Open, SetVoltage, SetCurrent, Switch, Close, Measure, Trip, At, TypeOKPower
<1>2. /\ Len(todo) \in Nat /\ Len(todo) > 0 /\ Head(todo) = todo[1]
      /\ Len(Tail(todo)) = Len(todo) - 1
      /\ \A i \in 1 .. Len(todo) - 1 : Tail(todo)[i] = todo[i + 1]
      /\ \A i \in 1 .. Len(todo) : todo[i].x \in Nat
  BY <1>1, CallsLeft
<1>3. CASE at' = "idle" /\ UNCHANGED <<out, volts>>
  BY <1>1, <1>3 DEF Gentle
<1>5. Len(todo) > 1 => Tail(todo)[Len(Tail(todo))] = todo[Len(todo)]
  BY <1>2
<1>4. CASE UNCHANGED <<at, ctx>>
  <2>1. CASE BeforeLimit
    <3>1. UNCHANGED <<out, volts>> /\ amps' = todo[1].x /\ todo' = Tail(todo)
      BY <1>2, <1>4, <2>1, EnterCall DEF BeforeLimit
    <3>2. Tail(todo)[1] = todo[2] /\ Tail(todo)[2] = todo[3] /\ Len(todo) > 1
      BY <1>2, <2>1 DEF BeforeLimit, RampAfter
    <3>3. RampAfter(Tail(todo), 2, 0)
      <4>1. RampAfter(todo, 2 + 1, 0)
        BY <2>1 DEF BeforeLimit
      <4> QED BY <1>1, <4>1, RampNearer
    <3>4. BeforeZero'
      BY <1>5, <2>1, <3>1, <3>2, <3>3 DEF BeforeLimit, BeforeZero, Against
    <3> QED BY <1>1, <3>1, <3>4 DEF Gentle, Entering
  <2>2. CASE BeforeZero
    <3>1. UNCHANGED <<out, amps>> /\ volts' = 0 /\ todo' = Tail(todo)
      BY <1>2, <1>4, <2>2, EnterCall DEF BeforeZero
    <3>2. Tail(todo)[1] = todo[2] /\ Len(todo) > 1
      BY <1>2, <2>2 DEF BeforeZero, RampAfter
    <3>3. RampAfter(Tail(todo), 1, 0)
      <4>1. RampAfter(todo, 1 + 1, 0)
        BY <2>2 DEF BeforeZero
      <4> QED BY <1>1, <4>1, RampNearer
    <3>4. BeforeOn'
      BY <1>5, <2>2, <3>1, <3>2, <3>3 DEF BeforeZero, BeforeOn, Against
    <3> QED BY <1>1, <3>1, <3>4 DEF Gentle, Entering
  <2>3. CASE BeforeOn
    <3>1. UNCHANGED <<volts, amps>> /\ todo' = Tail(todo) /\ Len(todo) > 1
      BY <1>2, <1>4, <2>3, EnterCall DEF BeforeOn, RampAfter
    <3>2. RampAfter(Tail(todo), 0, 0)
      <4>1. RampAfter(todo, 0 + 1, 0)
        BY <2>3 DEF BeforeOn
      <4> QED BY <1>1, <4>1, RampNearer
    <3>3. Ramping'
      BY <1>5, <2>3, <3>1, <3>2 DEF BeforeOn, Ramping, Against
    <3> QED BY <1>1, <2>3, <3>1, <3>3 DEF Gentle, Entering, BeforeOn
  <2>4. CASE Ramping /\ Len(todo) > 1
    <3>1. todo[1].do = "volt" /\ todo[1].x <= volts + 2 /\ RampAfter(Tail(todo), 0, todo[1].x)
      BY <1>1, <2>4, RampOn DEF Ramping
    <3>2. UNCHANGED <<out, amps>> /\ volts' = todo[1].x /\ todo' = Tail(todo)
      BY <1>2, <1>4, <3>1, EnterCall
    <3>3. Ramping'
      BY <1>5, <2>4, <3>1, <3>2 DEF Ramping, Against
    <3> QED BY <3>1, <3>2, <3>3 DEF Gentle, Entering
  <2>5. CASE Ramping /\ Len(todo) = 1
    <3>0. Tail(todo) = <<>>
      <4>1. Tail(todo) \in Seq(Call) /\ Len(Tail(todo)) = 0
        BY <1>1, <1>2, <2>5, CallsLeft
      <4> QED BY <4>1, EmptySeq
    <3>1. Head(todo).do = "measure" /\ Head(todo).x = amps /\ Tail(todo) = <<>>
      BY <1>2, <2>5, <3>0 DEF Ramping, RampAfter, Against
    <3>2. /\ UNCHANGED <<out, volts, amps>>
          /\ \/ todo' = <<Op("off"), Op("trip")>>
             \/ todo' = <<>> /\ (Limiting => "badread" \in Upsets)
      BY <1>4, <3>1, EnterCall
    <3>3. Cutting' \/ Entered'
      BY <3>2 DEF Cutting, Entered, Op, Upsets, Limiting
    <3> QED BY <1>1, <3>2, <3>3 DEF Gentle, Entering
  <2>6. CASE todo = <<Op("off"), Op("trip")>>
    <3>1. Head(todo).do = "off" /\ Tail(todo) = <<Op("trip")>>
      BY <2>6 DEF Op
    <3>2. ~out' /\ todo' = <<Op("trip")>>
      BY <1>4, <3>1, EnterCall
    <3> QED BY <3>2 DEF Gentle, Entering, Cutting, Op
  <2>7. CASE todo = <<Op("trip")>>
    <3>1. Head(todo).do = "trip"
      BY <2>7 DEF Op
    <3> QED BY <1>4, <3>1, EnterCall
  <2> QED BY <1>1, <1>2, <2>1, <2>2, <2>3, <2>4, <2>5, <2>6, <2>7 DEF Entering, Cutting, Entered
<1> QED BY <1>3, <1>4, EnterCall

\* No call that __enter__ makes is the beginning of a sweep's try block.
LEMMA EnterNoTry ==
  ASSUME TypeOKPower, Entering
  PROVE  ~At("try")
<1> SUFFICES ASSUME todo # <<>>, Head(todo).do = "try" PROVE FALSE
  BY DEF At
<1>1. todo \in Seq(Call)
  BY DEF TypeOKPower
<1>2. Head(todo) = todo[1] /\ Len(todo) \in Nat /\ Len(todo) > 0
  BY <1>1, CallsLeft
<1>3. ~BeforeLimit /\ ~BeforeZero /\ ~BeforeOn
  BY <1>2 DEF BeforeLimit, BeforeZero, BeforeOn
<1>4. ~Ramping
  BY <1>2 DEF Ramping, RampAfter
<1>5. ~Cutting
  BY DEF Cutting, Op
<1> QED BY <1>3, <1>4, <1>5 DEF Entering, Entered

LEMMA ControllerStep ==
  ASSUME TypeOKPower, ControllerInv, [Next]_vars
  PROVE  ControllerInv' /\ (at = "enter" /\ ctx = "controller" => Gentle)
<1>0. UNCHANGED rig /\ volts \in Nat
  BY DEF Next, vars, TypeOKPower
<1>01. at = "body" /\ ctx = "controller" => todo = <<>>
  BY DEF ControllerInv, Entered
<1>1. CASE CallStep
  <2>1. CASE at = "enter" /\ ctx = "controller"
    <3>1. Gentle /\ (at' = "enter" => Entering')
      BY <1>0, <1>1, <2>1, EnterStep DEF ControllerInv
    <3>2. at' # "body"
      BY <1>1, <2>1, EnterCall
    <3> QED BY <3>1, <3>2 DEF ControllerInv
  <2>2. CASE ~(at = "enter" /\ ctx = "controller")
    <3>1. ctx' = ctx /\ (at' = at \/ at' \notin {"enter", "body"})
      BY <1>1 DEF CallStep, Open, SetVoltage, SetCurrent, Switch, Close, Measure, Trip, Returns, Raises,
         Unwind, Goes
    <3>2. todo # <<>>
      BY <1>1 DEF CallStep, Open, SetVoltage, SetCurrent, Switch, Close, Measure, Trip, At
    <3> QED BY <1>01, <2>2, <3>1, <3>2 DEF ControllerInv
  <2> QED BY <2>1, <2>2
<1>2. CASE CallRaises \/ TestFails \/ DownloadFails \/ Interrupted
  <2>1. UNCHANGED <<out, volts>> /\ \E stopping \in BOOLEAN : Unwind(stopping)
    BY <1>2 DEF CallRaises, TestFails, DownloadFails, Interrupted, Raises, supply
  <2>2. at' \notin {"enter", "body"}
    BY <2>1 DEF Unwind, Goes
  <2> QED BY <1>0, <2>1, <2>2 DEF ControllerInv, Gentle
<1>3. CASE EnterController
  <2>1. PICK t \in Volts, a \in Amps : Begins("enter", ControllerEnter(t, a), "controller")
    BY <1>3 DEF EnterController
  <2>2. t \in Nat /\ a \in Nat /\ todo' = ControllerEnter(t, a) /\ at' = "enter"
    BY <2>1, PowerAssumption DEF Begins, Goes
  <2>3. BeforeLimit'
    BY <2>2, EnterRamps
  <2>4. at = "idle"
    BY <1>3 DEF EnterController, NextTest
  <2> QED BY <2>2, <2>3, <2>4 DEF ControllerInv, Entering
<1>4. CASE EnterShmoo \/ SweepVoltage \/ SweepCurrent
  <2>1. at = "idle" /\ ctx' # "controller"
    BY <1>4 DEF EnterShmoo, SweepVoltage, SweepCurrent, NextTest, Begins
  <2> QED BY <2>1 DEF ControllerInv
<1>5. CASE SweepTry
  <2>1. ~(at = "enter" /\ ctx = "controller")
    BY <1>5, EnterNoTry DEF SweepTry, ControllerInv
  <2>2. at' = "sweep"
    BY <1>5 DEF SweepTry, Goes
  <2> QED BY <2>1, <2>2 DEF ControllerInv
<1>6. CASE ShmooSweep
  <2>1. at = "body" /\ at' = "body" /\ ctx' = "shmoo"
    BY <1>6 DEF ShmooSweep
  <2> QED BY <2>1 DEF ControllerInv
<1>7. CASE Proceeds
  <2>1. UNCHANGED <<out, volts, amps>> /\ todo = <<>>
    BY <1>7 DEF Proceeds, supply
  <2>2. CASE at = "enter"
    <3>1. at' = "body" /\ ctx' = ctx /\ todo' = <<>>
      BY <1>7, <2>2 DEF Proceeds, Goes
    <3>2. ctx = "controller" => Entered
      <4> SUFFICES ASSUME Entering PROVE Entered
        BY <2>2 DEF ControllerInv
      <4>1. Len(todo) = 0
        BY <2>1
      <4>2. ~BeforeLimit /\ ~BeforeZero /\ ~BeforeOn /\ ~Ramping
        BY <4>1 DEF BeforeLimit, BeforeZero, BeforeOn, Ramping, RampAfter
      <4>3. ~Cutting
        BY <2>1 DEF Cutting
      <4> QED BY <4>2, <4>3 DEF Entering
    <3> QED BY <1>0, <2>1, <3>1, <3>2 DEF ControllerInv, Entered, Upsets, Limiting, Gentle
  <2>3. CASE at # "enter"
    <3>1. at' \notin {"enter", "body"}
      BY <1>7, <2>3 DEF Proceeds, Goes
    <3> QED BY <2>3, <3>1 DEF ControllerInv
  <2> QED BY <2>2, <2>3
<1>8. CASE Poll \/ PollFails \/ Press \/ UNCHANGED vars
  <2>1. UNCHANGED <<out, volts, amps, at, todo, ctx>>
    BY <1>8 DEF Poll, PollFails, Press, vars, supply, main
  <2> QED BY <1>0, <2>1 DEF ControllerInv, Upsets, Gentle, Entering, BeforeLimit, BeforeZero,
       BeforeOn, Ramping, Cutting, Entered, Op, RampAfter, Against, Limiting
<1>9. CASE HardKill \/ Start
  <2>1. at' \in {"over", "setup"} /\ UNCHANGED <<out, volts>>
    BY <1>9 DEF HardKill, Start, Goes, supply
  <2> QED BY <1>0, <2>1 DEF ControllerInv, Gentle
<1> QED BY <1>1, <1>2, <1>3, <1>4, <1>5, <1>6, <1>7, <1>8, <1>9 DEF Next, MainStep, WatchStep, TestStep

LEMMA ControllerInductive == Spec => []ControllerInv
<1>1. Init => ControllerInv
  BY DEF Init, ControllerInv
<1>2. TypeOKPower /\ ControllerInv /\ [Next]_vars => ControllerInv'
  BY ControllerStep
<1> QED BY <1>1, <1>2, TypeCorrect, PTL DEF Spec

\* SafePowerController never enters its body on a board that holds the supply at
\* its limit and whose current it could read: whatever the target voltage and the
\* limit, the ramp ends in a measurement against the limit the supply was given.
THEOREM ShortsAreCut == Spec => []ShortIsCut
<1>1. ControllerInv => ShortIsCut
  BY DEF ControllerInv, ShortIsCut, Entered
<1> QED BY <1>1, ControllerInductive, PTL

\* Whatever the target, and whatever an earlier test left the supply at: the output
\* is switched on at 0 V and no step of the ramp is more than a volt.
THEOREM RampsAreGentle == Spec => NoSurge
<1>1. TypeOKPower /\ ControllerInv /\ [Next]_vars
      => [at = "enter" /\ ctx = "controller" =>
            /\ out /\ out' => volts' <= volts + 2
            /\ ~out /\ out' => volts = 0]_vars
  BY ControllerStep DEF Gentle
<1> QED BY <1>1, TypeCorrect, ControllerInductive, PTL DEF Spec, NoSurge
=============================================================================
