--------------------------- MODULE SessionProofs ---------------------------
(* Proofs about Session, for any list of tests and any number of reruns.    *)
EXTENDS Session, FiniteSetTheorems, TLAPS

Stages == {"configure", "arm", "telemetry", "start", "between", "call", "teardown", "finish",
           "unconfigure", "sync", "over"}
Outcomes == {"none", "passed", "failed", "skipped"}

TypeOKSession ==
    /\ stage \in Stages
    /\ watchdog \in BOOLEAN /\ sink \in BOOLEAN
    /\ done \in [ToSet(Tests) -> Outcomes]
    /\ rep_setup \in Outcomes /\ rep_call \in Outcomes
    /\ receipt \in [total : Nat, failed : Nat, skipped : Nat]

\* Nothing was reported before the sink could be set.
NothingYet ==
    stage \in {"configure", "arm", "telemetry"} => \A x \in ToSet(Tests) : done[x] = "none"

\* The test body runs after its setup passed, and mes_record's finally finds the
\* reports of its own attempt.
ReportsThere ==
    /\ stage = "call" => rep_setup = "passed"
    /\ stage = "teardown" => rep_setup # "none" /\ (rep_setup = "passed" => rep_call # "none")

Passed == {x \in ToSet(Tests) : done[x] = "passed"}
CountedAsPassed == receipt.total - receipt.failed - receipt.skipped

\* Every test reported as passed has its record.
OnRecord == \A x \in Passed : \E r \in stream : r.test = x /\ r.outcome = "passed"

SessionInv ==
    /\ TypeOKSession
    /\ NothingYet /\ ReportsThere
    /\ CountedAsPassed >= 0
    /\ sink => OnRecord /\ Cardinality(Passed) <= CountedAsPassed
-----------------------------------------------------------------------------
(* Finite sets of tests                                                     *)

LEMMA TestsFinite == IsFiniteSet(ToSet(Tests))
<1>1. DOMAIN Tests = 1 .. Len(Tests) /\ Len(Tests) \in Nat
  BY SessionAssumption
<1>2. Tests \in Surjection(1 .. Len(Tests), ToSet(Tests))
  BY <1>1, SessionAssumption DEF Surjection, ToSet
<1>3. IsFiniteSet(1 .. Len(Tests))
  BY <1>1, FS_Interval
<1> QED BY <1>2, <1>3, FS_Surjection

\* One more report adds at most one test to those that passed, and none if it is
\* not that of a passed test.
LEMMA PassedGrows ==
  ASSUME NEW P \in SUBSET ToSet(Tests), NEW Q \in SUBSET ToSet(Tests), NEW x,
         Q \subseteq P \cup {x}
  PROVE  /\ Cardinality(P) \in Nat /\ Cardinality(Q) \in Nat
         /\ Cardinality(Q) <= Cardinality(P) + 1
         /\ Q \subseteq P => Cardinality(Q) <= Cardinality(P)
<1>1. IsFiniteSet(P) /\ IsFiniteSet(Q)
  BY TestsFinite, FS_Subset
<1>2. Cardinality(P) \in Nat /\ Cardinality(Q) \in Nat
  BY <1>1, FS_CardinalityType
<1>3. IsFiniteSet(P \cup {x}) /\ Cardinality(P \cup {x}) <= Cardinality(P) + 1
  BY <1>1, <1>2, FS_AddElement
<1>4. Cardinality(Q) <= Cardinality(P \cup {x}) /\ Cardinality(P \cup {x}) \in Nat
  BY <1>3, FS_Subset, FS_CardinalityType
<1>5. Q \subseteq P => Cardinality(Q) <= Cardinality(P)
  BY <1>1, FS_Subset
<1> QED BY <1>2, <1>3, <1>4, <1>5
-----------------------------------------------------------------------------
(* What a report and a record change                                        *)

\* A report changes the reports of the item, or of the finished test alone.
LEMMA ReportChanges ==
  ASSUME TypeOKSession, NEW outcome \in {"passed", "failed", "skipped"}, Reported(outcome)
  PROVE  /\ done' \in [ToSet(Tests) -> Outcomes]
         /\ rep_setup' \in Outcomes /\ rep_call' \in Outcomes
         /\ Passed' \subseteq Passed \cup {t}
         /\ outcome # "passed" => Passed' \subseteq Passed
         /\ Passed \subseteq ToSet(Tests) /\ Passed' \subseteq ToSet(Tests)
<1>1. \/ UNCHANGED <<done, rep_setup, rep_call>>
      \/ done' = [done EXCEPT ![t] = outcome] /\ rep_setup' = "none" /\ rep_call' = "none"
  BY DEF Reported
<1>2. done' \in [ToSet(Tests) -> Outcomes] /\ rep_setup' \in Outcomes /\ rep_call' \in Outcomes
  BY <1>1 DEF TypeOKSession, Outcomes
<1>3. \A x \in ToSet(Tests) : done'[x] = "passed" => done[x] = "passed" \/ (x = t /\ outcome = "passed")
  BY <1>1 DEF TypeOKSession
<1> QED BY <1>2, <1>3 DEF Passed

\* The record counts once, as passed only if its outcome is.
LEMMA CountChanges ==
  ASSUME TypeOKSession, Counted
  PROVE  /\ receipt' \in [total : Nat, failed : Nat, skipped : Nat]
         /\ CountedAsPassed' >= CountedAsPassed
         /\ Harvest.outcome = "passed" => CountedAsPassed' = CountedAsPassed + 1
<1> DEFINE f == IF Harvest.outcome \in {"failed", "unknown"} THEN 1 ELSE 0
           s == IF Harvest.outcome = "skipped" THEN 1 ELSE 0
<1>1. f \in Nat /\ s \in Nat /\ f + s <= 1 /\ (Harvest.outcome = "passed" => f = 0 /\ s = 0)
  OBVIOUS
<1>2. receipt' = [total |-> receipt.total + 1, failed |-> receipt.failed + f,
                  skipped |-> receipt.skipped + s]
  BY DEF Counted
<1>3. receipt.total \in Nat /\ receipt.failed \in Nat /\ receipt.skipped \in Nat
  BY DEF TypeOKSession
<1> HIDE DEF f, s
<1> QED BY <1>1, <1>2, <1>3 DEF CountedAsPassed

\* What EmitFails or Emitted may do to the disk: records are only added and the
\* net count never falls.
LEMMA EmitChanges ==
  ASSUME TypeOKSession, Emitted \/ EmitFails
  PROVE  /\ receipt' \in [total : Nat, failed : Nat, skipped : Nat]
         /\ CountedAsPassed' >= CountedAsPassed
         /\ stream \subseteq stream'
<1>1. CASE Counted
  BY <1>1, CountChanges DEF Emitted, EmitFails, Streamed
<1>2. CASE UNCHANGED receipt
  BY <1>2 DEF Emitted, EmitFails, Streamed, CountedAsPassed, TypeOKSession
<1> QED BY <1>1, <1>2 DEF Emitted, EmitFails
-----------------------------------------------------------------------------
(* Steps that report nothing keep what was recorded                         *)

LEMMA RecordKept ==
  ASSUME SessionInv, UNCHANGED <<done, sink>>, stream \subseteq stream',
         CountedAsPassed' >= CountedAsPassed, CountedAsPassed' \in Int
  PROVE  /\ CountedAsPassed' >= 0
         /\ sink' => (OnRecord /\ Cardinality(Passed) <= CountedAsPassed)'
<1>1. Passed' = Passed /\ Passed \subseteq ToSet(Tests)
  BY DEF Passed
<1>2. Cardinality(Passed) \in Nat
  BY <1>1, PassedGrows
<1>3. CountedAsPassed \in Int
  BY DEF SessionInv, TypeOKSession, CountedAsPassed
<1> QED BY <1>1, <1>2, <1>3 DEF SessionInv, OnRecord

\* Steps before and after the tests.
LEMMA FrameKeeps ==
  ASSUME SessionInv, \/ LoadConfig \/ _arm_estop_watchdog \/ StartTelemetry \/ pytest_sessionstart
                     \/ Interrupt \/ SessionFinish \/ EndSession \/ SyncSpool
                     \/ EStopPressed \/ HardKill \/ UNCHANGED vars
  PROVE  SessionInv'
<1> USE DEF vars, station, reports, disk
<1>1. UNCHANGED <<done, stream, receipt, rep_setup, rep_call>>
  BY DEF LoadConfig, _arm_estop_watchdog, StartTelemetry, pytest_sessionstart, Interrupt, SessionFinish,
         EndSession, SyncSpool, EStopPressed, HardKill
<1>2. stage' \in Stages /\ watchdog' \in BOOLEAN /\ sink' \in BOOLEAN
  BY DEF LoadConfig, _arm_estop_watchdog, StartTelemetry, pytest_sessionstart, Interrupt, SessionFinish,
         EndSession, SyncSpool, EStopPressed, HardKill, SessionInv, TypeOKSession, Goes, Exit, Stages
<1>4. /\ stage' \in {"call", "teardown"} => stage' = stage
      /\ stage' \in {"configure", "arm", "telemetry"} => stage \in {"configure", "arm", "telemetry"}
      /\ sink' = sink \/ stage = "telemetry"
  BY DEF LoadConfig, _arm_estop_watchdog, StartTelemetry, pytest_sessionstart, Interrupt, SessionFinish,
         EndSession, SyncSpool, EStopPressed, HardKill, Goes, Exit
<1>5. TypeOKSession' /\ NothingYet' /\ ReportsThere'
  BY <1>1, <1>2, <1>4 DEF SessionInv, TypeOKSession, NothingYet, ReportsThere
<1>6. CountedAsPassed' = CountedAsPassed /\ CountedAsPassed \in Int
  BY <1>1 DEF CountedAsPassed, SessionInv, TypeOKSession
<1>7. CASE sink' = sink
  BY <1>1, <1>5, <1>6, <1>7, RecordKept DEF SessionInv
<1>8. CASE stage = "telemetry"
  <2>1. Passed' = {}
    BY <1>1, <1>8 DEF SessionInv, NothingYet, Passed
  <2> QED BY <1>5, <1>6, <2>1, FS_EmptySet DEF SessionInv, OnRecord
<1> QED BY <1>4, <1>7, <1>8

\* The phases of a test that emit no record.
LEMMA PhaseKeeps ==
  ASSUME SessionInv, Setup \/ Call \/ FinishTeardown
  PROVE  SessionInv'
<1> USE DEF station, reports, disk
<1>1. UNCHANGED <<done, sink, watchdog>> /\ stage' \in {"call", "teardown", "unconfigure"}
  BY DEF Setup, Call, FinishTeardown, Goes
<1>2. /\ receipt' \in [total : Nat, failed : Nat, skipped : Nat]
      /\ CountedAsPassed' >= CountedAsPassed
      /\ stream \subseteq stream'
  <2>1. CASE UNCHANGED <<stream, receipt>>
    BY <2>1 DEF SessionInv, TypeOKSession, CountedAsPassed
  <2>2. CASE Emitted \/ EmitFails
    BY <2>2, EmitChanges DEF SessionInv
  <2> QED BY <2>1, <2>2 DEF Setup, Call, FinishTeardown
<1>3. CountedAsPassed' \in Int
  BY <1>2 DEF CountedAsPassed
<1>4. rep_setup' \in Outcomes /\ rep_call' \in Outcomes
  BY DEF Setup, Call, FinishTeardown, SessionInv, TypeOKSession, Outcomes
<1>5. TypeOKSession' /\ NothingYet'
  BY <1>1, <1>2, <1>4 DEF SessionInv, TypeOKSession, NothingYet, Stages
<1>7. ReportsThere'
  <2>1. CASE Setup
    BY <2>1 DEF ReportsThere, Setup, Goes
  <2>2. CASE Call
    BY <2>2 DEF SessionInv, ReportsThere, Call, Goes
  <2>3. CASE FinishTeardown
    BY <2>3 DEF ReportsThere, FinishTeardown, Goes
  <2> QED BY <2>1, <2>2, <2>3
<1> QED BY <1>1, <1>2, <1>3, <1>5, <1>7, RecordKept DEF SessionInv

\* A report that is not "passed" takes no test into those that passed.
LEMMA NotPassedKeeps ==
  ASSUME SessionInv, NEW outcome \in {"failed", "skipped"}, Reported(outcome),
         UNCHANGED <<sink, watchdog>>, stage \in {"between", "teardown"}, stage' = "between",
         receipt' \in [total : Nat, failed : Nat, skipped : Nat],
         CountedAsPassed' >= CountedAsPassed, stream \subseteq stream'
  PROVE  SessionInv'
<1>1. /\ done' \in [ToSet(Tests) -> Outcomes]
      /\ rep_setup' \in Outcomes /\ rep_call' \in Outcomes
      /\ Passed' \subseteq Passed
      /\ Passed \subseteq ToSet(Tests) /\ Passed' \subseteq ToSet(Tests)
  BY ReportChanges DEF SessionInv
<1>2. /\ Cardinality(Passed) \in Nat /\ Cardinality(Passed') \in Nat
      /\ Cardinality(Passed') <= Cardinality(Passed)
  BY <1>1, PassedGrows
<1>3. TypeOKSession' /\ NothingYet' /\ ReportsThere'
  BY <1>1 DEF SessionInv, TypeOKSession, NothingYet, ReportsThere, Stages
<1>4. CountedAsPassed \in Int /\ CountedAsPassed' \in Int
  BY DEF CountedAsPassed, SessionInv, TypeOKSession
<1>5. OnRecord => OnRecord'
  BY <1>1 DEF OnRecord
<1> QED BY <1>2, <1>3, <1>4, <1>5 DEF SessionInv

\* A test reported as passed was recorded and counted as passed in the same step.
LEMMA PassedKeeps ==
  ASSUME SessionInv, stage = "teardown", stage' = "between", Reported("passed"), Verdict = "passed",
         UNCHANGED <<sink, watchdog>>,
         \/ ~sink /\ UNCHANGED <<stream, receipt>>
         \/ sink /\ Emitted
  PROVE  SessionInv'
<1>1. /\ done' \in [ToSet(Tests) -> Outcomes]
      /\ rep_setup' \in Outcomes /\ rep_call' \in Outcomes
      /\ Passed' \subseteq Passed \cup {t}
      /\ Passed \subseteq ToSet(Tests) /\ Passed' \subseteq ToSet(Tests)
  BY ReportChanges DEF SessionInv
<1>2. /\ Cardinality(Passed) \in Nat /\ Cardinality(Passed') \in Nat
      /\ Cardinality(Passed') <= Cardinality(Passed) + 1
  BY <1>1, PassedGrows
<1>3. Harvest.outcome = "passed" /\ Harvest.test = t
  BY DEF Harvest, Verdict, SessionInv, ReportsThere
<1>4. CASE ~sink /\ UNCHANGED <<stream, receipt>>
  BY <1>1, <1>4 DEF SessionInv, TypeOKSession, NothingYet, ReportsThere, Stages,
     CountedAsPassed
<1>5. CASE sink /\ Emitted
  <2>1. /\ receipt' \in [total : Nat, failed : Nat, skipped : Nat]
        /\ CountedAsPassed' = CountedAsPassed + 1
        /\ stream' = stream \union {Harvest}
    BY <1>3, <1>5, CountChanges DEF SessionInv, Emitted, Streamed
  <2>2. CountedAsPassed \in Int
    BY DEF CountedAsPassed, SessionInv, TypeOKSession
  <2>3. OnRecord'
    BY <1>1, <1>3, <1>5, <2>1 DEF SessionInv, OnRecord
  <2>4. TypeOKSession' /\ NothingYet' /\ ReportsThere'
    BY <1>1, <2>1 DEF SessionInv, TypeOKSession, NothingYet, ReportsThere, Stages
  <2> QED BY <1>2, <1>5, <2>1, <2>2, <2>3, <2>4 DEF SessionInv
<1> QED BY <1>4, <1>5

LEMMA TestKeeps ==
  ASSUME SessionInv, SetupWithoutRecord \/ Teardown
  PROVE  SessionInv'
<1> USE DEF station, disk
<1>1. CASE SetupWithoutRecord
  <2>1. /\ UNCHANGED <<sink, watchdog, stream, receipt>>
        /\ stage = "between" /\ stage' = "between"
        /\ Reported("failed") \/ Reported("skipped")
    BY <1>1 DEF SetupWithoutRecord
  <2>2. /\ receipt' \in [total : Nat, failed : Nat, skipped : Nat]
        /\ CountedAsPassed' >= CountedAsPassed
    BY <2>1 DEF SessionInv, TypeOKSession, CountedAsPassed
  <2> QED BY <2>1, <2>2, NotPassedKeeps
<1>2. CASE Teardown
  <2>1. UNCHANGED <<sink, watchdog>> /\ stage = "teardown" /\ stage' = "between"
    BY <1>2 DEF Teardown
  <2>2. /\ receipt' \in [total : Nat, failed : Nat, skipped : Nat]
        /\ CountedAsPassed' >= CountedAsPassed
        /\ stream \subseteq stream'
    <3>1. CASE UNCHANGED <<stream, receipt>>
      BY <3>1 DEF SessionInv, TypeOKSession, CountedAsPassed
    <3>2. CASE Emitted \/ EmitFails
      BY <3>2, EmitChanges DEF SessionInv
    <3> QED BY <1>2, <3>1, <3>2 DEF Teardown
  <2>3. Verdict \in {"passed", "failed", "skipped"}
    BY <2>1 DEF Verdict, SessionInv, TypeOKSession, ReportsThere, Outcomes
  <2>4. CASE \E outcome \in {"failed", "skipped"} : Reported(outcome)
    BY <2>1, <2>2, <2>4, NotPassedKeeps
  <2>5. CASE ~\E outcome \in {"failed", "skipped"} : Reported(outcome)
    <3>1. /\ Verdict = "passed" /\ Reported("passed")
          /\ (~sink /\ UNCHANGED <<stream, receipt>>) \/ (sink /\ Emitted)
      BY <1>2, <2>3, <2>5 DEF Teardown
    <3> QED BY <2>1, <3>1, PassedKeeps
  <2> QED BY <2>4, <2>5
<1> QED BY <1>1, <1>2

LEMMA SessionInductive == Spec => []SessionInv
<1>1. Init => SessionInv
  <2> SUFFICES ASSUME Init PROVE SessionInv
    OBVIOUS
  <2>1. TypeOKSession
    BY DEF Init, TypeOKSession, Stages, Outcomes
  <2>2. CountedAsPassed = 0
    BY DEF Init, CountedAsPassed
  <2>3. NothingYet /\ ReportsThere /\ ~sink
    BY DEF Init, NothingYet, ReportsThere
  <2> QED BY <2>1, <2>2, <2>3 DEF SessionInv
<1>2. SessionInv /\ [Next]_vars => SessionInv'
  BY FrameKeeps, PhaseKeeps, TestKeeps DEF Next, Over
<1> QED BY <1>1, <1>2, PTL DEF Spec

\* A test that pytest reported as passed has its record on disk and is counted
\* as passed, for any list of tests and any number of reruns, whatever the
\* exporters raised and wherever the session was interrupted or killed.
THEOREM PassedOnRecord == Spec => []NoSilentDrop
<1>1. SessionInv => NoSilentDrop
  BY DEF SessionInv, NoSilentDrop, OnRecord, Passed, CountedAsPassed
<1> QED BY <1>1, SessionInductive, PTL
=============================================================================
