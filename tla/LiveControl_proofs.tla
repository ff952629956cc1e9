-------------------------- MODULE LiveControl_proofs --------------------------
(***************************************************************************)
(* Proofs about LiveControl, for every value of its constants; and, at the *)
(* end, that what ReleaseGate tells operators of it agrees with it.  Most  *)
(* of that agreement is between conditions written apart over one state;   *)
(* that a staged candidate the gate offers is not degraded is not checked  *)
(* by the gate at all, and rests on the invariant that nothing degrades    *)
(* the guardrail without blocking it.                                      *)
(***************************************************************************)
EXTENDS ReleaseGate, TLAPS, FiniteSetTheorems

-----------------------------------------------------------------------------
(* Days and counters *)

LEMMA DayBounds ==
  ASSUME NEW t \in Nat
  PROVE  Day(t) \in Nat /\ DayLength * Day(t) <= t /\ t < DayLength * Day(t) + DayLength
BY ConstantsOK, SMTT(30) DEF Day

LEMMA NextMultiple ==
  ASSUME NEW a \in Nat, NEW b \in Nat, a > b
  PROVE  DayLength * a >= DayLength * b + DayLength
BY ConstantsOK, SMTT(30)

(* The day never goes back as the clock moves on. *)
LEMMA DayMonotone ==
  ASSUME NEW s \in Nat, NEW t \in Nat, s <= t
  PROVE  Day(s) <= Day(t)
<1>1. SUFFICES ASSUME Day(s) > Day(t) PROVE FALSE
  BY DayBounds
<1>2. DayLength * Day(s) >= DayLength * Day(t) + DayLength
  BY <1>1, DayBounds, NextMultiple
<1> QED
  BY <1>1, <1>2, DayBounds, ConstantsOK

LEMMA KeptTypes ==
  ASSUME TypeOK
  PROVE  /\ KeptTrades \subseteq recentTrades
         /\ KeptFailures \subseteq recentFailures
         /\ KeptNotional \in Nat
         /\ Day(now) \in Nat
BY DayBounds DEF TypeOK, KeptTrades, KeptFailures, KeptNotional

-----------------------------------------------------------------------------
(* Type correctness *)

(* The part of the type invariant that is about the operator's controls. *)
ControlType ==
  /\ armed \in BOOLEAN /\ blocked \in BOOLEAN /\ degraded \in BOOLEAN
  /\ manualRearmRequired \in BOOLEAN /\ roundStatus \in RoundStatus

CountersType ==
  /\ recentTrades \subseteq Entry /\ recentFailures \subseteq Entry
  /\ dailyNotional \in Nat /\ dailyKey \in Nat

RestType ==
  /\ deployment \in DeploymentType /\ rollout \in RolloutPosture /\ halted \in BOOLEAN
  /\ inFlight \in Nat /\ lastExecutionAt \in Nat \cup {NoExecution} /\ now \in Nat
  /\ phase \in [Handler -> {"idle", "admitted", "sent"}]
  /\ attempt \in [Handler -> AttemptRecord]
  /\ admissions \in Nat /\ leaked \in Nat
  /\ confirmed \subseteq Trade /\ traded \in [day : Nat, notional : Nat]
  /\ acknowledged \subseteq Entry

LEMMA CleanupType ==
  ASSUME TypeOK, CleanupCounters
  PROVE  CountersType'
BY KeptTypes DEF TypeOK, CleanupCounters, CountersType

LEMMA SnapshotType ==
  ASSUME TypeOK, GetSnapshot, UNCHANGED <<deployment, rollout>>,
         halted' \in BOOLEAN, acknowledged' \subseteq Entry
  PROVE  CountersType' /\ RestType'
<1>1. CountersType'
  BY CleanupType DEF GetSnapshot
<1>2. RestType'
  BY DEF TypeOK, RestType, GetSnapshot, calls, history
<1> QED
  BY <1>1, <1>2

LEMMA RoundTransitionType ==
  ASSUME TypeOK, NEW next \in RoundStatus, RoundTransition(next)
  PROVE  ControlType'
BY DEF TypeOK, ControlType, RoundTransition, RoundStatus, Terminal

LEMMA OperatorType ==
  ASSUME TypeOK, Operator
  PROVE  TypeOK'
<1>0. \A s \in RoundStatus : RoundTransition(s) => ControlType'
  BY RoundTransitionType
<1>1. ControlType'
  <2>1. CASE ReadSnapshot
    BY <2>1 DEF ReadSnapshot, control, TypeOK, ControlType
  <2>2. CASE ArmMicroLive
    BY <1>0, <2>2 DEF ArmMicroLive, ArmAccepted, ArmDenied, control, TypeOK, ControlType, RoundStatus
  <2>3. CASE DisarmMicroLive
    BY <2>3 DEF DisarmMicroLive, TypeOK, ControlType
  <2>4. CASE KillMicroLive
    BY <1>0, <2>4 DEF KillMicroLive, RoundStatus
  <2>5. CASE ResetKilledMicroLive
    BY <1>0, <2>5 DEF ResetKilledMicroLive, TypeOK, ControlType, RoundStatus
  <2>6. CASE PreflightLiveTestRound
    BY <1>0, <2>6 DEF PreflightLiveTestRound, RoundNoop, control, TypeOK, ControlType, RoundStatus
  <2>7. CASE StartLiveTestRound
    BY <1>0, <2>7 DEF StartLiveTestRound, RoundNoop, control, TypeOK, ControlType, RoundStatus
  <2>8. CASE StopLiveTestRound
    BY <1>0, <2>8 DEF StopLiveTestRound, RoundNoop, control, TypeOK, ControlType, RoundStatus
  <2>9. CASE CompleteLiveTestRound
    BY <1>0, <2>9 DEF CompleteLiveTestRound, RoundNoop, control, TypeOK, ControlType, RoundStatus
  <2>10. CASE ResetLiveTestRound
    BY <1>0, <2>10 DEF ResetLiveTestRound, RoundNoop, control, TypeOK, ControlType, RoundStatus
  <2> QED
    BY <2>1, <2>2, <2>3, <2>4, <2>5, <2>6, <2>7, <2>8, <2>9, <2>10 DEF Operator
<1>2. /\ GetSnapshot /\ UNCHANGED <<deployment, rollout>>
      /\ halted' \in {halted, TRUE}
      /\ acknowledged' \in {acknowledged, KeptFailures}
  BY DEF Operator, Operation, config, ReadSnapshot, ArmMicroLive, ArmAccepted, ArmDenied,
         DisarmMicroLive, KillMicroLive, ResetKilledMicroLive, PreflightLiveTestRound,
         StartLiveTestRound, StopLiveTestRound, CompleteLiveTestRound, ResetLiveTestRound
<1>3. halted' \in BOOLEAN /\ acknowledged' \subseteq Entry
  BY <1>2, KeptTypes DEF TypeOK
<1>4. CountersType' /\ RestType'
  BY <1>2, <1>3, SnapshotType
<1> QED
  BY <1>1, <1>4 DEF TypeOK, ControlType, CountersType, RestType

LEMMA AttemptType ==
  ASSUME TypeOK, NEW h \in Handler
  PROVE  /\ attempt[h] \in AttemptRecord
         /\ attempt[h].id \in Nat /\ attempt[h].startedAt \in Nat
         /\ attempt[h].notional \in Nat /\ attempt[h].after \in SUBSET Nat
BY DEF TypeOK, AttemptRecord

LEMMA EndCallType ==
  ASSUME TypeOK, NEW h \in Handler, EndCall(h)
  PROVE  /\ phase' \in [Handler -> {"idle", "admitted", "sent"}]
         /\ attempt' \in [Handler -> AttemptRecord]
<1>1. NoAttempt \in AttemptRecord
  BY DEF NoAttempt, AttemptRecord
<1> QED
  BY <1>1 DEF EndCall, TypeOK

LEMMA ReleaseType ==
  ASSUME TypeOK, NEW h \in Handler, ReleaseInFlight(h)
  PROVE  /\ inFlight' \in Nat /\ dailyKey' \in Nat
         /\ phase' \in [Handler -> {"idle", "admitted", "sent"}]
         /\ attempt' \in [Handler -> AttemptRecord]
         /\ UNCHANGED <<deployment, rollout, halted, now, admissions, leaked, acknowledged>>
<1>1. EndCall(h)
  BY DEF ReleaseInFlight
<1>2. inFlight' \in Nat /\ dailyKey' \in Nat
  BY KeptTypes DEF ReleaseInFlight, TypeOK
<1> QED
  BY <1>1, <1>2, EndCallType DEF ReleaseInFlight, config

LEMMA EvaluateType ==
  ASSUME TypeOK, NEW h \in Handler, NEW n \in Notional, EvaluateMicroLiveIntent(h, n)
  PROVE  TypeOK'
<1> USE DEF EvaluateMicroLiveIntent
<1>1. ControlType'
  BY DEF TypeOK, ControlType, control
<1>2. CountersType'
  <2>1. CASE UNCHANGED counters
    BY <2>1 DEF TypeOK, CountersType, counters
  <2>2. CASE CleanupCounters
    BY <2>2, CleanupType
  <2> QED
    BY <2>1, <2>2
<1>3. RestType'
  <2>1. CASE UNCHANGED <<inFlight, calls, admissions>>
    BY <2>1 DEF TypeOK, RestType, calls, config
  <2>2. CASE /\ admissions' = admissions + 1 /\ inFlight' = inFlight + 1
             /\ phase' = [phase EXCEPT ![h] = "admitted"]
             /\ attempt' = [attempt EXCEPT ![h] =
                  [id |-> admissions + 1, startedAt |-> now, notional |-> n,
                   after |-> {c.id : c \in confirmed}]]
    <3>1. {c.id : c \in confirmed} \subseteq Nat
      BY DEF TypeOK, Trade
    <3>2. [id |-> admissions + 1, startedAt |-> now, notional |-> n,
           after |-> {c.id : c \in confirmed}] \in AttemptRecord
      BY <3>1, ConstantsOK DEF TypeOK, AttemptRecord
    <3>3. attempt' \in [Handler -> AttemptRecord]
      BY <2>2, <3>2 DEF TypeOK
    <3> QED
      BY <2>2, <3>3 DEF TypeOK, RestType, config
  <2> QED
    BY <2>1, <2>2
<1> QED
  BY <1>1, <1>2, <1>3 DEF TypeOK, ControlType, CountersType, RestType

LEMMA FinalizeType ==
  ASSUME TypeOK, NEW h \in Handler, FinalizeSuccess(h) \/ FinalizeFailure(h)
  PROVE  TypeOK'
<1>1. ReleaseInFlight(h)
  BY DEF FinalizeSuccess, FinalizeFailure
<1>2. ControlType'
  BY DEF FinalizeSuccess, FinalizeFailure, BlockAndDisarm, control, TypeOK, ControlType
<1>3. [id |-> attempt[h].id, at |-> now] \in Entry
  BY AttemptType DEF TypeOK, Entry
<1>4. CountersType'
  BY <1>1, <1>3, ReleaseType, KeptTypes, AttemptType
  DEF FinalizeSuccess, FinalizeFailure, TypeOK, CountersType
<1>5. [id |-> attempt[h].id, startedAt |-> attempt[h].startedAt, at |-> now,
       notional |-> attempt[h].notional, after |-> attempt[h].after] \in Trade
  BY AttemptType DEF TypeOK, Trade
<1>6. confirmed' \subseteq Trade /\ lastExecutionAt' \in Nat \cup {NoExecution}
  BY <1>5 DEF FinalizeSuccess, FinalizeFailure, StartCooldown, TypeOK
<1>7. traded' \in [day : Nat, notional : Nat]
  BY KeptTypes, AttemptType DEF FinalizeSuccess, FinalizeFailure, TradedToday, TypeOK
<1>8. RestType'
  BY <1>1, <1>6, <1>7, ReleaseType DEF TypeOK, RestType
<1> QED
  BY <1>2, <1>4, <1>8 DEF TypeOK, ControlType, CountersType, RestType

LEMMA CrashType ==
  ASSUME TypeOK, Crash
  PROVE  TypeOK'
<1>1. {h \in Handler : phase[h] # "idle"} \subseteq Handler
  OBVIOUS
<1>2. Cardinality({h \in Handler : phase[h] # "idle"}) \in Nat
  BY <1>1, ConstantsOK, FS_Subset, FS_CardinalityType
<1>3. NoAttempt \in AttemptRecord
  BY DEF NoAttempt, AttemptRecord
<1>4. /\ phase' \in [Handler -> {"idle", "admitted", "sent"}]
      /\ attempt' \in [Handler -> AttemptRecord]
      /\ leaked' \in Nat
  BY <1>2, <1>3 DEF Crash, TypeOK
<1> QED
  BY <1>4 DEF Crash, TypeOK, config, control, counters

(* Every variable keeps its type. *)
THEOREM TypeCorrect == Spec => []TypeOK
<1>1. Init => TypeOK
  <2> SUFFICES ASSUME Init PROVE TypeOK
    OBVIOUS
  <2>1. NoAttempt \in AttemptRecord
    BY DEF NoAttempt, AttemptRecord
  <2>2. attempt \in [Handler -> AttemptRecord]
    BY <2>1 DEF Init
  <2>3. phase \in [Handler -> {"idle", "admitted", "sent"}]
    BY DEF Init
  <2>4. lastExecutionAt \in Nat \cup {NoExecution}
    BY DEF Init
  <2>5. deployment \in DeploymentType /\ rollout \in RolloutPosture
    BY ConstantsOK DEF Init
  <2> QED
    BY <2>2, <2>3, <2>4, <2>5 DEF Init, TypeOK, RoundStatus
<1>2. TypeOK /\ [Next]_vars => TypeOK'
  <2> SUFFICES ASSUME TypeOK, [Next]_vars PROVE TypeOK'
    OBVIOUS
  <2>1. CASE Operator
    BY <2>1, OperatorType
  <2>2. CASE \E h \in Handler, n \in Notional : EvaluateMicroLiveIntent(h, n)
    BY <2>2, EvaluateType
  <2>3. CASE \E h \in Handler : EvidenceThrows(h)
    <3> PICK h \in Handler : EvidenceThrows(h)
      BY <2>3
    <3> EndCall(h)
      BY DEF EvidenceThrows
    <3> QED
      BY EndCallType DEF EvidenceThrows, TypeOK, config, control, counters
  <2>4. CASE \E h \in Handler : SendTransaction(h)
    BY <2>4 DEF SendTransaction, TypeOK, config, control, counters, history
  <2>5. CASE \E h \in Handler : FinalizeSuccess(h) \/ FinalizeFailure(h)
    BY <2>5, FinalizeType
  <2>6. CASE Crash
    BY <2>6, CrashType
  <2>7. CASE \E b \in BOOLEAN : SetKillSwitch(b)
    BY <2>7 DEF SetKillSwitch, TypeOK, control, counters, calls, history
  <2>8. CASE \E r \in Rollout : SetRollout(r)
    BY <2>8, ConstantsOK DEF SetRollout, TypeOK, control, counters, calls, history
  <2>9. CASE Tick
    BY <2>9 DEF Tick, TypeOK, config, control, counters, calls, history
  <2>10. CASE UNCHANGED vars
    BY <2>10 DEF vars, TypeOK, config, control, counters, calls, history
  <2> QED
    BY <2>1, <2>2, <2>3, <2>4, <2>5, <2>6, <2>7, <2>8, <2>9, <2>10 DEF Next
<1> QED
  BY <1>1, <1>2, PTL DEF Spec
-----------------------------------------------------------------------------
(* What the groups of actions leave alone *)

(* An operator's action cleans the counters and touches no execution. *)
LEMMA OperatorKeeps ==
  ASSUME Operator
  PROVE  /\ CleanupCounters
         /\ UNCHANGED <<deployment, inFlight, lastExecutionAt, now, phase, attempt,
                        admissions, confirmed, leaked>>
BY DEF Operator, Operation, GetSnapshot, config, calls, history, ReadSnapshot, ArmMicroLive,
       ArmAccepted, ArmDenied, DisarmMicroLive, KillMicroLive, ResetKilledMicroLive,
       PreflightLiveTestRound, StartLiveTestRound, StopLiveTestRound,
       CompleteLiveTestRound, ResetLiveTestRound

(* Only an accepted arming arms. *)
LEMMA OperatorArms ==
  ASSUME Operator, armed' = TRUE, armed = FALSE
  PROVE  ArmAccepted
BY DEF Operator, RoundTransition, RoundNoop, control, ReadSnapshot, ArmMicroLive, ArmDenied,
       DisarmMicroLive, KillMicroLive, ResetKilledMicroLive, PreflightLiveTestRound,
       StartLiveTestRound, StopLiveTestRound, CompleteLiveTestRound, ResetLiveTestRound

(* An operator's action changes the acknowledged failures only by arming. *)
LEMMA OperatorAcknowledges ==
  ASSUME Operator, ~ArmAccepted
  PROVE  acknowledged' = acknowledged
BY DEF Operator, Operation, ReadSnapshot, ArmMicroLive, ArmDenied,
       DisarmMicroLive, KillMicroLive, ResetKilledMicroLive, PreflightLiveTestRound,
       StartLiveTestRound, StopLiveTestRound, CompleteLiveTestRound, ResetLiveTestRound

LEMMA FinishCall ==
  ASSUME TypeOK, NEW h \in Handler,
         EvidenceThrows(h) \/ FinalizeSuccess(h) \/ FinalizeFailure(h)
  PROVE  /\ phase[h] # "idle" /\ EndCall(h)
         /\ UNCHANGED <<deployment, now, admissions>>
BY DEF EvidenceThrows, FinalizeSuccess, FinalizeFailure, ReleaseInFlight, config

-----------------------------------------------------------------------------
(* The in-flight counter *)

LEMMA ExecutingFinite ==
  IsFiniteSet(Executing) /\ Cardinality(Executing) \in Nat
<1>1. Executing \subseteq Handler
  BY DEF Executing
<1> QED
  BY <1>1, ConstantsOK, FS_Subset, FS_CardinalityType

LEMMA CallEnds ==
  ASSUME TypeOK, NEW h \in Handler, phase[h] # "idle", EndCall(h)
  PROVE  Cardinality(Executing') = Cardinality(Executing) - 1 /\ Cardinality(Executing) > 0
<1>1. Executing' = Executing \ {h} /\ h \in Executing
  BY DEF Executing, EndCall, TypeOK
<1>2. Executing' \subseteq Handler
  BY DEF Executing
<1>3. Cardinality(Executing') \in Nat
  BY <1>2, ConstantsOK, FS_Subset, FS_CardinalityType
<1> QED
  BY <1>1, <1>3, ExecutingFinite, FS_RemoveElement

LEMMA CallBegins ==
  ASSUME TypeOK, NEW h \in Handler, phase[h] = "idle",
         phase' = [phase EXCEPT ![h] = "admitted"]
  PROVE  Cardinality(Executing') = Cardinality(Executing) + 1
<1>1. Executing' = Executing \cup {h} /\ h \notin Executing
  BY DEF Executing, TypeOK
<1> QED
  BY <1>1, ExecutingFinite, FS_AddElement

(* Every slot of the in-flight counter belongs to an execution in progress  *)
(* or to one that died, and the cap bounds them all.                        *)
THEOREM SlotsAccounted == Spec => []InFlightAccounted
<1>1. Init => InFlightAccounted
  <2> SUFFICES ASSUME Init PROVE InFlightAccounted
    OBVIOUS
  <2>1. Executing = {}
    BY DEF Init, Executing
  <2> QED
    BY <2>1, FS_EmptySet, ConstantsOK DEF Init, InFlightAccounted
<1>2. TypeOK /\ InFlightAccounted /\ [Next]_vars => InFlightAccounted'
  <2> SUFFICES ASSUME TypeOK, InFlightAccounted, [Next]_vars PROVE InFlightAccounted'
    OBVIOUS
  <2>1. CASE UNCHANGED <<phase, inFlight, leaked>>
    BY <2>1 DEF InFlightAccounted, Executing
  <2>2. CASE Operator
    BY <2>1, <2>2, OperatorKeeps
  <2>3. CASE \E h \in Handler, n \in Notional : EvaluateMicroLiveIntent(h, n)
    <3> PICK h \in Handler, n \in Notional : EvaluateMicroLiveIntent(h, n)
      BY <2>3
    <3>1. CASE /\ Permitted /\ WithinCaps(n) /\ inFlight' = inFlight + 1
               /\ phase' = [phase EXCEPT ![h] = "admitted"] /\ leaked' = leaked
      <4>1. Cardinality(Executing') = Cardinality(Executing) + 1
        BY <3>1, CallBegins DEF EvaluateMicroLiveIntent
      <4> QED
        BY <3>1, <4>1, ExecutingFinite, ConstantsOK DEF InFlightAccounted, WithinCaps, TypeOK
    <3>2. CASE UNCHANGED <<phase, inFlight, leaked>>
      BY <2>1, <3>2
    <3> QED
      BY <3>1, <3>2 DEF EvaluateMicroLiveIntent, calls
  <2>4. CASE \E h \in Handler : EvidenceThrows(h) \/ FinalizeSuccess(h) \/ FinalizeFailure(h)
    <3> PICK h \in Handler : EvidenceThrows(h) \/ FinalizeSuccess(h) \/ FinalizeFailure(h)
      BY <2>4
    <3>1. Cardinality(Executing') = Cardinality(Executing) - 1 /\ Cardinality(Executing) > 0
      BY FinishCall, CallEnds
    <3>2. CASE EvidenceThrows(h)
      BY <3>1, <3>2, ExecutingFinite DEF EvidenceThrows, InFlightAccounted, TypeOK
    <3>3. CASE ReleaseInFlight(h)
      BY <3>1, <3>3, ExecutingFinite, ConstantsOK DEF ReleaseInFlight, InFlightAccounted, TypeOK
    <3> QED
      BY <3>2, <3>3 DEF FinalizeSuccess, FinalizeFailure
  <2>5. CASE \E h \in Handler : SendTransaction(h)
    <3> PICK h \in Handler : SendTransaction(h)
      BY <2>5
    <3>1. Executing' = Executing
      BY DEF SendTransaction, Executing, TypeOK
    <3> QED
      BY <3>1 DEF SendTransaction, InFlightAccounted, history
  <2>6. CASE Crash
    <3>1. Executing' = {} /\ leaked' = leaked + Cardinality(Executing) /\ inFlight' = inFlight
      BY <2>6 DEF Crash, Executing
    <3> QED
      BY <3>1, FS_EmptySet, ExecutingFinite DEF InFlightAccounted, TypeOK
  <2>7. CASE (\E b \in BOOLEAN : SetKillSwitch(b)) \/ (\E r \in Rollout : SetRollout(r))
             \/ Tick \/ UNCHANGED vars
    BY <2>1, <2>7 DEF SetKillSwitch, SetRollout, Tick, vars, calls, history
  <2> QED
    BY <2>2, <2>3, <2>4, <2>5, <2>6, <2>7 DEF Next
<1> QED
  BY <1>1, <1>2, TypeCorrect, PTL DEF Spec
-----------------------------------------------------------------------------
(* Failures and rounds disarm *)

FailuresFinite == IsFiniteSet(recentFailures)

LEMMA KeptFailuresFewer ==
  ASSUME FailuresFinite
  PROVE  /\ IsFiniteSet(KeptFailures)
         /\ Cardinality(KeptFailures) \in Nat /\ Cardinality(recentFailures) \in Nat
         /\ Cardinality(KeptFailures) <= Cardinality(recentFailures)
<1>1. KeptFailures \subseteq recentFailures
  BY DEF KeptFailures
<1> QED
  BY <1>1, FS_Subset, FS_CardinalityType DEF FailuresFinite

(* Micro-live stays armed over the failure threshold only when an operator  *)
(* armed it with those failures on record.                                  *)
THEOREM FailuresAlwaysDisarm == Spec => []FailuresDisarm
<1>1. Init => FailuresFinite /\ FailuresDisarm
  BY FS_EmptySet DEF Init, FailuresFinite, FailuresDisarm
<1>2. TypeOK /\ FailuresFinite /\ FailuresDisarm /\ [Next]_vars
        => FailuresFinite' /\ FailuresDisarm'
  <2> SUFFICES ASSUME TypeOK, FailuresFinite, FailuresDisarm, [Next]_vars
               PROVE  FailuresFinite' /\ FailuresDisarm'
    OBVIOUS
  <2>1. CASE UNCHANGED <<armed, recentFailures, acknowledged>>
    BY <2>1 DEF FailuresFinite, FailuresDisarm
  <2>2. ASSUME recentFailures' = KeptFailures, armed' => armed, UNCHANGED acknowledged
        PROVE  FailuresFinite' /\ FailuresDisarm'
    <3>1. KeptFailures \subseteq recentFailures
      BY DEF KeptFailures
    <3> QED
      BY <2>2, <3>1, KeptFailuresFewer, ConstantsOK DEF FailuresFinite, FailuresDisarm
  <2>3. CASE Operator
    <3>1. recentFailures' = KeptFailures /\ FailuresFinite'
      BY <2>3, OperatorKeeps, KeptFailuresFewer DEF CleanupCounters, FailuresFinite
    <3>2. CASE ArmAccepted
      BY <3>1, <3>2 DEF ArmAccepted, FailuresDisarm
    <3>3. CASE ~ArmAccepted
      <4>1. armed' \in BOOLEAN
        BY <2>3, OperatorType DEF TypeOK
      <4>2. armed' => armed
        BY <2>3, <3>3, <4>1, OperatorArms DEF TypeOK
      <4> QED
        BY <2>2, <2>3, <3>1, <3>3, <4>2, OperatorAcknowledges
    <3> QED
      BY <3>2, <3>3
  <2>4. CASE \E h \in Handler, n \in Notional : EvaluateMicroLiveIntent(h, n)
    <3> PICK h \in Handler, n \in Notional : EvaluateMicroLiveIntent(h, n)
      BY <2>4
    <3>1. UNCHANGED acknowledged /\ (armed' => armed)
      BY DEF EvaluateMicroLiveIntent, control
    <3>2. recentFailures' = KeptFailures \/ UNCHANGED <<armed, recentFailures>>
      BY DEF EvaluateMicroLiveIntent, CleanupCounters, counters
    <3> QED
      BY <2>1, <2>2, <3>1, <3>2
  <2>5. CASE \E h \in Handler : FinalizeSuccess(h)
    BY <2>2, <2>5 DEF FinalizeSuccess, ReleaseInFlight, control
  <2>6. CASE \E h \in Handler : FinalizeFailure(h)
    <3> PICK h \in Handler : FinalizeFailure(h)
      BY <2>6
    <3>1. FailuresFinite'
      BY KeptFailuresFewer, FS_AddElement DEF FinalizeFailure, FailuresFinite
    <3>2. CASE Cardinality(recentFailures') >= FailuresToBlock
      BY <3>1, <3>2, FS_CardinalityType, ConstantsOK
      DEF FinalizeFailure, BlockAndDisarm, FailuresDisarm, FailuresFinite
    <3>3. CASE Cardinality(recentFailures') < FailuresToBlock
      BY <3>1, <3>3, FS_CardinalityType, ConstantsOK DEF FailuresDisarm, FailuresFinite
    <3> QED
      BY <3>2, <3>3 DEF FinalizeFailure
  <2>7. CASE \/ \E h \in Handler : EvidenceThrows(h) \/ SendTransaction(h)
             \/ Crash \/ Tick \/ UNCHANGED vars
             \/ \E b \in BOOLEAN : SetKillSwitch(b)
             \/ \E r \in Rollout : SetRollout(r)
    BY <2>1, <2>7 DEF EvidenceThrows, SendTransaction, Crash, Tick, SetKillSwitch, SetRollout,
                      vars, control, counters
  <2> QED
    BY <2>3, <2>4, <2>5, <2>6, <2>7 DEF Next
<1> QED
  BY <1>1, <1>2, TypeCorrect, PTL DEF Spec

(* A live-test round that ended stays disarmed until it is reset. *)
THEOREM TerminalRoundsDisarmed == Spec => []TerminalRoundDisarmed
<1>1. Init => TerminalRoundDisarmed
  BY DEF Init, TerminalRoundDisarmed
<1>2. TypeOK /\ TerminalRoundDisarmed /\ [Next]_vars => TerminalRoundDisarmed'
  <2> SUFFICES ASSUME TypeOK, TerminalRoundDisarmed, [Next]_vars PROVE TerminalRoundDisarmed'
    OBVIOUS
  <2>1. CASE UNCHANGED <<deployment, roundStatus>> /\ (armed' => armed)
    BY <2>1 DEF TerminalRoundDisarmed
  <2>2. ASSUME NEW s \in RoundStatus, RoundTransition(s) PROVE TerminalRoundDisarmed'
    BY <2>2 DEF RoundTransition, TerminalRoundDisarmed, Terminal
  <2>3. CASE ReadSnapshot \/ DisarmMicroLive
    BY <2>1, <2>3 DEF ReadSnapshot, DisarmMicroLive, control, config
  <2>4. CASE ArmMicroLive
    <3>1. CASE ArmAccepted
      BY <2>4, <3>1 DEF ArmMicroLive, ArmAccepted, MayArm, config, TerminalRoundDisarmed
    <3>2. CASE ArmDenied
      BY <2>1, <2>2, <2>4, <3>2 DEF ArmMicroLive, ArmDenied, control, config, RoundStatus
    <3> QED
      BY <2>4, <3>1, <3>2 DEF ArmMicroLive
  <2>5. CASE KillMicroLive
    BY <2>2, <2>5 DEF KillMicroLive, RoundStatus
  <2>6. CASE ResetKilledMicroLive
    BY <2>2, <2>6 DEF ResetKilledMicroLive, RoundStatus, TerminalRoundDisarmed, config
  <2>7. CASE \/ PreflightLiveTestRound \/ StopLiveTestRound \/ CompleteLiveTestRound
             \/ ResetLiveTestRound
    BY <2>1, <2>2, <2>7 DEF PreflightLiveTestRound, StopLiveTestRound, CompleteLiveTestRound,
       ResetLiveTestRound, RoundNoop, RoundStatus, control, config
  <2>8. CASE StartLiveTestRound
    BY <2>1, <2>2, <2>8 DEF StartLiveTestRound, RoundNoop, RoundStatus, control, config,
       TerminalRoundDisarmed, Terminal
  <2>9. CASE \E h \in Handler, n \in Notional : EvaluateMicroLiveIntent(h, n)
    BY <2>1, <2>9 DEF EvaluateMicroLiveIntent, control, config
  <2>10. CASE \E h \in Handler :
               EvidenceThrows(h) \/ SendTransaction(h) \/ FinalizeSuccess(h) \/ FinalizeFailure(h)
    BY <2>1, <2>10 DEF EvidenceThrows, SendTransaction, FinalizeSuccess, FinalizeFailure,
       BlockAndDisarm, ReleaseInFlight, control, config
  <2>11. CASE \/ Crash \/ Tick \/ UNCHANGED vars
              \/ \E b \in BOOLEAN : SetKillSwitch(b)
              \/ \E r \in Rollout : SetRollout(r)
    BY <2>1, <2>11 DEF Crash, Tick, SetKillSwitch, SetRollout, vars, control, config
  <2> QED
    BY <2>3, <2>4, <2>5, <2>6, <2>7, <2>8, <2>9, <2>10, <2>11 DEF Next, Operator
<1> QED
  BY <1>1, <1>2, TypeCorrect, PTL DEF Spec
-----------------------------------------------------------------------------
(* The cooldown.  Identifiers are fresh, so a trade confirmed now is in no  *)
(* earlier attempt's past; and an attempt started a cooldown after every    *)
(* trade of its past, because the last execution is the latest of them.     *)

ConfirmedIds == {c.id : c \in confirmed}

FreshIds ==
  /\ \A c \in confirmed : c.id <= admissions /\ c.after \subseteq ConfirmedIds
  /\ \A h \in Executing :
       /\ attempt[h].id <= admissions /\ attempt[h].id \notin ConfirmedIds
       /\ attempt[h].after \subseteq ConfirmedIds
       /\ \A g \in Executing : attempt[g].id = attempt[h].id => g = h

LastExecution ==
  \A c \in confirmed : /\ lastExecutionAt # NoExecution
                       /\ c.at <= lastExecutionAt /\ lastExecutionAt <= now

AttemptsCooledDown ==
  \A h \in Executing, a \in confirmed :
    a.id \in attempt[h].after => attempt[h].startedAt >= a.at + Cooldown

CooldownInv == FreshIds /\ LastExecution /\ AttemptsCooledDown /\ CooldownKept

LEMMA CooldownStutter ==
  ASSUME TypeOK, CooldownInv, UNCHANGED <<lastExecutionAt, attempt, admissions, confirmed>>,
         Executing' \subseteq Executing, now' \in {now, now + 1}
  PROVE  CooldownInv'
BY DEF CooldownInv, FreshIds, ConfirmedIds, LastExecution, AttemptsCooledDown, CooldownKept,
       TypeOK, Trade, NoExecution

(* A call that ends without a trade. *)
LEMMA CooldownCallEnds ==
  ASSUME TypeOK, CooldownInv, NEW h \in Handler, EndCall(h),
         UNCHANGED <<lastExecutionAt, now, admissions, confirmed>>
  PROVE  CooldownInv'
<1>1. Executing' = Executing \ {h} /\ \A g \in Executing' : attempt'[g] = attempt[g]
  BY DEF Executing, EndCall, TypeOK
<1> QED
  BY <1>1 DEF CooldownInv, FreshIds, ConfirmedIds, LastExecution, AttemptsCooledDown,
     CooldownKept, TypeOK, Trade

LEMMA CooldownAdmission ==
  ASSUME TypeOK, CooldownInv, NEW h \in Handler, NEW n \in Notional,
         EvaluateMicroLiveIntent(h, n), WithinCaps(n),
         admissions' = admissions + 1,
         phase' = [phase EXCEPT ![h] = "admitted"],
         attempt' = [attempt EXCEPT ![h] =
           [id |-> admissions + 1, startedAt |-> now, notional |-> n,
            after |-> {c.id : c \in confirmed}]]
  PROVE  CooldownInv'
<1>1. Executing' = Executing \cup {h} /\ h \notin Executing
  BY DEF Executing, TypeOK, EvaluateMicroLiveIntent
<1>2. /\ attempt'[h].id = admissions + 1 /\ attempt'[h].startedAt = now
      /\ attempt'[h].after = ConfirmedIds
      /\ \A g \in Executing : attempt'[g] = attempt[g]
  BY <1>1 DEF TypeOK, ConfirmedIds, Executing
<1>3. UNCHANGED <<lastExecutionAt, now, confirmed>>
  BY DEF EvaluateMicroLiveIntent
<1>4. \A g \in Executing : attempt[g].id \in Nat
  BY AttemptType DEF Executing
<1>5. \A c \in confirmed : c.id \in Nat /\ c.at \in Nat
  BY DEF TypeOK, Trade
<1>6. FreshIds'
  BY <1>1, <1>2, <1>3, <1>4, <1>5 DEF CooldownInv, FreshIds, ConfirmedIds, TypeOK
<1>7. \A a \in confirmed : now >= a.at + Cooldown
  BY <1>5, ConstantsOK DEF CooldownInv, LastExecution, WithinCaps, CoolingDown, TypeOK
<1>8. AttemptsCooledDown'
  BY <1>1, <1>2, <1>3, <1>7 DEF CooldownInv, AttemptsCooledDown
<1> QED
  BY <1>3, <1>6, <1>8 DEF CooldownInv, LastExecution, CooldownKept

LEMMA CooldownTrade ==
  ASSUME TypeOK, CooldownInv, NEW h \in Handler, FinalizeSuccess(h)
  PROVE  CooldownInv'
<1> DEFINE t == [id |-> attempt[h].id, startedAt |-> attempt[h].startedAt, at |-> now,
                 notional |-> attempt[h].notional, after |-> attempt[h].after]
<1>1. /\ h \in Executing /\ confirmed' = confirmed \cup {t} /\ lastExecutionAt' = now
      /\ now' = now /\ admissions' = admissions /\ EndCall(h)
  BY DEF FinalizeSuccess, ReleaseInFlight, StartCooldown, Executing
<1>2. Executing' = Executing \ {h} /\ \A g \in Executing' : attempt'[g] = attempt[g]
  BY <1>1 DEF Executing, EndCall, TypeOK
<1>3. /\ t.id = attempt[h].id /\ t.startedAt = attempt[h].startedAt /\ t.at = now
      /\ t.after = attempt[h].after
  OBVIOUS
<1> HIDE DEF t
<1>4. ConfirmedIds' = ConfirmedIds \cup {t.id} /\ t.id \notin ConfirmedIds
  BY <1>1, <1>3 DEF CooldownInv, FreshIds, ConfirmedIds
<1>5. FreshIds'
  <2>1. \A c \in confirmed' : c.id <= admissions' /\ c.after \subseteq ConfirmedIds'
    BY <1>1, <1>3, <1>4 DEF CooldownInv, FreshIds
  <2>2. \A g \in Executing' :
          /\ attempt'[g].id <= admissions' /\ attempt'[g].id \notin ConfirmedIds'
          /\ attempt'[g].after \subseteq ConfirmedIds'
          /\ \A f \in Executing' : attempt'[f].id = attempt'[g].id => f = g
    BY <1>1, <1>2, <1>3, <1>4 DEF CooldownInv, FreshIds
  <2> QED
    BY <2>1, <2>2 DEF FreshIds
<1>6. LastExecution'
  BY <1>1, <1>3 DEF CooldownInv, LastExecution, TypeOK, Trade, NoExecution
<1>7. AttemptsCooledDown'
  BY <1>1, <1>2, <1>3, <1>4 DEF CooldownInv, AttemptsCooledDown, FreshIds
<1>8. CooldownKept'
  <2>1. \A b \in confirmed : t.id \notin b.after
    BY <1>4 DEF CooldownInv, FreshIds
  <2>2. t.id \notin t.after
    BY <1>1, <1>3, <1>4 DEF CooldownInv, FreshIds
  <2> QED
    BY <1>1, <1>3, <2>1, <2>2 DEF CooldownInv, CooldownKept, AttemptsCooledDown
<1> QED
  BY <1>5, <1>6, <1>7, <1>8 DEF CooldownInv

LEMMA CooldownInvariant == Spec => []CooldownInv
<1>1. Init => CooldownInv
  BY DEF Init, CooldownInv, FreshIds, ConfirmedIds, LastExecution, AttemptsCooledDown,
         CooldownKept, Executing
<1>2. TypeOK /\ CooldownInv /\ [Next]_vars => CooldownInv'
  <2> SUFFICES ASSUME TypeOK, CooldownInv, [Next]_vars PROVE CooldownInv'
    OBVIOUS
  <2>1. CASE UNCHANGED <<lastExecutionAt, now, attempt, phase, admissions, confirmed>>
    <3>1. Executing' = Executing
      BY <2>1 DEF Executing
    <3> QED
      BY <2>1, <3>1, CooldownStutter
  <2>2. CASE Operator
    BY <2>1, <2>2, OperatorKeeps
  <2>3. CASE \E h \in Handler, n \in Notional : EvaluateMicroLiveIntent(h, n)
    BY <2>1, <2>3, CooldownAdmission DEF EvaluateMicroLiveIntent, calls
  <2>4. CASE \E h \in Handler : EvidenceThrows(h) \/ FinalizeFailure(h)
    <3> PICK h \in Handler : EvidenceThrows(h) \/ FinalizeFailure(h)
      BY <2>4
    <3>1. EndCall(h) /\ UNCHANGED <<lastExecutionAt, now, admissions, confirmed>>
      BY DEF EvidenceThrows, FinalizeFailure, ReleaseInFlight
    <3> QED
      BY <3>1, CooldownCallEnds
  <2>5. CASE \E h \in Handler : FinalizeSuccess(h)
    BY <2>5, CooldownTrade
  <2>6. CASE \E h \in Handler : SendTransaction(h)
    <3>1. Executing' = Executing
      BY <2>6 DEF SendTransaction, Executing, TypeOK
    <3> QED
      BY <2>6, <3>1, CooldownStutter DEF SendTransaction, history
  <2>7. CASE Crash
    <3>1. Executing' = {}
      BY <2>7 DEF Crash, Executing
    <3> QED
      BY <2>7, <3>1 DEF Crash, CooldownInv, FreshIds, ConfirmedIds, LastExecution,
         AttemptsCooledDown, CooldownKept
  <2>8. CASE Tick
    <3>1. Executing' = Executing
      BY <2>8 DEF Tick, calls, Executing
    <3> QED
      BY <2>8, <3>1, CooldownStutter DEF Tick, calls, history
  <2>9. CASE \/ \E b \in BOOLEAN : SetKillSwitch(b)
             \/ \E r \in Rollout : SetRollout(r)
             \/ UNCHANGED vars
    BY <2>1, <2>9 DEF SetKillSwitch, SetRollout, vars, calls, history
  <2> QED
    BY <2>2, <2>3, <2>4, <2>5, <2>6, <2>7, <2>8, <2>9 DEF Next
<1> QED
  BY <1>1, <1>2, TypeCorrect, PTL DEF Spec

(* Whatever crashes, resets and concurrent calls do, an execution admitted  *)
(* after a confirmed one waited out the cooldown.                           *)
THEOREM CooldownAlwaysKept == Spec => []CooldownKept
<1>1. CooldownInv => CooldownKept
  BY DEF CooldownInv
<1> QED
  BY <1>1, CooldownInvariant, PTL
-----------------------------------------------------------------------------
(* The window.  The stored day lies between the day of every trade and      *)
(* today, so it is today's as long as a trade of today may be counted, and  *)
(* then a cleanup drops nothing that is still in the window.                *)

RememberedInv ==
  /\ dailyKey <= Day(now)
  /\ \A c \in confirmed : c.at <= now /\ Day(c.at) <= dailyKey
  /\ NoTradeForgotten

LEMMA ConfirmedTimes ==
  ASSUME TypeOK, NEW c \in confirmed
  PROVE  c.at \in Nat /\ Day(c.at) \in Nat
BY DayBounds DEF TypeOK, Trade

LEMMA WindowKept ==
  ASSUME TypeOK, RememberedInv, NEW c \in confirmed,
         Day(c.at) = Day(now), now - c.at <= Window
  PROVE  [id |-> c.id, at |-> c.at] \in KeptTrades
<1>1. SameDay
  BY ConfirmedTimes, DayBounds DEF RememberedInv, SameDay, TypeOK
<1>2. [id |-> c.id, at |-> c.at] \in recentTrades
  BY DEF RememberedInv, NoTradeForgotten
<1> QED
  BY <1>1, <1>2 DEF KeptTrades

LEMMA RememberedCleanup ==
  ASSUME TypeOK, RememberedInv, recentTrades' = KeptTrades, dailyKey' = Day(now),
         UNCHANGED <<now, confirmed>>
  PROVE  RememberedInv'
<1>1. NoTradeForgotten'
  BY WindowKept DEF NoTradeForgotten, RememberedInv, Day
<1>2. \A c \in confirmed : Day(c.at) <= Day(now)
  BY ConfirmedTimes, DayMonotone DEF RememberedInv, TypeOK
<1>3. Day(now) \in Nat
  BY DayBounds DEF TypeOK
<1> QED
  BY <1>1, <1>2, <1>3 DEF RememberedInv, Day

LEMMA RememberedTrade ==
  ASSUME TypeOK, RememberedInv, NEW h \in Handler, FinalizeSuccess(h)
  PROVE  RememberedInv'
<1> DEFINE t == [id |-> attempt[h].id, startedAt |-> attempt[h].startedAt, at |-> now,
                 notional |-> attempt[h].notional, after |-> attempt[h].after]
<1>1. /\ confirmed' = confirmed \cup {t} /\ now' = now /\ dailyKey' = Day(now)
      /\ recentTrades' = KeptTrades \cup {[id |-> attempt[h].id, at |-> now]}
  BY DEF FinalizeSuccess, ReleaseInFlight
<1>2. t.id = attempt[h].id /\ t.at = now
  OBVIOUS
<1> HIDE DEF t
<1>3. Day(now)' = Day(now) /\ Day(now) \in Nat /\ now \in Nat
  BY <1>1, DayBounds DEF TypeOK, Day
<1>4. \A c \in confirmed' : c.at <= now /\ Day(c.at) <= Day(now)
  BY <1>1, <1>2, <1>3, ConfirmedTimes, DayMonotone DEF RememberedInv
<1>5. \A c \in confirmed' : Day(c.at) = Day(now) /\ now - c.at <= Window
                              => [id |-> c.id, at |-> c.at] \in recentTrades'
  BY <1>1, <1>2, WindowKept
<1>6. NoTradeForgotten'
  BY <1>1, <1>5 DEF NoTradeForgotten, Day
<1> QED
  BY <1>1, <1>3, <1>4, <1>6 DEF RememberedInv, Day

LEMMA RememberedTick ==
  ASSUME TypeOK, RememberedInv, Tick
  PROVE  RememberedInv'
<1>1. /\ now \in Nat /\ now' = now + 1 /\ now' \in Nat
      /\ UNCHANGED <<recentTrades, confirmed, dailyKey>>
  BY DEF Tick, TypeOK, counters, history
<1>2. Day(now) \in Nat /\ Day(now') \in Nat /\ Day(now) <= Day(now')
  BY <1>1, DayBounds, DayMonotone
<1>3. ASSUME NEW c \in confirmed, Day(c.at) = Day(now'), now' - c.at <= Window
      PROVE  [id |-> c.id, at |-> c.at] \in recentTrades
  <2>1. c.at \in Nat /\ Day(c.at) \in Nat /\ Day(c.at) <= Day(now)
    BY <1>1, <1>2, ConfirmedTimes DEF RememberedInv, TypeOK
  <2>2. Day(c.at) = Day(now) /\ now - c.at <= Window
    BY <1>1, <1>2, <1>3, <2>1, ConstantsOK
  <2> QED
    BY <2>2 DEF RememberedInv, NoTradeForgotten
<1>4. NoTradeForgotten'
  BY <1>1, <1>3 DEF NoTradeForgotten, Day
<1>5. dailyKey <= Day(now') /\ \A c \in confirmed : c.at <= now'
  BY <1>1, <1>2, ConfirmedTimes DEF RememberedInv, TypeOK
<1> QED
  BY <1>1, <1>4, <1>5 DEF RememberedInv, Day

LEMMA RememberedInvariant == Spec => []RememberedInv
<1>1. Init => RememberedInv
  BY DayBounds DEF Init, RememberedInv, NoTradeForgotten
<1>2. TypeOK /\ RememberedInv /\ [Next]_vars => RememberedInv'
  <2> SUFFICES ASSUME TypeOK, RememberedInv, [Next]_vars PROVE RememberedInv'
    OBVIOUS
  <2>1. CASE UNCHANGED <<recentTrades, dailyKey, now, confirmed>>
    BY <2>1 DEF RememberedInv, NoTradeForgotten, Day
  <2>2. CASE Operator
    BY <2>2, OperatorKeeps, RememberedCleanup DEF CleanupCounters
  <2>3. CASE \E h \in Handler, n \in Notional : EvaluateMicroLiveIntent(h, n)
    BY <2>1, <2>3, RememberedCleanup DEF EvaluateMicroLiveIntent, CleanupCounters, counters
  <2>4. CASE \E h \in Handler : FinalizeSuccess(h)
    BY <2>4, RememberedTrade
  <2>5. CASE \E h \in Handler : FinalizeFailure(h)
    BY <2>5, RememberedCleanup DEF FinalizeFailure, ReleaseInFlight
  <2>6. CASE Tick
    BY <2>6, RememberedTick
  <2>7. CASE \/ \E h \in Handler : EvidenceThrows(h) \/ SendTransaction(h)
             \/ Crash \/ UNCHANGED vars
             \/ \E b \in BOOLEAN : SetKillSwitch(b)
             \/ \E r \in Rollout : SetRollout(r)
    BY <2>1, <2>7 DEF EvidenceThrows, SendTransaction, Crash, SetKillSwitch, SetRollout,
                      vars, counters, history
  <2> QED
    BY <2>2, <2>3, <2>4, <2>5, <2>6, <2>7 DEF Next
<1> QED
  BY <1>1, <1>2, TypeCorrect, PTL DEF Spec

(* No cleanup, failure, crash or operator's action drops a confirmed trade  *)
(* that a cap still has to count.                                           *)
THEOREM NoTradeEverForgotten == Spec => []NoTradeForgotten
<1>1. RememberedInv => NoTradeForgotten
  BY DEF RememberedInv
<1> QED
  BY <1>1, RememberedInvariant, PTL
-----------------------------------------------------------------------------
(* The window cap.  Executions pass it in the window as it stands, so the   *)
(* trades of the window that ends now and the executions in progress are    *)
(* counted together: an admission adds one to a sum that the cap and the    *)
(* in-flight cap bound, a trade only moves from one to the other, and the   *)
(* clock takes trades away.                                                 *)

WindowBound == MaxTradesPerWindow + MaxInFlight - 1

WindowInv ==
  /\ IsFiniteSet(confirmed) /\ IsFiniteSet(recentTrades)
  /\ \A c, d \in confirmed : c.id = d.id => c = d
  /\ Cardinality(InWindow(now)) + Cardinality(Executing) <= WindowBound
  /\ WindowCap

LEMMA WindowFinite ==
  ASSUME IsFiniteSet(confirmed), NEW t
  PROVE  IsFiniteSet(InWindow(t)) /\ Cardinality(InWindow(t)) \in Nat
<1>1. InWindow(t) \subseteq confirmed
  BY DEF InWindow
<1> QED
  BY <1>1, FS_Subset, FS_CardinalityType

(* The kept counters see every trade of the window that ends now. *)
LEMMA WindowCounted ==
  ASSUME TypeOK, RememberedInv, WindowInv
  PROVE  Cardinality(InWindow(now)) <= Cardinality(KeptTrades) /\ Cardinality(KeptTrades) \in Nat
<1>1. KeptTrades \subseteq recentTrades /\ IsFiniteSet(recentTrades)
  BY DEF KeptTrades, WindowInv
<1>2. IsFiniteSet(KeptTrades) /\ Cardinality(KeptTrades) \in Nat
  BY <1>1, FS_Subset, FS_CardinalityType
<1> DEFINE f == [c \in InWindow(now) |-> [id |-> c.id, at |-> c.at]]
<1>3. \A c \in InWindow(now) : c \in confirmed /\ [id |-> c.id, at |-> c.at] \in KeptTrades
  BY WindowKept DEF InWindow
<1>4. f \in [InWindow(now) -> KeptTrades]
  BY <1>3
<1>5. \A c, d \in InWindow(now) : f[c] = f[d] => c = d
  BY <1>3 DEF WindowInv
<1>6. f \in Injection(InWindow(now), KeptTrades)
  BY <1>4, <1>5 DEF Injection, IsInjective
<1> QED
  BY <1>2, <1>6, FS_Injection

(* Executions that end without a trade, counters that are cleaned *)
LEMMA WindowStutter ==
  ASSUME TypeOK, WindowInv, UNCHANGED <<now, confirmed>>,
         recentTrades' \subseteq recentTrades,
         Cardinality(Executing') <= Cardinality(Executing), Cardinality(Executing') \in Nat
  PROVE  WindowInv'
<1>1. IsFiniteSet(recentTrades')
  BY FS_Subset DEF WindowInv
<1>2. \A t : InWindow(t)' = InWindow(t)
  BY DEF InWindow, Day
<1>3. Cardinality(InWindow(now)) \in Nat /\ Cardinality(Executing) \in Nat
  BY WindowFinite, ExecutingFinite DEF WindowInv
<1>4. Cardinality(InWindow(now)) + Cardinality(Executing') <= WindowBound
  BY <1>3, ConstantsOK DEF WindowInv, WindowBound
<1> QED
  BY <1>1, <1>2, <1>4 DEF WindowInv, WindowCap, WindowBound, InWindow, Day

LEMMA WindowAdmission ==
  ASSUME TypeOK, InFlightAccounted, RememberedInv, WindowInv, NEW h \in Handler,
         NEW n \in Notional, WithinCaps(n), phase[h] = "idle",
         phase' = [phase EXCEPT ![h] = "admitted"],
         recentTrades' = KeptTrades, UNCHANGED <<now, confirmed>>
  PROVE  WindowInv'
<1>1. Cardinality(Executing') = Cardinality(Executing) + 1 /\ Cardinality(Executing) \in Nat
  BY CallBegins, ExecutingFinite
<1>2. Cardinality(Executing) <= MaxInFlight - 1
  BY <1>1, ConstantsOK DEF WithinCaps, InFlightAccounted, TypeOK
<1>3. Cardinality(InWindow(now)) <= MaxTradesPerWindow - 1 /\ Cardinality(InWindow(now)) \in Nat
  BY WindowCounted, WindowFinite, ConstantsOK DEF WithinCaps, WindowInv
<1>4. Cardinality(InWindow(now)) + Cardinality(Executing') <= WindowBound
  BY <1>1, <1>2, <1>3, ConstantsOK DEF WindowBound
<1>5. IsFiniteSet(recentTrades')
  BY FS_Subset DEF WindowInv, KeptTrades
<1> QED
  BY <1>4, <1>5 DEF WindowInv, WindowCap, WindowBound, InWindow, Day

LEMMA WindowTrade ==
  ASSUME TypeOK, CooldownInv, RememberedInv, WindowInv, NEW h \in Handler, FinalizeSuccess(h)
  PROVE  WindowInv'
<1> DEFINE t == [id |-> attempt[h].id, startedAt |-> attempt[h].startedAt, at |-> now,
                 notional |-> attempt[h].notional, after |-> attempt[h].after]
<1>1. /\ h \in Executing /\ phase[h] # "idle" /\ EndCall(h)
      /\ confirmed' = confirmed \cup {t} /\ now' = now
      /\ recentTrades' = KeptTrades \cup {[id |-> attempt[h].id, at |-> now]}
  BY DEF FinalizeSuccess, ReleaseInFlight, Executing
<1>2. t.id = attempt[h].id /\ t.at = now
  OBVIOUS
<1> HIDE DEF t
<1>3. Cardinality(Executing') = Cardinality(Executing) - 1 /\ Cardinality(Executing) > 0
      /\ Cardinality(Executing) \in Nat
  BY <1>1, CallEnds, ExecutingFinite
<1>4. IsFiniteSet(confirmed') /\ IsFiniteSet(recentTrades')
  <2>1. IsFiniteSet(KeptTrades)
    BY FS_Subset DEF WindowInv, KeptTrades
  <2> QED
    BY <1>1, <2>1, FS_AddElement DEF WindowInv
<1>5. \A c, d \in confirmed' : c.id = d.id => c = d
  <2>1. \A c \in confirmed : c.id # t.id
    BY <1>1, <1>2 DEF CooldownInv, FreshIds, ConfirmedIds
  <2> QED
    BY <1>1, <2>1 DEF WindowInv
<1>6. InWindow(now)' \subseteq InWindow(now) \cup {t}
  BY <1>1 DEF InWindow, Day
<1>7. Cardinality(InWindow(now)') <= Cardinality(InWindow(now)) + 1
      /\ Cardinality(InWindow(now)') \in Nat /\ Cardinality(InWindow(now)) \in Nat
  <2>1. IsFiniteSet(InWindow(now)) /\ Cardinality(InWindow(now)) \in Nat
    BY WindowFinite DEF WindowInv
  <2>2. /\ IsFiniteSet(InWindow(now) \cup {t})
        /\ Cardinality(InWindow(now) \cup {t}) <= Cardinality(InWindow(now)) + 1
        /\ Cardinality(InWindow(now) \cup {t}) \in Nat
    BY <2>1, FS_AddElement, FS_CardinalityType
  <2>3. IsFiniteSet(InWindow(now)') /\ Cardinality(InWindow(now)') \in Nat
        /\ Cardinality(InWindow(now)') <= Cardinality(InWindow(now) \cup {t})
    BY <1>6, <2>2, FS_Subset, FS_CardinalityType
  <2> QED
    BY <2>1, <2>2, <2>3
<1>8. Cardinality(InWindow(now)') + Cardinality(Executing') <= WindowBound
  BY <1>3, <1>7, ConstantsOK DEF WindowInv, WindowBound
<1>9. Cardinality(InWindow(now)') <= WindowBound
  BY <1>3, <1>7, <1>8, ConstantsOK DEF WindowBound
<1>10. ASSUME NEW last \in confirmed'
       PROVE  Cardinality(InWindow(last.at)') <= WindowBound
  <2>1. CASE last.at = now
    BY <1>1, <1>9, <2>1
  <2>2. CASE last.at # now
    <3>1. last \in confirmed /\ last.at \in Nat /\ last.at < now
      BY <1>1, <1>2, <2>2, ConfirmedTimes DEF RememberedInv, TypeOK
    <3>2. ~(t.at <= last.at)
      BY <1>2, <3>1 DEF TypeOK
    <3>3. InWindow(last.at)' = InWindow(last.at)
      BY <1>1, <3>2 DEF InWindow, Day
    <3> QED
      BY <3>1, <3>3 DEF WindowInv, WindowCap, WindowBound
  <2> QED
    BY <2>1, <2>2
<1> QED
  BY <1>4, <1>5, <1>8, <1>10 DEF WindowInv, WindowCap, WindowBound

LEMMA WindowTick ==
  ASSUME TypeOK, RememberedInv, WindowInv, Tick
  PROVE  WindowInv'
<1>1. now \in Nat /\ now' = now + 1 /\ UNCHANGED <<recentTrades, confirmed, phase>>
  BY DEF Tick, TypeOK, counters, history, calls
<1>2. Day(now) \in Nat /\ Day(now') \in Nat /\ Day(now) <= Day(now')
  BY <1>1, DayBounds, DayMonotone
<1>3. \A c \in confirmed : /\ c.at \in Nat /\ Day(c.at) \in Nat
                           /\ c.at <= now /\ Day(c.at) <= Day(now)
  BY <1>1, <1>2, ConfirmedTimes, DayMonotone DEF RememberedInv
<1>4. InWindow(now)' \subseteq InWindow(now)
  BY <1>1, <1>2, <1>3, ConstantsOK DEF InWindow, Day
<1>5. Cardinality(InWindow(now)') <= Cardinality(InWindow(now))
      /\ Cardinality(InWindow(now)') \in Nat /\ Cardinality(InWindow(now)) \in Nat
  BY <1>4, WindowFinite, FS_Subset, FS_CardinalityType DEF WindowInv
<1>6. Executing' = Executing /\ Cardinality(Executing) \in Nat
  BY <1>1, ExecutingFinite DEF Executing
<1>7. Cardinality(InWindow(now)') + Cardinality(Executing') <= WindowBound
  BY <1>5, <1>6, ConstantsOK DEF WindowInv, WindowBound
<1>8. \A last \in confirmed : InWindow(last.at)' = InWindow(last.at)
  BY <1>1 DEF InWindow, Day
<1> QED
  BY <1>1, <1>7, <1>8 DEF WindowInv, WindowCap, WindowBound

-----------------------------------------------------------------------------
(* The daily cap.  The stored notional is what traded today.  An execution  *)
(* passes the cap with its own notional, next to others that may each trade *)
(* the cap of one trade; and so it remains for one of those in progress, as *)
(* long as there is one.                                                    *)

DailyBound == MaxDailyNotional + (MaxInFlight - 1) * MaxNotionalPerTrade
Room(n) == n * MaxNotionalPerTrade   \* what n executions may trade

LEMMA RoomGrows ==
  ASSUME NEW m \in Nat, NEW n \in Nat, m <= n
  PROVE  /\ Room(m) \in Nat /\ Room(m) <= Room(n)
         /\ Room(n + 1) = Room(n) + MaxNotionalPerTrade
BY ConstantsOK, SMTT(30) DEF Room

DailyStored ==
  /\ traded.day <= dailyKey /\ dailyKey <= Day(now)
  /\ dailyNotional = IF traded.day = dailyKey THEN traded.notional ELSE 0

(* Some execution, say the one admitted last, leaves room for the others. *)
DailyRoom ==
  \/ TradedToday + Room(Cardinality(Executing)) <= DailyBound
  \/ \E h \in Executing :
       TradedToday + attempt[h].notional + Room(Cardinality(Executing) - 1) <= DailyBound

DailyInv ==
  /\ DailyStored /\ DailyRoom /\ DailyNotionalCap
  /\ \A h \in Executing : attempt[h].notional <= MaxNotionalPerTrade

LEMMA TradedTypes ==
  ASSUME TypeOK
  PROVE  /\ TradedToday \in Nat /\ traded.day \in Nat /\ traded.notional \in Nat
         /\ Day(now) \in Nat /\ DailyBound \in Nat
<1>1. MaxInFlight - 1 \in Nat
  BY ConstantsOK
<1>2. DailyBound = MaxDailyNotional + Room(MaxInFlight - 1)
  BY DEF DailyBound, Room
<1>3. DailyBound \in Nat
  BY <1>1, <1>2, RoomGrows, ConstantsOK
<1> QED
  BY <1>3, DayBounds DEF TypeOK, TradedToday

(* The guardrail's own count of today is what traded today. *)
LEMMA StoredIsTraded ==
  ASSUME TypeOK, DailyStored
  PROVE  KeptNotional = TradedToday
BY TradedTypes DEF DailyStored, KeptNotional, SameDay, TradedToday, TypeOK

LEMMA ExecutingNotional ==
  ASSUME TypeOK, NEW h \in Executing
  PROVE  h \in Handler /\ attempt[h].notional \in Nat
BY AttemptType DEF Executing

(* Whatever ends executions without a trade leaves the room it found. *)
LEMMA RoomKept ==
  ASSUME TypeOK, TypeOK', DailyRoom, Executing' \subseteq Executing,
         \A h \in Executing' : attempt'[h] = attempt[h],
         TradedToday' <= TradedToday
  PROVE  DailyRoom'
<1> DEFINE k == Cardinality(Executing)
           l == Cardinality(Executing')
<1>1. k \in Nat /\ l \in Nat /\ l <= k
  BY ExecutingFinite, FS_Subset, FS_CardinalityType
<1>2. TradedToday \in Nat /\ TradedToday' \in Nat /\ DailyBound \in Nat
  BY TradedTypes DEF TypeOK, TradedToday
<1>3. CASE TradedToday + Room(k) <= DailyBound
  <2>1. Room(l) \in Nat /\ Room(k) \in Nat /\ Room(l) <= Room(k)
    BY <1>1, RoomGrows
  <2>2. TradedToday' + Room(l) <= DailyBound
    BY <1>2, <1>3, <2>1
  <2> QED
    BY <2>2 DEF DailyRoom, DailyBound, Room
<1>4. ASSUME NEW h \in Executing, TradedToday + attempt[h].notional + Room(k - 1) <= DailyBound
      PROVE  DailyRoom'
  <2>1. attempt[h].notional \in Nat
    BY ExecutingNotional
  <2>2. CASE h \in Executing'
    <3>1. l > 0 /\ k - 1 \in Nat /\ l - 1 \in Nat /\ l - 1 <= k - 1
      <4>1. IsFiniteSet(Executing') /\ Executing' # {}
        BY <2>2, ExecutingFinite, FS_Subset
      <4> QED
        BY <1>1, <4>1, FS_EmptySet
    <3>2. Room(l - 1) \in Nat /\ Room(k - 1) \in Nat /\ Room(l - 1) <= Room(k - 1)
      BY <3>1, RoomGrows
    <3>3. TradedToday' + attempt'[h].notional + Room(l - 1) <= DailyBound
      BY <1>2, <1>4, <2>1, <2>2, <3>2
    <3> QED
      BY <2>2, <3>3 DEF DailyRoom, DailyBound, Room
  <2>3. CASE h \notin Executing'
    <3>1. l <= k - 1 /\ k - 1 \in Nat
      <4>1. Executing' \subseteq Executing \ {h}
        BY <2>3
      <4>2. IsFiniteSet(Executing \ {h}) /\ Cardinality(Executing \ {h}) = k - 1
        BY ExecutingFinite, FS_RemoveElement
      <4> QED
        BY <4>1, <4>2, FS_Subset, FS_CardinalityType
    <3>2. Room(l) \in Nat /\ Room(k - 1) \in Nat /\ Room(l) <= Room(k - 1)
      BY <1>1, <3>1, RoomGrows
    <3>3. TradedToday' + Room(l) <= DailyBound
      BY <1>2, <1>4, <2>1, <3>2
    <3> QED
      BY <3>3 DEF DailyRoom, DailyBound, Room
  <2> QED
    BY <2>2, <2>3
<1> QED
  BY <1>3, <1>4 DEF DailyRoom

(* Steps without a trade, other than an admission: the counters are cleaned *)
(* or left alone, and the clock may move on.                                *)
LEMMA DailyStutter ==
  ASSUME TypeOK, TypeOK', DailyInv, UNCHANGED traded, now' \in {now, now + 1},
         \/ UNCHANGED <<dailyNotional, dailyKey>>
         \/ dailyNotional' = KeptNotional /\ dailyKey' = Day(now) /\ now' = now,
         Executing' \subseteq Executing, \A h \in Executing' : attempt'[h] = attempt[h]
  PROVE  DailyInv'
<1>1. /\ Day(now) \in Nat /\ Day(now') \in Nat /\ Day(now) <= Day(now')
      /\ traded.day <= Day(now) /\ traded.day \in Nat /\ traded.notional \in Nat
  BY TradedTypes, DayBounds, DayMonotone DEF TypeOK, DailyInv, DailyStored
<1>2. TradedToday' <= TradedToday
  <2>1. TradedToday' = IF traded.day = Day(now') THEN traded.notional ELSE 0
    BY DEF TradedToday, Day
  <2>2. traded.day = Day(now') => traded.day = Day(now)
    BY <1>1
  <2> QED
    BY <1>1, <2>1, <2>2 DEF TradedToday
<1>3. DailyRoom'
  BY <1>2, RoomKept DEF DailyInv
<1>4. DailyStored'
  <2>1. CASE UNCHANGED <<dailyNotional, dailyKey>>
    BY <1>1, <2>1 DEF DailyInv, DailyStored, Day, TypeOK
  <2>2. CASE dailyNotional' = KeptNotional /\ dailyKey' = Day(now) /\ now' = now
    <3>1. dailyNotional' = TradedToday
      BY <2>2, StoredIsTraded DEF DailyInv
    <3> QED
      BY <1>1, <2>2, <3>1 DEF DailyStored, TradedToday, Day
  <2> QED
    BY <2>1, <2>2
<1>5. DailyNotionalCap' /\ \A h \in Executing' : attempt'[h].notional <= MaxNotionalPerTrade
  BY DEF DailyInv, DailyNotionalCap
<1> QED
  BY <1>3, <1>4, <1>5 DEF DailyInv

LEMMA DailyAdmission ==
  ASSUME TypeOK, TypeOK', DailyInv, InFlightAccounted, NEW h \in Handler, NEW n \in Notional,
         WithinCaps(n), phase[h] = "idle",
         phase' = [phase EXCEPT ![h] = "admitted"],
         attempt' = [attempt EXCEPT ![h] =
           [id |-> admissions + 1, startedAt |-> now, notional |-> n,
            after |-> {c.id : c \in confirmed}]],
         dailyNotional' = KeptNotional, dailyKey' = Day(now), UNCHANGED <<now, traded>>
  PROVE  DailyInv'
<1>1. Executing' = Executing \cup {h} /\ h \notin Executing
  BY DEF Executing, TypeOK
<1>2. attempt'[h].notional = n /\ \A g \in Executing : attempt'[g] = attempt[g]
  BY <1>1 DEF TypeOK, Executing
<1>3. Cardinality(Executing') = Cardinality(Executing) + 1 /\ Cardinality(Executing) \in Nat
  BY CallBegins, ExecutingFinite
<1>4. Cardinality(Executing) <= MaxInFlight - 1 /\ MaxInFlight - 1 \in Nat
  BY <1>3, ConstantsOK DEF WithinCaps, InFlightAccounted, TypeOK
<1>5. KeptNotional = TradedToday
  BY StoredIsTraded DEF DailyInv
<1>6. TradedToday' = TradedToday
  BY DEF TradedToday, Day
<1>7. n \in Nat /\ n <= MaxNotionalPerTrade /\ TradedToday + n <= MaxDailyNotional
  BY <1>5, ConstantsOK DEF WithinCaps
<1>8. DailyRoom'
  <2>1. Room(Cardinality(Executing)) <= Room(MaxInFlight - 1)
        /\ Room(Cardinality(Executing)) \in Nat /\ Room(MaxInFlight - 1) \in Nat
    BY <1>3, <1>4, RoomGrows
  <2>2. DailyBound = MaxDailyNotional + Room(MaxInFlight - 1)
    BY DEF DailyBound, Room
  <2>3. TradedToday + n + Room(Cardinality(Executing)) <= DailyBound
    BY <1>7, <2>1, <2>2, TradedTypes, ConstantsOK
  <2>4. Cardinality(Executing') - 1 = Cardinality(Executing)
    BY <1>3
  <2>5. TradedToday' + attempt'[h].notional + Room(Cardinality(Executing') - 1) <= DailyBound
    BY <1>2, <1>6, <2>3, <2>4
  <2> QED
    BY <1>1, <2>5 DEF DailyRoom, DailyBound, Room
<1>9. DailyStored'
  BY <1>5, TradedTypes DEF DailyInv, DailyStored, TradedToday, Day, TypeOK
<1>10. \A g \in Executing' : attempt'[g].notional <= MaxNotionalPerTrade
  BY <1>1, <1>2, <1>7 DEF DailyInv
<1> QED
  BY <1>8, <1>9, <1>10 DEF DailyInv, DailyNotionalCap

(* A trade moves its notional from the room to what traded. *)
LEMMA DailyTrade ==
  ASSUME TypeOK, TypeOK', DailyInv, NEW h \in Handler, FinalizeSuccess(h)
  PROVE  DailyInv'
<1> DEFINE k == Cardinality(Executing)
           l == Cardinality(Executing')
           n == attempt[h].notional
<1>1. /\ h \in Executing /\ phase[h] # "idle" /\ EndCall(h) /\ now' = now
      /\ traded' = [day |-> Day(now), notional |-> TradedToday + n]
      /\ dailyNotional' = KeptNotional + n /\ dailyKey' = Day(now)
  BY DEF FinalizeSuccess, ReleaseInFlight, Executing
<1>2. Executing' = Executing \ {h} /\ \A g \in Executing' : attempt'[g] = attempt[g]
  BY <1>1 DEF Executing, EndCall, TypeOK
<1>3. l = k - 1 /\ k > 0 /\ k \in Nat /\ l \in Nat
  BY <1>1, CallEnds, ExecutingFinite
<1>4. n \in Nat /\ n <= MaxNotionalPerTrade /\ TradedToday \in Nat /\ DailyBound \in Nat
  BY <1>1, AttemptType, TradedTypes DEF DailyInv
<1>5. /\ traded'.notional = TradedToday + n /\ traded'.day = Day(now)
      /\ TradedToday' = TradedToday + n
  BY <1>1 DEF TradedToday, Day
<1>6. Room(l) \in Nat /\ Room(k) = Room(l) + MaxNotionalPerTrade
  <2>1. k = l + 1
    BY <1>3
  <2> QED
    BY <1>3, <2>1, RoomGrows
<1>7. DailyRoom' /\ TradedToday + n <= DailyBound
  <2>1. CASE TradedToday + n + Room(l) <= DailyBound
    <3>1. TradedToday' + Room(l) <= DailyBound /\ TradedToday + n <= DailyBound
      BY <1>4, <1>5, <1>6, <2>1
    <3> QED
      BY <3>1 DEF DailyRoom, DailyBound, Room
  <2>2. CASE TradedToday + Room(k) <= DailyBound
    <3>1. TradedToday + n + Room(l) <= DailyBound
      BY <1>4, <1>6, <2>2, ConstantsOK
    <3> QED
      BY <2>1, <3>1
  <2>3. ASSUME NEW g \in Executing, TradedToday + attempt[g].notional + Room(k - 1) <= DailyBound,
               g # h
        PROVE  DailyRoom' /\ TradedToday + n <= DailyBound
    <3>1. g \in Executing' /\ attempt'[g].notional = attempt[g].notional
          /\ attempt[g].notional \in Nat
      BY <1>2, <2>3, ExecutingNotional
    <3>2. l > 0 /\ l - 1 \in Nat
      <4>1. IsFiniteSet(Executing') /\ Executing' # {}
        BY <1>2, <3>1, ExecutingFinite, FS_RemoveElement
      <4> QED
        BY <1>3, <4>1, FS_EmptySet
    <3>3. Room(l - 1) \in Nat /\ Room(l) = Room(l - 1) + MaxNotionalPerTrade
      <4>1. l = (l - 1) + 1
        BY <1>3
      <4> QED
        BY <3>2, <4>1, RoomGrows
    <3>4. TradedToday + attempt[g].notional + Room(l) <= DailyBound
      BY <1>3, <2>3
    <3>5. /\ TradedToday' + attempt'[g].notional + Room(l - 1) <= DailyBound
          /\ TradedToday + n <= DailyBound
      BY <1>4, <1>5, <3>1, <3>3, <3>4, ConstantsOK
    <3> QED
      BY <3>1, <3>5 DEF DailyRoom, DailyBound, Room
  <2>4. ASSUME TradedToday + attempt[h].notional + Room(k - 1) <= DailyBound
        PROVE  TradedToday + n + Room(l) <= DailyBound
    BY <1>3, <2>4
  <2> QED
    BY <2>1, <2>2, <2>3, <2>4 DEF DailyInv, DailyRoom
<1>8. DailyNotionalCap'
  BY <1>5, <1>7 DEF DailyNotionalCap, DailyBound
<1>9. DailyStored'
  <2>1. dailyNotional' = traded'.notional /\ Day(now') = Day(now) /\ Day(now) \in Nat
    BY <1>1, <1>5, StoredIsTraded, TradedTypes DEF DailyInv
  <2> QED
    BY <1>1, <1>5, <2>1 DEF DailyStored, Day
<1>10. \A g \in Executing' : attempt'[g].notional <= MaxNotionalPerTrade
  BY <1>2 DEF DailyInv
<1> QED
  BY <1>7, <1>8, <1>9, <1>10 DEF DailyInv

LEMMA CapsInit == Init => WindowInv /\ DailyInv
<1> SUFFICES ASSUME Init PROVE WindowInv /\ DailyInv
  OBVIOUS
<1>1. Executing = {} /\ Cardinality(Executing) = 0
  BY FS_EmptySet DEF Init, Executing
<1>2. InWindow(now) = {} /\ Cardinality(InWindow(now)) = 0 /\ WindowBound \in Nat
  BY FS_EmptySet, ConstantsOK DEF Init, InWindow, WindowBound
<1>3. WindowInv
  BY <1>1, <1>2, FS_EmptySet DEF Init, WindowInv, WindowCap
<1>4. Day(now) \in Nat /\ traded.day = 0 /\ traded.notional = 0
  BY DayBounds DEF Init
<1>5. TradedToday = 0
  BY <1>4 DEF TradedToday
<1>6. Room(0) = 0 /\ DailyBound \in Nat
  <2>1. MaxInFlight - 1 \in Nat
    BY ConstantsOK
  <2>2. DailyBound = MaxDailyNotional + Room(MaxInFlight - 1) /\ Room(MaxInFlight - 1) \in Nat
    BY <2>1, RoomGrows DEF DailyBound, Room
  <2> QED
    BY <2>2, ConstantsOK DEF Room
<1>7. DailyRoom
  BY <1>1, <1>5, <1>6 DEF DailyRoom
<1>8. DailyStored
  BY <1>4 DEF Init, DailyStored
<1>9. DailyNotionalCap
  BY <1>4, <1>6 DEF DailyNotionalCap, DailyBound
<1> QED
  BY <1>1, <1>3, <1>7, <1>8, <1>9 DEF DailyInv

CapsInv == InFlightAccounted /\ CooldownInv /\ RememberedInv /\ WindowInv /\ DailyInv

LEMMA CapsStep ==
  ASSUME TypeOK, TypeOK', CapsInv, [Next]_vars
  PROVE  WindowInv' /\ DailyInv'
<1> USE DEF CapsInv
<1>1. ASSUME UNCHANGED <<now, confirmed, traded>>, Executing' \subseteq Executing,
             \A g \in Executing' : attempt'[g] = attempt[g],
             \/ UNCHANGED <<recentTrades, dailyNotional, dailyKey>>
             \/ recentTrades' = KeptTrades /\ dailyNotional' = KeptNotional /\ dailyKey' = Day(now)
      PROVE  WindowInv' /\ DailyInv'
  <2>1. recentTrades' \subseteq recentTrades
    BY <1>1 DEF KeptTrades
  <2>2. Cardinality(Executing') <= Cardinality(Executing) /\ Cardinality(Executing') \in Nat
    BY <1>1, ExecutingFinite, FS_Subset, FS_CardinalityType
  <2> QED
    BY <1>1, <2>1, <2>2, WindowStutter, DailyStutter
<1>2. CASE Operator
  <2>1. CleanupCounters /\ UNCHANGED <<now, phase, attempt, confirmed, traded>>
    BY <1>2, OperatorKeeps DEF Operator, Operation, GetSnapshot, history, ReadSnapshot, ArmMicroLive,
       DisarmMicroLive, KillMicroLive, ResetKilledMicroLive, PreflightLiveTestRound,
       StartLiveTestRound, StopLiveTestRound, CompleteLiveTestRound, ResetLiveTestRound
  <2>2. Executing' = Executing
    BY <2>1 DEF Executing
  <2> QED
    BY <1>1, <2>1, <2>2 DEF CleanupCounters
<1>3. ASSUME NEW h \in Handler, NEW n \in Notional, EvaluateMicroLiveIntent(h, n)
      PROVE  WindowInv' /\ DailyInv'
  <2>1. /\ UNCHANGED <<now, confirmed, traded>> /\ phase[h] = "idle"
        /\ \/ UNCHANGED counters
           \/ CleanupCounters
    BY <1>3 DEF EvaluateMicroLiveIntent
  <2>2. CASE UNCHANGED calls
    <3>1. Executing' = Executing /\ UNCHANGED attempt
      BY <2>2 DEF calls, Executing
    <3> QED
      BY <1>1, <2>1, <3>1 DEF counters, CleanupCounters
  <2>3. CASE /\ WithinCaps(n) /\ CleanupCounters
             /\ phase' = [phase EXCEPT ![h] = "admitted"]
             /\ attempt' = [attempt EXCEPT ![h] =
                  [id |-> admissions + 1, startedAt |-> now, notional |-> n,
                   after |-> {c.id : c \in confirmed}]]
    BY <2>1, <2>3, WindowAdmission, DailyAdmission DEF CleanupCounters
  <2> QED
    BY <1>3, <2>2, <2>3 DEF EvaluateMicroLiveIntent
<1>4. ASSUME NEW h \in Handler, EvidenceThrows(h) \/ FinalizeFailure(h)
      PROVE  WindowInv' /\ DailyInv'
  <2>1. EndCall(h) /\ UNCHANGED <<now, confirmed, traded>>
    BY <1>4 DEF EvidenceThrows, FinalizeFailure, ReleaseInFlight
  <2>2. Executing' \subseteq Executing /\ \A g \in Executing' : attempt'[g] = attempt[g]
    BY <2>1 DEF EndCall, Executing, TypeOK
  <2>3. \/ UNCHANGED <<recentTrades, dailyNotional, dailyKey>>
        \/ recentTrades' = KeptTrades /\ dailyNotional' = KeptNotional /\ dailyKey' = Day(now)
    BY <1>4 DEF EvidenceThrows, FinalizeFailure, ReleaseInFlight, counters
  <2> QED
    BY <1>1, <2>1, <2>2, <2>3
<1>5. CASE \E h \in Handler : FinalizeSuccess(h)
  BY <1>5, WindowTrade, DailyTrade
<1>6. CASE \E h \in Handler : SendTransaction(h)
  <2>1. Executing' = Executing /\ UNCHANGED attempt
        /\ UNCHANGED <<now, confirmed, traded, recentTrades, dailyNotional, dailyKey>>
    BY <1>6 DEF SendTransaction, Executing, TypeOK, history, counters
  <2> QED
    BY <1>1, <2>1
<1>7. CASE Crash
  <2>1. Executing' = {} /\ UNCHANGED <<now, confirmed, traded, counters>>
    BY <1>7 DEF Crash, Executing
  <2> QED
    BY <1>1, <2>1 DEF counters
<1>8. CASE Tick
  <2>1. UNCHANGED <<confirmed, traded, phase, attempt, dailyNotional, dailyKey>> /\ now' = now + 1
    BY <1>8 DEF Tick, history, calls, counters
  <2>2. Executing' = Executing
    BY <2>1 DEF Executing
  <2> QED
    BY <1>8, <2>1, <2>2, WindowTick, DailyStutter
<1>9. CASE \/ \E b \in BOOLEAN : SetKillSwitch(b)
           \/ \E r \in Rollout : SetRollout(r)
           \/ UNCHANGED vars
  <2>1. UNCHANGED <<now, confirmed, traded, phase, attempt, counters>>
    BY <1>9 DEF SetKillSwitch, SetRollout, vars, calls, history
  <2>2. Executing' = Executing
    BY <2>1 DEF Executing
  <2> QED
    BY <1>1, <2>1, <2>2 DEF counters
<1> QED
  BY <1>2, <1>3, <1>4, <1>5, <1>6, <1>7, <1>8, <1>9 DEF Next

(* What trades stays within the caps, in number and in amount, up to what   *)
(* the other executions in flight may add: for any caps, any number of      *)
(* concurrent calls of the handler, and any history of failures, crashes,   *)
(* operator's calls and midnights.                                          *)
THEOREM TradesAlwaysCapped == Spec => []TradesCapped
<1>1. TypeOK /\ TypeOK' /\ CapsInv /\ [Next]_vars => WindowInv' /\ DailyInv'
  BY CapsStep
<1>2. WindowInv /\ DailyInv => TradesCapped
  BY DEF WindowInv, DailyInv, TradesCapped
<1>3. InFlightAccounted /\ CooldownInv /\ RememberedInv /\ WindowInv /\ DailyInv => CapsInv
  BY DEF CapsInv
<1> QED
  BY <1>1, <1>2, <1>3, CapsInit, TypeCorrect, SlotsAccounted, CooldownInvariant,
     RememberedInvariant, PTL DEF Spec

-----------------------------------------------------------------------------
(* What operators are told *)

(* Whatever degrades the guardrail blocks it too, and nothing lifts the     *)
(* block and keeps the degradation.                                         *)
DegradedIsBlocked == degraded => blocked

(* The guardrail is never degraded without being blocked. *)
THEOREM NothingOnlyDegrades == Spec => []DegradedIsBlocked
<1>1. Init => DegradedIsBlocked
  BY DEF Init, DegradedIsBlocked
<1>2. TypeOK /\ DegradedIsBlocked /\ [Next]_vars => DegradedIsBlocked'
  <2> SUFFICES ASSUME TypeOK, DegradedIsBlocked, [Next]_vars PROVE DegradedIsBlocked'
    OBVIOUS
  <2>1. CASE UNCHANGED <<degraded, blocked>>
    BY <2>1 DEF DegradedIsBlocked
  <2>2. ASSUME NEW s \in RoundStatus, RoundTransition(s) PROVE DegradedIsBlocked'
    BY <2>2 DEF RoundTransition, DegradedIsBlocked, Terminal
  <2>3. CASE ReadSnapshot \/ DisarmMicroLive
    BY <2>1, <2>3 DEF ReadSnapshot, DisarmMicroLive, control, config
  <2>4. CASE ArmMicroLive
    BY <2>1, <2>2, <2>4 DEF ArmMicroLive, ArmAccepted, ArmDenied, control, RoundStatus,
       DegradedIsBlocked
  <2>5. CASE KillMicroLive
    BY <2>2, <2>5 DEF KillMicroLive, RoundStatus
  <2>6. CASE ResetKilledMicroLive
    BY <2>2, <2>6 DEF ResetKilledMicroLive, RoundStatus, DegradedIsBlocked
  <2>7. CASE \/ PreflightLiveTestRound \/ StopLiveTestRound \/ CompleteLiveTestRound
             \/ ResetLiveTestRound
    BY <2>1, <2>2, <2>7 DEF PreflightLiveTestRound, StopLiveTestRound, CompleteLiveTestRound,
       ResetLiveTestRound, RoundNoop, RoundStatus, control
  <2>8. CASE StartLiveTestRound
    BY <2>1, <2>2, <2>8 DEF StartLiveTestRound, RoundNoop, RoundStatus, control,
       DegradedIsBlocked
  <2>9. CASE \E h \in Handler, n \in Notional : EvaluateMicroLiveIntent(h, n)
    BY <2>1, <2>9 DEF EvaluateMicroLiveIntent, control, DegradedIsBlocked
  <2>10. CASE \E h \in Handler :
               EvidenceThrows(h) \/ SendTransaction(h) \/ FinalizeSuccess(h) \/ FinalizeFailure(h)
    BY <2>1, <2>10 DEF EvidenceThrows, SendTransaction, FinalizeSuccess, FinalizeFailure,
       BlockAndDisarm, control, DegradedIsBlocked
  <2>11. CASE \/ Crash \/ Tick \/ UNCHANGED vars
              \/ \E b \in BOOLEAN : SetKillSwitch(b)
              \/ \E r \in Rollout : SetRollout(r)
    BY <2>1, <2>11 DEF Crash, Tick, SetKillSwitch, SetRollout, vars, control
  <2> QED
    BY <2>3, <2>4, <2>5, <2>6, <2>7, <2>8, <2>9, <2>10, <2>11 DEF Next, Operator
<1> QED
  BY <1>1, <1>2, TypeCorrect, PTL DEF Spec

-----------------------------------------------------------------------------
(* The reported posture and block, as the guardrail's own conditions. *)
LEMMA ReportedMeans ==
  ASSUME TypeOK
  PROVE  /\ ReportedPosture = "live_armed" <=>
              /\ Posture \in {"micro_live", "staged_live_candidate"}
              /\ ~halted /\ ~blocked /\ roundStatus \notin Terminal
              /\ ~StagedNotReady /\ armed
         /\ ~ReportedBlocked => ~blocked /\ ~halted /\ roundStatus \notin Terminal
<1>1. Posture \in RolloutPosture
  BY DEF Posture, TypeOK, RolloutPosture
<1> QED
  BY <1>1 DEF ReportedPosture, ReportedBlocked, RolloutPosture

(* One judgement of one snapshot. *)
LEMMA JudgedTrue ==
  ASSUME TypeOK, DegradedIsBlocked,
         NEW r \in RuntimeHealth, NEW configured \in MayBeConfigured
  PROVE  LET s == Snapshot(configured) IN
         /\ GateCanArm(s, r) => MayArm /\ ReadyToArm(s, r)
         /\ GateCanUseStaged(s, r) => ReadyForStaged(s, r) /\ ~degraded /\ ~halted
         /\ ReleaseStage(s, r) \in {"micro_live", "constrained_live"} =>
              {"explicit-rollout-stage", "kill-switch-clear"} \subseteq Passing(s, r)
         /\ ReadyToArm(s, r) <=> Blockers(s, r) \subseteq {"staged_live_candidate"}
         /\ GateCanUseStaged(s, r) => Blockers(s, r) = {}
         /\ LiveAllowed(s, r) => Permitted \/ (deployment.liveTestMode /\ roundStatus # "running")
         /\ Permitted /\ RequireArm /\ ~r.error =>
              LiveAllowed(s, r) \/ (~deployment.liveTestMode /\ roundStatus \in Terminal)
<1> DEFINE s == Snapshot(configured)
<1>1. /\ s.posture = ReportedPosture /\ s.rolloutPosture = ReportedRollout
      /\ s.configured = configured /\ s.valid = (Posture # "invalid")
      /\ s.killSwitchActive = halted /\ s.blocked = ReportedBlocked
      /\ s.roundStatus = roundStatus
  BY DEF Snapshot
<1>2. GateCanArm(s, r) => MayArm /\ ReadyToArm(s, r)
  BY <1>1, ReportedMeans DEF GateCanArm, MayArm, ReadyToArm, Unhindered, ReportedRollout
<1>3. GateCanUseStaged(s, r) => ReadyForStaged(s, r) /\ ~degraded /\ ~halted
  BY <1>1, ReportedMeans DEF GateCanUseStaged, ReadyForStaged, Unhindered, DegradedIsBlocked
<1>4. ReleaseStage(s, r) \in {"micro_live", "constrained_live"} =>
        {"explicit-rollout-stage", "kill-switch-clear"} \subseteq Passing(s, r)
  BY <1>1 DEF ReleaseStage, GateCanArm, GateCanUseStaged, Passing, PaperSafe
<1>5. ReadyToArm(s, r) <=> Blockers(s, r) \subseteq {"staged_live_candidate"}
  BY <1>1 DEF ReadyToArm, Unhindered, Blockers
<1>6. GateCanUseStaged(s, r) => Blockers(s, r) = {}
  BY <1>1, ReportedMeans DEF GateCanUseStaged, Blockers
<1>7. LiveAllowed(s, r) => Permitted \/ (deployment.liveTestMode /\ roundStatus # "running")
  BY <1>1, ReportedMeans DEF LiveAllowed, Permitted, StagedNotReady
<1>8. Permitted /\ RequireArm /\ ~r.error =>
        LiveAllowed(s, r) \/ (~deployment.liveTestMode /\ roundStatus \in Terminal)
  <2> SUFFICES ASSUME Permitted, RequireArm, ~r.error,
                      deployment.liveTestMode \/ roundStatus \notin Terminal
               PROVE  LiveAllowed(s, r)
    OBVIOUS
  <2>1. roundStatus \notin Terminal
    BY DEF Permitted, Terminal
  <2>2. s.posture = "live_armed"
    BY <1>1, <2>1, ReportedMeans DEF Permitted, StagedNotReady
  <2>3. s.valid /\ ~s.blocked /\ ~s.killSwitchActive
    BY <1>1, <2>1 DEF Permitted, ReportedBlocked, ReportedRollout
  <2>4. s.rolloutPosture \notin {"paper_only", "paused_or_rolled_back"}
    BY <1>1 DEF Permitted, ReportedRollout
  <2> QED
    BY <2>2, <2>3, <2>4 DEF LiveAllowed, ReadinessPosture
<1> QED
  BY <1>2, <1>3, <1>4, <1>7, <1>8, <1>5, <1>6

(* Readiness and release gate tell the truth of the guardrail they report,  *)
(* whatever the caps, the deployment and the history of operations.         *)
THEOREM GateAlwaysToldTrue == Spec => []GateToldTrue
<1>1. TypeOK /\ DegradedIsBlocked => GateToldTrue
  BY JudgedTrue DEF GateToldTrue
<1> QED
  BY <1>1, TypeCorrect, NothingOnlyDegrades, PTL
=============================================================================
