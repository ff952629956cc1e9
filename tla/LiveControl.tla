----------------------------- MODULE LiveControl -----------------------------
(***************************************************************************)
(* The micro-live guardrail of bot/src/runtime/live-control.ts, with the   *)
(* execution handler of bot/src/agents/execution.agent.ts that takes an    *)
(* admission (evaluateMicroLiveIntent), carries the trade out over several *)
(* awaits and gives the admission back (finalizeMicroLiveIntent).          *)
(*                                                                         *)
(* Every exported operation is an action and may be called in any order,   *)
(* so what is proved here holds for every caller of the library.  Module   *)
(* LiveCycle has the cycle that makes these calls, with less detail here.  *)
(*                                                                         *)
(* Each operation ends by writing its state to a file synchronously        *)
(* (persistLiveControlState), so a crash loses none of it: Crash keeps the *)
(* control state and forgets the handlers that were running.               *)
(***************************************************************************)
EXTENDS Integers, FiniteSets

CONSTANTS
  Handler,              \* calls of the execution handler that may be in progress at once
  Notional,             \* the parsed positive amounts an intent may carry
  Rollout,              \* the rollout postures the configuration may take
  Deployment,           \* the deployments considered: see DeploymentType
  RequireArm,           \* caps.requireArm
  MaxNotionalPerTrade, MaxTradesPerWindow, Window, Cooldown, MaxInFlight,
  FailuresToBlock, FailureWindow, MaxDailyNotional,   \* the other caps
  DayLength,            \* length of a UTC day in clock units
  MaxTime, MaxAttempts  \* bounds of the model: the clock and the admissions

RolloutPosture ==
  {"micro_live", "staged_live_candidate", "paper_only", "paused_or_rolled_back", "invalid"}

(* A deployment runs live-test rounds or not, and reads its kill switch and *)
(* posture from the runtime configuration's control view or from its        *)
(* environment.                                                             *)
DeploymentType == [liveTestMode : BOOLEAN, viewBound : BOOLEAN]

ASSUME ConstantsOK ==
  /\ IsFiniteSet(Handler)
  /\ Notional \subseteq Nat \ {0}
  /\ Rollout \subseteq RolloutPosture
  /\ Deployment \subseteq DeploymentType
  /\ RequireArm \in BOOLEAN
  /\ MaxNotionalPerTrade \in Nat /\ MaxDailyNotional \in Nat
  /\ MaxTradesPerWindow \in Nat \ {0} /\ MaxInFlight \in Nat \ {0}
  /\ FailuresToBlock \in Nat \ {0} /\ DayLength \in Nat \ {0}
  /\ Window \in Nat /\ Cooldown \in Nat /\ FailureWindow \in Nat
  /\ MaxTime \in Nat /\ MaxAttempts \in Nat

VARIABLES
  deployment,           \* fixed by Init
  rollout,              \* the configured rollout posture
  halted,               \* what isKillSwitchHalted() answers
  armed, blocked, degraded, manualRearmRequired, roundStatus,
  inFlight, recentTrades, recentFailures, dailyNotional, dailyKey, lastExecutionAt,
  now,                  \* Date.now()
  phase, attempt,       \* per handler call: how far it got, and the admission it holds
                        \* (with, for the history, the trades confirmed before it)
  admissions,           \* history: how many intents were admitted
  confirmed,            \* history: the trades whose success was finalized
  traded,               \* history: the last day that traded, and its notional
  leaked,               \* history: admissions whose handler ended without finalizing
  acknowledged          \* history: the failures on record when an operator last armed

config   == <<deployment, rollout, halted>>
control  == <<armed, blocked, degraded, manualRearmRequired, roundStatus>>
counters == <<recentTrades, recentFailures, dailyNotional, dailyKey>>
calls    == <<phase, attempt>>
history  == <<admissions, confirmed, traded, leaked>>
vars == <<config, control, counters, inFlight, lastExecutionAt, now, calls, history, acknowledged>>

RoundStatus == {"idle", "preflighted", "running", "stopped", "completed", "failed"}
Terminal == {"stopped", "completed", "failed"}
NoExecution == -1
Day(t) == t \div DayLength
NoAttempt == [id |-> 0, startedAt |-> 0, notional |-> 0, after |-> {}]

(* The control view reports a kill as a paused posture. *)
Posture ==
  IF deployment.viewBound /\ halted /\ rollout # "invalid"
  THEN "paused_or_rolled_back" ELSE rollout

(***************************************************************************)
(* cleanupCounters: a new UTC day clears the counters, then the entries    *)
(* older than their window are dropped.  The arrays of timestamps are sets *)
(* of entries here, one per attempt, since an attempt is pushed once.      *)
(***************************************************************************)
SameDay == dailyKey = Day(now)
KeptTradesEarly == {t \in recentTrades : SameDay /\ now - t.at < Window}  \* mutant
KeptTrades   == {t \in recentTrades : SameDay /\ now - t.at <= Window}
KeptFailures == {t \in recentFailures : SameDay /\ now - t.at <= FailureWindow}
KeptNotional == IF SameDay THEN dailyNotional ELSE 0

CleanupCounters ==
  /\ recentTrades' = KeptTrades
  /\ recentFailures' = KeptFailures
  /\ dailyNotional' = KeptNotional
  /\ dailyKey' = Day(now)

-----------------------------------------------------------------------------
(* Mutant: ending a round leaves the micro-live arm as it was. *)
RoundTransitionArmed(next) ==
  /\ roundStatus' = next
  /\ armed' = armed
  /\ blocked' = (next \in Terminal)
  /\ degraded' = (next \in {"stopped", "failed"})
  /\ manualRearmRequired' = (next \in {"stopped", "failed"})

(* markRoundTransition *)
RoundTransition(next) ==
  /\ roundStatus' = next
  /\ armed' = (next = "running" /\ armed)
  /\ blocked' = (next \in Terminal)
  /\ degraded' = (next \in {"stopped", "failed"})
  /\ manualRearmRequired' = (next \in {"stopped", "failed"})

(* Each operation answers with a snapshot, and taking one cleans the counters. *)
GetSnapshot ==
  /\ CleanupCounters
  /\ UNCHANGED <<inFlight, lastExecutionAt, now, calls, history>>

ReadSnapshot == GetSnapshot /\ UNCHANGED <<config, control, acknowledged>>

MayArm ==
  /\ ~(deployment.liveTestMode /\ roundStatus \in Terminal)
  /\ Posture \in {"micro_live", "staged_live_candidate"}
  /\ ~halted

ArmAccepted ==
  /\ MayArm
  /\ armed' = TRUE
  /\ blocked' = FALSE
  /\ degraded' = FALSE
  /\ manualRearmRequired' = FALSE
  /\ acknowledged' = KeptFailures
  /\ UNCHANGED roundStatus

ArmDenied ==
  /\ ~MayArm
  /\ UNCHANGED acknowledged
  /\ \/ /\ deployment.liveTestMode /\ roundStatus \in Terminal
        /\ RoundTransition("failed")
     \/ /\ ~(deployment.liveTestMode /\ roundStatus \in Terminal)
        /\ Posture \in {"invalid", "paper_only", "paused_or_rolled_back"}
        /\ blocked' = TRUE
        /\ manualRearmRequired' = TRUE
        /\ UNCHANGED <<armed, degraded, roundStatus>>
     \/ /\ ~(deployment.liveTestMode /\ roundStatus \in Terminal)
        /\ Posture \in {"micro_live", "staged_live_candidate"}
        /\ UNCHANGED control

ArmMicroLive == (ArmAccepted \/ ArmDenied) /\ GetSnapshot /\ UNCHANGED config

(* What every operation below shares: it arms nothing and takes a snapshot. *)
Operation == GetSnapshot /\ UNCHANGED acknowledged

DisarmMicroLive ==
  /\ armed' = FALSE
  /\ UNCHANGED <<blocked, degraded, manualRearmRequired, roundStatus, config>>
  /\ Operation

(* Bound to the runtime configuration, the kill takes effect when its       *)
(* record is written, which nobody awaits.                                  *)
KillMicroLive ==
  /\ RoundTransition("stopped")
  /\ halted' = TRUE \/ (deployment.viewBound /\ halted' = halted)
  /\ UNCHANGED <<deployment, rollout>> /\ Operation

(* resetKilledMicroLive: outside live-test mode `blocked` stays as it was. *)
ResetKilledMicroLive ==
  /\ \/ /\ deployment.liveTestMode /\ roundStatus \in {"preflighted", "running"}
        /\ RoundTransition("failed")
     \/ /\ deployment.liveTestMode /\ roundStatus \notin {"preflighted", "running"}
        /\ RoundTransition("preflighted")
     \/ /\ ~deployment.liveTestMode
        /\ armed' = FALSE
        /\ degraded' = FALSE
        /\ manualRearmRequired' = FALSE
        /\ UNCHANGED <<blocked, roundStatus>>
  /\ UNCHANGED config /\ Operation

(***************************************************************************)
(* Live-test rounds: outside live-test mode each operation is a no-op; a   *)
(* refused transition marks the round failed.                              *)
(***************************************************************************)
RoundNoop == ~deployment.liveTestMode /\ UNCHANGED control

PreflightLiveTestRound ==
  /\ \/ RoundNoop
     \/ deployment.liveTestMode /\ roundStatus = "preflighted" /\ UNCHANGED control
     \/ deployment.liveTestMode /\ roundStatus = "running" /\ RoundTransition("failed")
     \/ /\ deployment.liveTestMode /\ roundStatus \notin {"preflighted", "running"}
        /\ RoundTransition("preflighted")
  /\ UNCHANGED config /\ Operation

(* From idle the round is preflighted first, which disarms it. *)
StartLiveTestRound ==
  /\ \/ RoundNoop
     \/ deployment.liveTestMode /\ roundStatus = "running" /\ UNCHANGED control
     \/ deployment.liveTestMode /\ roundStatus \in Terminal /\ RoundTransition("failed")
     \/ deployment.liveTestMode /\ roundStatus = "preflighted" /\ RoundTransition("running")
     \/ /\ deployment.liveTestMode /\ roundStatus = "idle"
        /\ roundStatus' = "running"
        /\ armed' = FALSE /\ blocked' = FALSE /\ degraded' = FALSE
        /\ manualRearmRequired' = FALSE
  /\ UNCHANGED config /\ Operation

StopLiveTestRound ==
  /\ \/ RoundNoop
     \/ deployment.liveTestMode /\ roundStatus = "stopped" /\ UNCHANGED control
     \/ /\ deployment.liveTestMode /\ roundStatus \in {"completed", "failed"}
        /\ RoundTransition("failed")
     \/ /\ deployment.liveTestMode /\ roundStatus \notin Terminal
        /\ RoundTransition("stopped")
  /\ UNCHANGED config /\ Operation

CompleteLiveTestRound ==
  /\ \/ RoundNoop
     \/ deployment.liveTestMode /\ roundStatus = "completed" /\ UNCHANGED control
     \/ deployment.liveTestMode /\ roundStatus = "failed" /\ RoundTransition("failed")
     \/ /\ deployment.liveTestMode /\ roundStatus \notin {"completed", "failed"}
        /\ RoundTransition("completed")
  /\ UNCHANGED config /\ Operation

ResetLiveTestRound ==
  /\ \/ RoundNoop
     \/ deployment.liveTestMode /\ roundStatus \in {"preflighted", "idle"} /\ UNCHANGED control
     \/ deployment.liveTestMode /\ roundStatus = "running" /\ RoundTransition("failed")
     \/ deployment.liveTestMode /\ roundStatus \in Terminal /\ RoundTransition("preflighted")
  /\ UNCHANGED config /\ Operation

-----------------------------------------------------------------------------
(* evaluateMicroLiveIntent: the guards of an admission, in two groups. *)
Permitted ==
  /\ Posture \in {"micro_live", "staged_live_candidate"}
  /\ Posture = "staged_live_candidate" => armed /\ ~degraded /\ ~manualRearmRequired
  /\ ~halted
  /\ ~blocked
  /\ RequireArm => armed
  /\ deployment.liveTestMode => roundStatus = "running"

(* The cooldown since the last confirmed execution has not elapsed. *)
CoolingDown ==
  Cooldown > 0 /\ lastExecutionAt # NoExecution /\ now - lastExecutionAt < Cooldown

(* Mutants: the in-flight cap is off by one; the window cap is not checked. *)
WithinCapsInFlight(n) ==
  /\ n <= MaxNotionalPerTrade /\ KeptNotional + n <= MaxDailyNotional
  /\ Cardinality(KeptTrades) < MaxTradesPerWindow
  /\ inFlight <= MaxInFlight /\ ~CoolingDown
WithinCapsNoWindow(n) ==
  /\ n <= MaxNotionalPerTrade /\ KeptNotional + n <= MaxDailyNotional
  /\ inFlight < MaxInFlight /\ ~CoolingDown

WithinCaps(n) ==
  /\ n <= MaxNotionalPerTrade
  /\ Cardinality(KeptTrades) < MaxTradesPerWindow
  /\ KeptNotional + n <= MaxDailyNotional
  /\ inFlight < MaxInFlight
  /\ ~CoolingDown

StagedNotReady ==
  Posture = "staged_live_candidate" /\ (~armed \/ degraded \/ manualRearmRequired)

EvaluateMicroLiveIntent(h, n) ==
  /\ phase[h] = "idle"
  /\ UNCHANGED <<config, lastExecutionAt, now, confirmed, traded, leaked, acknowledged>>
  /\ \/ /\ Posture = "invalid"
        /\ blocked' = TRUE /\ degraded' = TRUE /\ manualRearmRequired' = TRUE
        /\ UNCHANGED <<armed, roundStatus, counters, inFlight, calls, admissions>>
     \/ /\ Posture \in {"micro_live", "staged_live_candidate"}
        /\ CleanupCounters
        /\ \/ /\ halted /\ ~StagedNotReady
              /\ armed' = FALSE /\ manualRearmRequired' = TRUE
              /\ UNCHANGED <<blocked, degraded, roundStatus, inFlight, calls, admissions>>
           \/ /\ halted \/ ~Permitted \/ ~WithinCaps(n)
              /\ halted => StagedNotReady
              /\ UNCHANGED <<control, inFlight, calls, admissions>>
           \/ /\ Permitted /\ WithinCaps(n)
              /\ admissions < MaxAttempts
              /\ admissions' = admissions + 1
              /\ inFlight' = inFlight + 1
              /\ phase' = [phase EXCEPT ![h] = "admitted"]
              /\ attempt' = [attempt EXCEPT ![h] =
                   [id |-> admissions + 1, startedAt |-> now, notional |-> n,
                    after |-> {c.id : c \in confirmed}]]
              /\ UNCHANGED control

-----------------------------------------------------------------------------
(* The execution handler between admission and report. *)

EndCall(h) ==
  /\ phase' = [phase EXCEPT ![h] = "idle"]
  /\ attempt' = [attempt EXCEPT ![h] = NoAttempt]

(* Recording the decision or the attempt in the evidence repository throws: *)
(* the handler rejects without reaching finalizeMicroLiveIntent.            *)
EvidenceThrows(h) ==
  /\ phase[h] = "admitted"
  /\ EndCall(h)
  /\ leaked' = leaked + 1
  /\ UNCHANGED <<config, control, counters, inFlight, lastExecutionAt, now, admissions,
                 confirmed, traded, acknowledged>>

(* Pre-trade verification, quote, build and signing passed: the transaction *)
(* goes to the network.                                                     *)
SendTransaction(h) ==
  /\ phase[h] = "admitted"
  /\ phase' = [phase EXCEPT ![h] = "sent"]
  /\ UNCHANGED <<config, control, counters, inFlight, lastExecutionAt, now, attempt,
                 history, acknowledged>>

ReleaseInFlight(h) ==
  /\ inFlight' = (IF inFlight > 0 THEN inFlight - 1 ELSE 0)
  /\ EndCall(h)
  /\ dailyKey' = Day(now)
  /\ UNCHANGED <<config, now, admissions, leaked, acknowledged>>

(* Mutant: the cooldown is counted from the admission. *)
StartCooldownAtAdmission(h) == lastExecutionAt' = attempt[h].startedAt

StartCooldown(h) == lastExecutionAt' = now

(* What really traded today *)
TradedToday == IF traded.day = Day(now) THEN traded.notional ELSE 0

(* finalizeMicroLiveIntent with a confirmed trade *)
FinalizeSuccess(h) ==
  /\ phase[h] = "sent"
  /\ recentTrades' = KeptTrades \cup {[id |-> attempt[h].id, at |-> now]}
  /\ recentFailures' = KeptFailures
  /\ dailyNotional' = KeptNotional + attempt[h].notional
  /\ StartCooldown(h)
  /\ confirmed' = confirmed \cup
       {[id |-> attempt[h].id, startedAt |-> attempt[h].startedAt, at |-> now,
         notional |-> attempt[h].notional, after |-> attempt[h].after]}
  /\ traded' = [day |-> Day(now), notional |-> TradedToday + attempt[h].notional]
  /\ UNCHANGED control
  /\ ReleaseInFlight(h)

(* Mutants: the failure threshold blocks but does not disarm, or disarms    *)
(* but does not block.                                                      *)
DisarmOnly ==
  /\ degraded' = TRUE /\ manualRearmRequired' = TRUE
  /\ armed' = FALSE
  /\ UNCHANGED <<blocked, roundStatus>>

BlockOnly ==
  /\ blocked' = TRUE /\ degraded' = TRUE /\ manualRearmRequired' = TRUE
  /\ UNCHANGED <<armed, roundStatus>>

BlockAndDisarm ==
  /\ blocked' = TRUE /\ degraded' = TRUE /\ manualRearmRequired' = TRUE
  /\ armed' = FALSE
  /\ UNCHANGED roundStatus

(* finalizeMicroLiveIntent with anything else: a check, the quote, the      *)
(* signer, the send or its confirmation failed, or the send is ambiguous.   *)
FinalizeFailure(h) ==
  /\ phase[h] # "idle"
  /\ recentTrades' = KeptTrades
  /\ recentFailures' = KeptFailures \cup {[id |-> attempt[h].id, at |-> now]}
  /\ dailyNotional' = KeptNotional
  /\ \/ Cardinality(recentFailures') >= FailuresToBlock /\ BlockAndDisarm
     \/ /\ Cardinality(recentFailures') < FailuresToBlock
        /\ UNCHANGED control
  /\ UNCHANGED <<lastExecutionAt, confirmed, traded>>
  /\ ReleaseInFlight(h)

-----------------------------------------------------------------------------
(* The process ends and a new one hydrates what the old one persisted. *)
Crash ==
  /\ \E h \in Handler : phase[h] # "idle"
  /\ leaked' = leaked + Cardinality({h \in Handler : phase[h] # "idle"})
  /\ phase' = [h \in Handler |-> "idle"]
  /\ attempt' = [h \in Handler |-> NoAttempt]
  /\ UNCHANGED <<config, control, counters, inFlight, lastExecutionAt, now, admissions,
                 confirmed, traded, acknowledged>>

SetKillSwitch(h) ==
  /\ halted' = h
  /\ UNCHANGED <<deployment, rollout, control, counters, inFlight, lastExecutionAt, now,
                 calls, history, acknowledged>>

SetRollout(r) ==
  /\ rollout' = r
  /\ UNCHANGED <<deployment, halted, control, counters, inFlight, lastExecutionAt, now,
                 calls, history, acknowledged>>

Tick ==
  /\ now < MaxTime
  /\ now' = now + 1
  /\ UNCHANGED <<config, control, counters, inFlight, lastExecutionAt, calls, history,
                 acknowledged>>

Init ==
  /\ deployment \in Deployment
  /\ rollout \in Rollout
  /\ halted = FALSE
  /\ armed = FALSE /\ blocked = FALSE /\ degraded = FALSE
  /\ manualRearmRequired = FALSE /\ roundStatus = "idle"
  /\ inFlight = 0 /\ recentTrades = {} /\ recentFailures = {}
  /\ dailyNotional = 0 /\ dailyKey = 0 /\ lastExecutionAt = NoExecution
  /\ now = 0
  /\ phase = [h \in Handler |-> "idle"]
  /\ attempt = [h \in Handler |-> NoAttempt]
  /\ admissions = 0 /\ confirmed = {} /\ traded = [day |-> 0, notional |-> 0]
  /\ leaked = 0 /\ acknowledged = {}

Operator ==
  \/ ReadSnapshot \/ ArmMicroLive \/ DisarmMicroLive
  \/ KillMicroLive \/ ResetKilledMicroLive
  \/ PreflightLiveTestRound \/ StartLiveTestRound \/ StopLiveTestRound
  \/ CompleteLiveTestRound \/ ResetLiveTestRound

Next ==
  \/ Operator
  \/ \E h \in Handler, n \in Notional : EvaluateMicroLiveIntent(h, n)
  \/ \E h \in Handler :
       EvidenceThrows(h) \/ SendTransaction(h) \/ FinalizeSuccess(h) \/ FinalizeFailure(h)
  \/ Crash
  \/ \E b \in BOOLEAN : SetKillSwitch(b)
  \/ \E r \in Rollout : SetRollout(r)
  \/ Tick

Spec == Init /\ [][Next]_vars

-----------------------------------------------------------------------------
Executing == {h \in Handler : phase[h] # "idle"}
AttemptRecord == [id : Nat, startedAt : Nat, notional : Nat, after : SUBSET Nat]
Entry == [id : Nat, at : Nat]
Trade == [id : Nat, startedAt : Nat, at : Nat, notional : Nat, after : SUBSET Nat]

(* Every variable has its type. *)
TypeOK ==
  /\ deployment \in DeploymentType /\ rollout \in RolloutPosture /\ halted \in BOOLEAN
  /\ armed \in BOOLEAN /\ blocked \in BOOLEAN /\ degraded \in BOOLEAN
  /\ manualRearmRequired \in BOOLEAN /\ roundStatus \in RoundStatus
  /\ inFlight \in Nat /\ dailyNotional \in Nat /\ dailyKey \in Nat
  /\ recentTrades \subseteq Entry /\ recentFailures \subseteq Entry
  /\ lastExecutionAt \in Nat \cup {NoExecution} /\ now \in Nat
  /\ phase \in [Handler -> {"idle", "admitted", "sent"}]
  /\ attempt \in [Handler -> AttemptRecord]
  /\ admissions \in Nat /\ leaked \in Nat
  /\ confirmed \subseteq Trade /\ traded \in [day : Nat, notional : Nat]
  /\ acknowledged \subseteq Entry

(* The in-flight counter is exactly the executions in progress plus the     *)
(* admissions whose handler died (a crash, a failing evidence write), and   *)
(* never exceeds its cap: finalizing never takes back a slot it has not got. *)
InFlightAccounted ==
  /\ inFlight = Cardinality(Executing) + leaked
  /\ inFlight <= MaxInFlight

(* What the counter's refusal says: "In-flight executions N exceed cap". *)
InFlightIsExecuting == inFlight = Cardinality(Executing)

(* No confirmed trade that a cap still has to see is forgotten: crashes,    *)
(* failures and cleanups keep every trade of today's window on record.      *)
NoTradeForgotten ==
  \A c \in confirmed :
    Day(c.at) = Day(now) /\ now - c.at <= Window
      => [id |-> c.id, at |-> c.at] \in recentTrades

(* The trades of the window of one day that ends at t *)
InWindow(t) == {c \in confirmed : Day(c.at) = Day(t) /\ c.at <= t /\ t - c.at <= Window}

(* The window cap bounds the trades that really happened in a window of one *)
(* day; concurrent admissions can exceed it by one less than the in-flight  *)
(* cap, since the counter moves only when a trade is finalized.             *)
WindowCap ==
  \A last \in confirmed :
    Cardinality(InWindow(last.at)) <= MaxTradesPerWindow + MaxInFlight - 1

(* The daily notional that really traded stays within the cap, up to the    *)
(* notional of the other admissions in flight.                              *)
DailyNotionalCap ==
  traded.notional <= MaxDailyNotional + (MaxInFlight - 1) * MaxNotionalPerTrade

(* What trades, in number and in amount, stays within the caps, over        *)
(* concurrent executions, failures, crashes and midnight.                   *)
TradesCapped == WindowCap /\ DailyNotionalCap

(* An execution admitted after another one was confirmed waited out the     *)
(* cooldown, over restarts and midnight.                                    *)
CooldownKept ==
  \A a, b \in confirmed : a.id \in b.after => b.startedAt >= a.at + Cooldown

(* If micro-live is still armed with the failure threshold reached, then an *)
(* operator armed it with those failures on record.                         *)
FailuresDisarm ==
  armed /\ Cardinality(recentFailures) >= FailuresToBlock => recentFailures \subseteq acknowledged

(* A live-test round that ended is disarmed until it is reset. *)
TerminalRoundDisarmed ==
  deployment.liveTestMode /\ roundStatus \in Terminal => ~armed
=============================================================================
