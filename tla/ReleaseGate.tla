----------------------------- MODULE ReleaseGate -----------------------------
(***************************************************************************)
(* What the operator is told about the micro-live guardrail: the snapshot  *)
(* the worker publishes (getMicroLiveControlSnapshot), the readiness that  *)
(* health, status and preflight derive from it (server/runtime-truth.ts),  *)
(* and the release gate of GET /control/release-gate                       *)
(* (server/routes/control.ts).  Three functions written apart judge the    *)
(* same state that armMicroLive and evaluateMicroLiveIntent judge.         *)
(*                                                                         *)
(* Everything here is a function of a state of LiveControl and of the      *)
(* health of the runtime.  An operator reads it from the worker's last     *)
(* heartbeat, so it speaks of the moment of that heartbeat.                *)
(***************************************************************************)
EXTENDS LiveControl

(* Of the live runtime's snapshot: its status is "error", its adapters and  *)
(* its own state are degraded.                                              *)
RuntimeHealth == [error : BOOLEAN, adaptersDegraded : BOOLEAN, degraded : BOOLEAN]

(* The environment's invalid posture is reported as a paused one. *)
ReportedRollout ==
  IF Posture = "invalid" /\ ~deployment.viewBound THEN "paused_or_rolled_back" ELSE Posture

(* evaluatePosture, for a configuration that executes live *)
ReportedPosture ==
  IF Posture \in {"invalid", "paper_only", "paused_or_rolled_back"} THEN "live_blocked"
  ELSE IF halted THEN "live_killed"
  ELSE IF blocked \/ roundStatus \in Terminal \/ StagedNotReady THEN "live_blocked"
  ELSE IF armed THEN "live_armed" ELSE "live_disarmed"

ReportedBlocked ==
  blocked \/ halted \/ roundStatus \in Terminal \/ ReportedRollout = "paused_or_rolled_back"

(* The fields of the snapshot that the judgements below read.  An           *)
(* environment without ROLLOUT_POSTURE is not configured, and micro-live.   *)
Snapshot(configured) ==
  [posture |-> ReportedPosture, rolloutPosture |-> ReportedRollout, configured |-> configured,
   valid |-> Posture # "invalid", killSwitchActive |-> halted, blocked |-> ReportedBlocked,
   roundStatus |-> roundStatus]

MayBeConfigured ==
  IF deployment.viewBound \/ Posture # "micro_live" THEN {TRUE} ELSE BOOLEAN

-----------------------------------------------------------------------------
(* buildRuntimeReadiness, whose paperSafe is for runtimes that do not execute live. *)
PaperSafe == FALSE

ReadinessPosture(s, r) ==
  IF r.error \/ ~s.valid THEN "manual_review_required"
  ELSE IF s.rolloutPosture \in {"paper_only", "paused_or_rolled_back"} \/ s.posture = "live_blocked"
       THEN "blocked_for_live"
  ELSE IF r.degraded \/ r.adaptersDegraded \/ s.blocked THEN "degraded_but_safe_in_paper"
  ELSE "healthy_for_posture"

LiveAllowed(s, r) ==
  /\ ReadinessPosture(s, r) \in {"degraded_but_safe_in_paper", "healthy_for_posture"}
  /\ s.posture = "live_armed"
  /\ s.valid /\ ~s.blocked /\ ~s.killSwitchActive

(* The scopes of the blockers the readiness lists. *)
Blockers(s, r) ==
  UNION {IF r.error \/ ~s.valid THEN {"startup"} ELSE {},
         IF \/ s.rolloutPosture \in {"paper_only", "paused_or_rolled_back"}
            \/ s.blocked \/ s.killSwitchActive
            \/ s.roundStatus \in Terminal
            \/ r.adaptersDegraded
         THEN {"micro_live"} ELSE {},
         IF s.rolloutPosture = "staged_live_candidate" /\ r.degraded
         THEN {"staged_live_candidate"} ELSE {}}

(* Nothing the two readiness flags below share speaks against live. *)
Unhindered(s, r) ==
  s.valid /\ ~s.killSwitchActive /\ ~s.blocked /\ ~r.error /\ ~r.adaptersDegraded

ReadyToArm(s, r) ==
  /\ Unhindered(s, r)
  /\ s.rolloutPosture \notin {"paper_only", "paused_or_rolled_back"}
  /\ s.roundStatus \notin Terminal

ReadyForStaged(s, r) ==
  Unhindered(s, r) /\ s.rolloutPosture = "staged_live_candidate" /\ ~r.degraded

-----------------------------------------------------------------------------
(* The release gate's own judgements. *)
GateCanArm(s, r) ==
  /\ s.rolloutPosture = "micro_live" /\ s.valid /\ s.configured
  /\ ~s.killSwitchActive /\ ~s.blocked
  /\ s.roundStatus \notin Terminal
  /\ ~r.error /\ ~r.adaptersDegraded

GateCanUseStaged(s, r) ==
  /\ s.rolloutPosture = "staged_live_candidate" /\ s.valid /\ s.configured
  /\ ~s.killSwitchActive /\ ~s.blocked
  /\ ~r.error /\ ~r.adaptersDegraded /\ ~r.degraded

(* deriveOperatorReleaseStage *)
ReleaseStage(s, r) ==
  IF GateCanUseStaged(s, r) THEN "constrained_live"
  ELSE IF GateCanArm(s, r) THEN "micro_live"
  ELSE IF PaperSafe THEN "paper_safe"
  ELSE "blocked"

(* buildReleaseGateChecklist: the items that pass.  The degraded-paper-safe *)
(* item only asks for a review.                                             *)
Passing(s, r) ==
  UNION {IF PaperSafe THEN {"paper-safe"} ELSE {},
         IF s.configured /\ s.rolloutPosture # "paused_or_rolled_back"
         THEN {"explicit-rollout-stage"} ELSE {},
         IF GateCanArm(s, r) THEN {"micro-live-gate"} ELSE {},
         IF GateCanUseStaged(s, r) THEN {"staged-live-gate"} ELSE {},
         IF s.killSwitchActive THEN {} ELSE {"kill-switch-clear"}}

-----------------------------------------------------------------------------
(* What the operator is told agrees with what the guardrail does, for every *)
(* health of the runtime.  A gate that offers arming is one whose arming is *)
(* accepted, and the readiness says so too; a stage above paper has its     *)
(* posture and kill items passing, and a readiness that is refused names a  *)
(* blocker; "live allowed" means that an intent                             *)
(* within its caps is admitted, unless the live-test round is not running;  *)
(* and an intent the guardrail permits is one the readiness called allowed, *)
(* but for a round that a kill ended outside live-test mode, which the next *)
(* arming leaves as it is.                                                  *)
GateToldTrue ==
  \A r \in RuntimeHealth, configured \in MayBeConfigured :
    LET s == Snapshot(configured) IN
    /\ GateCanArm(s, r) => MayArm /\ ReadyToArm(s, r)
    /\ GateCanUseStaged(s, r) => ReadyForStaged(s, r) /\ ~degraded /\ ~halted
    /\ ReleaseStage(s, r) \in {"micro_live", "constrained_live"} =>
         {"explicit-rollout-stage", "kill-switch-clear"} \subseteq Passing(s, r)
    /\ ReadyToArm(s, r) <=> Blockers(s, r) \subseteq {"staged_live_candidate"}
    /\ GateCanUseStaged(s, r) => Blockers(s, r) = {}
    /\ LiveAllowed(s, r) => Permitted \/ (deployment.liveTestMode /\ roundStatus # "running")
    /\ Permitted /\ RequireArm /\ ~r.error =>
         LiveAllowed(s, r) \/ (~deployment.liveTestMode /\ roundStatus \in Terminal)
=============================================================================
