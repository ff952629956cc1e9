------------------------------ MODULE EventGate ------------------------------
(***************************************************************************)
(* The worker event gate (bot/src/runtime/worker-event-gate): the stages   *)
(* an event passes before it may reach a model or cause a write, and the   *)
(* dedupe, cooldown and batch records the gate keeps.  The gate is a       *)
(* function of an event, its observedAt and the gate's state; GatePipeline *)
(* runs it.  Scores are percentages, times are minutes.                    *)
(*                                                                         *)
(* An event is a record; the hash of its content (basisHash) is the pair   *)
(* <<event, observedAt>>, which differs whenever the content does.  Event  *)
(* and trace ids are not part of that hash and are left out.               *)
(***************************************************************************)
EXTENDS Integers, Sequences
LOCAL INSTANCE FiniteSetsExt

Families == {"lowcap", "shadow"}
Severities == {"low", "medium", "high", "critical"}
Percent == 0..100

(* `valid` is the outcome of the format checks on family, type and window;  *)
(* `toxic` that of walletQualityState and liquidityState.                   *)
IsEvent(e) ==
  /\ e.family \in Families /\ e.severity \in Severities
  /\ {e.valid, e.toxic, e.promotion, e.suppression, e.riskSpike, e.conflict} \subseteq BOOLEAN
  /\ {e.confidence, e.integrity, e.freshness, e.convergence,
      e.transition, e.severityScore} \subseteq Percent
  /\ e.trusted \in Nat

Lowcap(e) == e.family = "lowcap"

EmptyGate == [dedupe |-> <<>>, cooldown |-> <<>>, batch |-> <<>>]

-----------------------------------------------------------------------------
(* Windows and keys. *)

DedupeWindow(e) == IF Lowcap(e) THEN 15 ELSE 30
BatchWindow(e) == IF Lowcap(e) THEN 5 ELSE 10

LowcapClass(e) ==
  IF \/ e.severity = "critical"
     \/ e.confidence >= 90 /\ e.convergence >= 80 /\ e.integrity >= 80 THEN "prime"
  ELSE IF e.confidence >= 75 \/ e.convergence >= 70 THEN "strong"
  ELSE IF e.confidence >= 50 \/ e.convergence >= 40 THEN "borderline"
  ELSE "stale"

ShadowClass(e) ==
  IF \/ e.severity = "critical" \/ e.riskSpike
     \/ e.severityScore >= 85 \/ e.transition >= 85 THEN "critical"
  ELSE IF e.transition >= 70 \/ e.severity = "high" THEN "normal"
  ELSE IF e.transition >= 50 \/ e.state = "notable_change" THEN "review"
  ELSE "stable"

CooldownClass(e) == IF Lowcap(e) THEN LowcapClass(e) ELSE ShadowClass(e)

CooldownWindow(e) ==
  IF Lowcap(e)
  THEN [prime |-> 15, strong |-> 30, borderline |-> 45, stale |-> 120][LowcapClass(e)]
  ELSE [critical |-> 15, normal |-> 60, review |-> 120, stable |-> 180][ShadowClass(e)]

Bucket(t, window) == t \div window

(* The entity stands for the normalised entity id and key. *)
DedupeKey(e, t) == <<e.family, e.entity, e.type, Bucket(t, DedupeWindow(e))>>
CooldownKey(e) == <<e.family, e.entity, CooldownClass(e)>>

(* `group` is the batch group hint, or "none" for the entity's own group.   *)
BatchKey(e, t) == <<e.family, e.entity, Bucket(t, BatchWindow(e)), e.group>>

-----------------------------------------------------------------------------
(* The stages that look at the event alone. *)

IntegrityOk(e) == e.integrity >= 40 /\ e.freshness >= 15 /\ ~e.toxic

RelevanceScore(e) ==
  IF Lowcap(e)
  THEN Max({e.confidence, e.convergence, e.integrity, e.freshness, IF e.trusted > 0 THEN 55 ELSE 0})
  ELSE Max({e.confidence, e.convergence, e.transition, e.severityScore, e.freshness})

RelevanceThreshold(e) ==
  IF Lowcap(e) THEN (IF e.promotion THEN 35 ELSE 45) ELSE (IF e.promotion THEN 32 ELSE 42)

Relevant(e) ==
  /\ RelevanceScore(e) >= RelevanceThreshold(e) /\ ~e.suppression
  /\ ~Lowcap(e) => ~e.conflict /\ ~e.riskSpike

IrrelevanceKind(e) ==
  IF e.freshness < 25 THEN "stale"
  ELSE IF (Lowcap(e) /\ e.suppression) \/ (~Lowcap(e) /\ (e.riskSpike \/ e.conflict)) THEN "denied"
  ELSE "low_relevance"

DeepEligible(e) ==
  \/ e.severity = "critical"
  \/ IF Lowcap(e)
     THEN e.confidence >= 90 \/ e.convergence >= 80 \/ (e.integrity >= 85 /\ e.freshness >= 70)
     ELSE e.riskSpike \/ e.transition >= 80 \/ e.severityScore >= 85

SmallEligible(e) ==
  \/ e.promotion
  \/ IF Lowcap(e)
     THEN e.confidence >= 65 \/ e.convergence >= 60 \/ e.trusted >= 2
     ELSE e.confidence >= 60 \/ e.transition >= 55 \/ e.convergence >= 50

(* selectRouteClass *)
RouteClass(e) ==
  IF DeepEligible(e) THEN "deep" ELSE IF SmallEligible(e) THEN "small" ELSE "no_model"

(* selectWriteEffect *)
WriteEffect(e, route) ==
  CASE route = "no_model" -> "no_write"
    [] route = "small" -> IF Lowcap(e) THEN "watchlist_update" ELSE "derived_refresh_trigger"
    [] route = "deep" -> IF Lowcap(e) THEN "review_queue_insert" ELSE "case_update"

-----------------------------------------------------------------------------
(* The stages that look at the gate's records. *)

(* find: the first index of a set, or 0 *)
FirstOf(S) == IF S = {} THEN 0 ELSE CHOOSE i \in S : \A j \in S : i <= j

ActiveDuplicate(gate, e, t) ==
  FirstOf({i \in DOMAIN gate.dedupe :
    /\ gate.dedupe[i].key = DedupeKey(e, t) /\ gate.dedupe[i].basis = <<e, t>>
    /\ gate.dedupe[i].expiresAt > t})

(* Mutant: only a later event falls into a cooldown. *)
ActiveCooldownForward(gate, e, t) ==
  FirstOf({i \in DOMAIN gate.cooldown :
    /\ gate.cooldown[i].key = CooldownKey(e) /\ gate.cooldown[i].expiresAt > t
    /\ gate.cooldown[i].at <= t})

ActiveCooldown(gate, e, t) ==
  FirstOf({i \in DOMAIN gate.cooldown :
    gate.cooldown[i].key = CooldownKey(e) /\ gate.cooldown[i].expiresAt > t})

PendingBatch(gate, e, t) ==
  FirstOf({i \in DOMAIN gate.batch :
    gate.batch[i].key = BatchKey(e, t) /\ gate.batch[i].status = "pending"})

Batchable(e) ==
  \/ e.suppression
  \/ e.confidence < (IF Lowcap(e) THEN 80 ELSE 75)
  \/ e.group # "none"

BatchBlocks(gate, e, t) ==
  LET i == PendingBatch(gate, e, t)
  IN  IF i # 0 THEN t < gate.batch[i].releaseAt ELSE Batchable(e)

StageOrder == <<"validity", "integrity", "convergence_relevance", "dedupe",
                "cooldown", "batch_debounce">>
LaterStages == <<"model_promotion", "post_model_routing">>

Blocks(stage, gate, e, t) ==
  CASE stage = "validity" -> ~e.valid
    [] stage = "integrity" -> ~IntegrityOk(e)
    [] stage = "convergence_relevance" -> ~Relevant(e)
    [] stage = "dedupe" -> ActiveDuplicate(gate, e, t) # 0
    [] stage = "cooldown" -> ActiveCooldown(gate, e, t) # 0
    [] stage = "batch_debounce" -> BatchBlocks(gate, e, t)

(* The first stage that blocks; the stages after it are skipped. *)
BlockingStage(gate, e, t) ==
  LET i == FirstOf({k \in DOMAIN StageOrder : Blocks(StageOrder[k], gate, e, t)})
  IN  IF i = 0 THEN "none" ELSE StageOrder[i]

SuppressionKind(stage, e) ==
  CASE stage = "validity" -> "invalid"
    [] stage = "integrity" -> "integrity"
    [] stage = "convergence_relevance" -> IrrelevanceKind(e)
    [] stage = "batch_debounce" -> "defer"
    [] stage \in {"dedupe", "cooldown", "none"} -> stage

-----------------------------------------------------------------------------
(* What an evaluation leaves in the records. *)

DedupeAfter(gate, e, t) ==
  Append(gate.dedupe, [key |-> DedupeKey(e, t), basis |-> <<e, t>>,
                       expiresAt |-> t + DedupeWindow(e)])

CooldownAfter(gate, e, t) ==
  Append(gate.cooldown, [key |-> CooldownKey(e), at |-> t, expiresAt |-> t + CooldownWindow(e)])

BatchAfter(gate, e, t) ==
  LET i == PendingBatch(gate, e, t)
  IN  IF i # 0
      THEN [gate.batch EXCEPT ![i].events = @ \cup {<<e, t>>}, ![i].count = @ + 1,
              ![i].status = IF t >= gate.batch[i].releaseAt THEN "released" ELSE "pending"]
      ELSE IF Batchable(e)
      THEN Append(gate.batch, [key |-> BatchKey(e, t), events |-> {<<e, t>>}, count |-> 1,
                               releaseAt |-> t + BatchWindow(e), status |-> "pending"])
      ELSE gate.batch

(* A stage writes its record when the event reached it and it let it pass;  *)
(* the batch stage also when it holds the event back.                       *)
GateAfter(gate, e, t) ==
  LET stage == BlockingStage(gate, e, t)
  IN  [dedupe   |-> IF stage \in {"none", "cooldown", "batch_debounce"}
                    THEN DedupeAfter(gate, e, t) ELSE gate.dedupe,
       cooldown |-> IF stage \in {"none", "batch_debounce"}
                    THEN CooldownAfter(gate, e, t) ELSE gate.cooldown,
       batch    |-> IF stage \in {"none", "batch_debounce"}
                    THEN BatchAfter(gate, e, t) ELSE gate.batch]

(* When the record that suppressed the event expires, or releases it. *)
SuppressedUntil(gate, e, t) ==
  LET stage == BlockingStage(gate, e, t)
  IN  CASE stage = "dedupe" -> gate.dedupe[ActiveDuplicate(gate, e, t)].expiresAt
        [] stage = "cooldown" -> gate.cooldown[ActiveCooldown(gate, e, t)].expiresAt
        [] stage = "batch_debounce" ->
             LET i == PendingBatch(gate, e, t)
             IN  IF i # 0 THEN gate.batch[i].releaseAt ELSE t + BatchWindow(e)
        [] OTHER -> t

(* The key under which the suppression is recorded. *)
SuppressionKey(stage, e, t) ==
  CASE stage = "dedupe" -> DedupeKey(e, t)
    [] stage = "cooldown" -> CooldownKey(e)
    [] stage = "batch_debounce" -> BatchKey(e, t)
    [] OTHER -> <<>>

(* evaluateWorkerEventGate *)
Evaluation(gate, e, t) ==
  LET stage == BlockingStage(gate, e, t)
      route == IF stage = "none" THEN RouteClass(e) ELSE "no_model"
  IN  [event |-> e, at |-> t, stage |-> stage, kind |-> SuppressionKind(stage, e),
       key |-> SuppressionKey(stage, e, t), until |-> SuppressedUntil(gate, e, t),
      route |-> route, effect |-> WriteEffect(e, route)]
=============================================================================
