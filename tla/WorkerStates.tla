----------------------------- MODULE WorkerStates -----------------------------
(***************************************************************************)
(* The state machines of the two workers behind the event gate             *)
(* (bot/src/runtime/worker-state-machines.ts): the low-cap hunter and the  *)
(* shadow intelligence.  Both are functions of the worker's status and of  *)
(* an evaluation of EventGate.                                             *)
(***************************************************************************)
EXTENDS Integers, Sequences

HunterStatus == {"observed", "screened", "candidate", "promoted", "modeled",
                 "watchlisted", "rejected", "review_queue"}
ShadowStatus == {"watching", "stable", "notable_change", "transition_detected",
                 "modeled", "updated_case", "review_queue", "alert"}

HunterTerminal == {"watchlisted", "rejected", "review_queue"}
ShadowTerminal == {"review_queue", "alert"}

(* An outcome: its kind and the status after it. *)
Applied(status) == [kind |-> "transition_applied", after |-> status]
Blocked(status) == [kind |-> "transition_blocked", after |-> status]
Invalid(status) == [kind |-> "invalid_transition", after |-> status]
Unmoved(status) == [kind |-> "no_transition", after |-> status]
Moved(before, after) == IF after = before THEN Unmoved(before) ELSE Applied(after)

Suppressed(ev) == ev.kind \in {"dedupe", "cooldown", "defer"}
Routed(ev) == ev.route # "no_model"
AlertSignal(ev) ==
  ev.event.severity = "critical" \/ ev.event.riskSpike \/ ev.event.conflict

-----------------------------------------------------------------------------
(* Mutant: a small adjudication promotes. *)
HunterNextHasty(status, ev) ==
  CASE status = "observed" -> "screened"
    [] status = "screened" -> IF Routed(ev) THEN "promoted" ELSE "screened"
    [] status = "candidate" -> IF Routed(ev) THEN "promoted" ELSE "candidate"
    [] status = "promoted" -> IF Routed(ev) THEN "modeled" ELSE "promoted"
    [] status = "modeled" ->
         CASE ev.effect = "watchlist_update" -> "watchlisted"
           [] ev.effect = "review_queue_insert" -> "review_queue"
           [] OTHER -> "modeled"

(* lowCapNextState *)
HunterNext(status, ev) ==
  CASE status = "observed" -> "screened"
    [] status = "screened" ->
         CASE ev.route = "small" -> "candidate"
           [] ev.route = "deep" -> "promoted"
           [] OTHER -> "screened"
    [] status = "candidate" -> IF ev.route = "deep" THEN "promoted" ELSE "candidate"
    [] status = "promoted" -> IF Routed(ev) THEN "modeled" ELSE "promoted"
    [] status = "modeled" ->
         CASE ev.effect = "watchlist_update" -> "watchlisted"
           [] ev.effect = "review_queue_insert" -> "review_queue"
           [] OTHER -> "modeled"

(* shadowNextState, after its alert *)
ShadowNext(status, ev) ==
  CASE status = "watching" -> "stable"
    [] status = "stable" ->
         IF ev.event.state = "notable_change" \/ ev.event.transition >= 50 \/ Routed(ev)
         THEN "notable_change" ELSE "stable"
    [] status = "notable_change" ->
         IF ev.event.state = "transition_detected" \/ ev.event.transition >= 70 \/ Routed(ev)
         THEN "transition_detected" ELSE "notable_change"
    [] status = "transition_detected" -> IF Routed(ev) THEN "modeled" ELSE "transition_detected"
    [] status = "modeled" ->
         CASE ev.effect = "case_update" -> "updated_case"
           [] ev.effect = "derived_refresh_trigger" -> "review_queue"
           [] OTHER -> "modeled"
    [] status = "updated_case" ->
         IF ev.effect \in {"review_queue_insert", "derived_refresh_trigger"}
         THEN "review_queue" ELSE "updated_case"

-----------------------------------------------------------------------------
(* transitionLowCapHunterState *)
HunterTransition(status, ev) ==
  CASE ev.event.family # "lowcap" -> Invalid(status)
    [] ev.event.family = "lowcap" /\ Suppressed(ev) -> Blocked(status)
    [] ev.event.family = "lowcap" /\ ~Suppressed(ev) /\ status \in HunterTerminal ->
         IF Routed(ev) \/ ev.effect # "no_write" THEN Invalid(status) ELSE Unmoved(status)
    [] OTHER ->
         IF ev.stage # "none" THEN Applied("rejected")
         ELSE Moved(status, HunterNext(status, ev))

(* Mutant: a suppressed event still raises an alert. *)
ShadowTransitionAlertFirst(status, ev) ==
  CASE ev.event.family # "shadow" -> Invalid(status)
    [] ev.event.family = "shadow" /\ AlertSignal(ev) /\ status # "alert" -> Applied("alert")
    [] ev.event.family = "shadow" /\ ~AlertSignal(ev) /\ Suppressed(ev) -> Blocked(status)
    [] ev.event.family = "shadow" /\ ~AlertSignal(ev) /\ ~Suppressed(ev)
         /\ status \in ShadowTerminal -> Unmoved(status)
    [] OTHER ->
         IF ev.stage # "none" THEN Applied("review_queue")
         ELSE Moved(status, ShadowNext(status, ev))

(* transitionShadowIntelligenceState.  Its alert does not look at the gate: *)
(* only a dedupe, cooldown or batch suppression keeps it back.              *)
ShadowTransition(status, ev) ==
  CASE ev.event.family # "shadow" -> Invalid(status)
    [] ev.event.family = "shadow" /\ Suppressed(ev) -> Blocked(status)
    [] ev.event.family = "shadow" /\ ~Suppressed(ev) /\ status \in ShadowTerminal ->
         IF Routed(ev) \/ ev.effect # "no_write" \/ AlertSignal(ev)
         THEN Invalid(status) ELSE Unmoved(status)
    [] ev.event.family = "shadow" /\ ~Suppressed(ev) /\ status \notin ShadowTerminal
         /\ AlertSignal(ev) -> Applied("alert")
    [] OTHER ->
         IF ev.stage # "none" THEN Applied("review_queue")
         ELSE Moved(status, ShadowNext(status, ev))
=============================================================================
