------------------------------ MODULE StqCadence ------------------------------
(***************************************************************************)
(* The polling cadence the worker derives from an evaluation of the event  *)
(* gate (bot/src/runtime/stq-cadence.ts): how many minutes to wait before  *)
(* the next poll.  Times are minutes since a midnight.                     *)
(***************************************************************************)
EXTENDS Integers, Sequences
Sets == INSTANCE FiniteSetsExt

Intervals == <<5, 10, 15, 30, 45, 60, 90, 120>>

ClampIndex(i) == Sets!Min({Len(Intervals), Sets!Max({1, i})})

TimeWindow(t) ==
  LET hour == (t \div 60) % 24
  IN  CASE hour < 6 -> "t1_ignition"
        [] hour \in 6..11 -> "t2_expansion"
        [] hour \in 12..17 -> "t3_follow_through"
        [] hour >= 18 -> "t4_stale_review"

Band(score) == IF score >= 75 THEN "high" ELSE IF score >= 45 THEN "medium" ELSE "low"

HeldBack(ev) == ev.kind \in {"cooldown", "dedupe", "defer"}

(* significanceFor, with the status of the worker *)
Significance(ev, status) ==
  IF \/ ev.event.severity = "critical" \/ ev.route = "deep"
     \/ ev.effect \in {"case_update", "review_queue_insert"} \/ HeldBack(ev) THEN "high"
  ELSE IF ev.route = "small" \/ ev.effect # "no_write" THEN "medium"
  ELSE IF status \in (IF ev.event.family = "lowcap"
                      THEN {"candidate", "promoted", "modeled"}
                      ELSE {"notable_change", "transition_detected", "modeled", "updated_case"})
  THEN "medium" ELSE "low"

DayType(ev, significance) ==
  LET convergence == Band(ev.event.convergence)
      integrity == Band(ev.event.integrity)
  IN  IF HeldBack(ev) \/ integrity = "low" THEN "d4_dead_drift"
      ELSE IF convergence = "high" /\ integrity = "high"
      THEN IF (ev.event.family = "lowcap") = (significance = "high")
           THEN "d2_active_continuation" ELSE "d1_runner_rotation"
      ELSE IF convergence = "medium" \/ integrity = "medium" THEN "d3_mixed_noisy"
      ELSE "d4_dead_drift"

RoleScore(ev, day, window) ==
  IF IF ev.event.family = "lowcap"
     THEN day \in {"d1_runner_rotation", "d2_active_continuation"}
     ELSE window \in {"t3_follow_through", "t4_stale_review"}
  THEN 5 ELSE 2

Score(ev, significance, day, window) ==
  LET points ==
        [d1_runner_rotation |-> 20, d2_active_continuation |-> 28,
         d3_mixed_noisy |-> 12, d4_dead_drift |-> 0][day]
        + [t1_ignition |-> 18, t2_expansion |-> 24,
           t3_follow_through |-> 14, t4_stale_review |-> 4][window]
        + [high |-> 30, medium |-> 18, low |-> 6][Band(ev.event.convergence)]
        + [high |-> 25, medium |-> 12, low |-> 0][Band(ev.event.integrity)]
        + RoleScore(ev, day, window)
        + [high |-> 12, medium |-> 6, low |-> 0][significance]
        - (IF HeldBack(ev) THEN 20 ELSE 0)
  IN  Sets!Max({0, Sets!Min({100, points})})

(* The interval the score asks for, as an index of Intervals. *)
SelectedIndex(ev, status) ==
  LET significance == Significance(ev, status)
      day == DayType(ev, significance)
      window == TimeWindow(ev.at)
      score == Score(ev, significance, day, window)
      base == IF score >= 75 THEN 1 ELSE IF score >= 50 THEN 3 ELSE 5
      role == IF day \in (IF ev.event.family = "lowcap"
                          THEN {"d1_runner_rotation", "d2_active_continuation"}
                          ELSE {"d3_mixed_noisy", "d4_dead_drift"}) THEN -1 ELSE 0
  IN  ClampIndex(base + role
        + [d1_runner_rotation |-> -1, d2_active_continuation |-> 0,
           d3_mixed_noisy |-> 1, d4_dead_drift |-> 2][day]
        + [t1_ignition |-> -1, t2_expansion |-> 0,
           t3_follow_through |-> 1, t4_stale_review |-> 2][window]
        + [high |-> -1, medium |-> 0, low |-> 1][significance])

-----------------------------------------------------------------------------
(* The records of the kind of the suppression, by their key and end *)
SuppressionRecords(gate, ev) ==
  CASE ev.kind = "cooldown" -> [i \in DOMAIN gate.cooldown |->
         [key |-> gate.cooldown[i].key, ends |-> gate.cooldown[i].expiresAt]]
    [] ev.kind = "dedupe" -> [i \in DOMAIN gate.dedupe |->
         [key |-> gate.dedupe[i].key, ends |-> gate.dedupe[i].expiresAt]]
    [] ev.kind = "defer" -> [i \in DOMAIN gate.batch |->
         [key |-> gate.batch[i].key, ends |-> gate.batch[i].releaseAt]]

(* suppressionFloorMs: how long the suppression still lasts.  It is read    *)
(* from the first record with the key, which need not be the active one.    *)
Floor(gate, ev) ==
  LET records == SuppressionRecords(gate, ev)
      keyed == {i \in DOMAIN records : records[i].key = ev.key}
      ends == IF keyed = {} THEN ev.until ELSE records[Sets!Min(keyed)].ends
  IN  Sets!Max({0, ends - ev.at})

(* Mutant: a suppression does not lengthen the interval. *)
PollingIntervalUnfloored(gate, ev, status) == Intervals[SelectedIndex(ev, status)]

(* intervalIndexForMinimumMs: the longest interval when none is long enough *)
IndexForMinimum(minutes) ==
  LET long == {i \in DOMAIN Intervals : Intervals[i] >= minutes}
  IN  IF long = {} THEN Len(Intervals) ELSE Sets!Min(long)

(* cooldownComposition: effectiveIntervalMs *)
PollingInterval(gate, ev, status) ==
  LET selected == SelectedIndex(ev, status)
  IN  IF HeldBack(ev)
      THEN Intervals[Sets!Max({selected, IndexForMinimum(Floor(gate, ev))})]
      ELSE Intervals[selected]
=============================================================================
