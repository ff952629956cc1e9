----------------------------- MODULE GatePipeline -----------------------------
(***************************************************************************)
(* The event gate with the two workers behind it, the polling cadence and  *)
(* the journal: events are evaluated one after the other, in any order of  *)
(* their observedAt and as often as they are delivered, each evaluation    *)
(* starting from the records the one before it left.  The gate has no lock *)
(* and needs none: evaluateWorkerEventGate awaits nothing.                 *)
(***************************************************************************)
EXTENDS WorkerJournal, WorkerStates, StqCadence, FiniteSets

CONSTANTS Event,           \* the events that may occur
          Time,            \* the times, in minutes, they may be observed at
          MaxEvaluations   \* a bound on the evaluations

ASSUME EventAssumption == Time \subseteq Nat /\ \A e \in Event : IsEvent(e)

VARIABLES gate,     \* WorkerEventGateState
          hunter,   \* the status of the low-cap hunter
          shadow,   \* the status of the shadow intelligence
          log       \* history: the evaluations with their cadence
vars == <<gate, hunter, shadow, log>>

Init ==
  /\ gate = EmptyGate
  /\ hunter = "observed" /\ shadow = "watching"
  /\ log = <<>>

StatusFor(e) == IF Lowcap(e) THEN hunter ELSE shadow

(* An event is evaluated, the worker it is for takes its transition, and    *)
(* the cadence policy answers with the status before it.                    *)
Evaluate(e, t) ==
  /\ Len(log) < MaxEvaluations
  /\ LET ev == Evaluation(gate, e, t)
     IN  /\ gate' = GateAfter(gate, e, t)
         /\ hunter' = HunterTransition(hunter, ev).after
         /\ shadow' = ShadowTransition(shadow, ev).after
         /\ log' = Append(log, [evaluation |-> ev,
                                poll |-> PollingInterval(gate, ev, StatusFor(e))])

Next == \E e \in Event, t \in Time : Evaluate(e, t)

Spec == Init /\ [][Next]_vars

-----------------------------------------------------------------------------
Evaluated == {log[i].evaluation : i \in DOMAIN log}
Ran(ev) == ev.route # "no_model"

TypeOK ==
  /\ hunter \in HunterStatus /\ shadow \in ShadowStatus
  /\ \A i \in DOMAIN gate.dedupe : gate.dedupe[i].expiresAt > gate.dedupe[i].basis[2]
  /\ \A i \in DOMAIN gate.cooldown : gate.cooldown[i].expiresAt > gate.cooldown[i].at
  /\ \A i \in DOMAIN gate.batch :
       /\ gate.batch[i].status \in {"pending", "released"}
       /\ gate.batch[i].count \in Nat \ {0}
  /\ \A i \in DOMAIN log : /\ log[i].poll \in 5..120
                           /\ log[i].evaluation.event \in Event

(* Two events of one entity and class that both ran (reached a model, and   *)
(* so a write) are a whole cooldown apart in observedAt, in whatever order  *)
(* they were delivered.  It rests on the records never being pruned.        *)
RunsSpaced ==
  \A i, j \in DOMAIN log :
    LET a == log[i].evaluation
        b == log[j].evaluation
    IN  i < j /\ Ran(a) /\ Ran(b) /\ CooldownKey(a.event) = CooldownKey(b.event)
        => b.at >= a.at + CooldownWindow(a.event)

(* An occurrence the batch stage held back never runs, however often it is  *)
(* delivered again: the dedupe and cooldown records it left while deferred  *)
(* outlive its batch, and no batch is ever released, since a batch key's    *)
(* time bucket ends before the batch's releaseAt.                           *)
DeferredNeverRuns ==
  /\ \A i \in DOMAIN gate.batch : gate.batch[i].status = "pending"
  /\ \A i, j \in DOMAIN log :
       /\ i < j
       /\ log[i].evaluation.kind = "defer"
       /\ <<log[i].evaluation.event, log[i].evaluation.at>>
            = <<log[j].evaluation.event, log[j].evaluation.at>>
       => ~Ran(log[j].evaluation)

(* No order of deliveries and redeliveries makes an occurrence run that the *)
(* gate held back, or an entity run again within its cooldown.              *)
RunsJustified == RunsSpaced /\ DeferredNeverRuns

(* The evaluations of a worker's events that passed the gate, that ran, and *)
(* that took the deep route                                                 *)
Passed(family) ==
  {i \in DOMAIN log : log[i].evaluation.event.family = family /\ log[i].evaluation.stage = "none"}
PassedAndRan(family) == {i \in Passed(family) : Ran(log[i].evaluation)}
RanDeep(family) == {i \in Passed(family) : log[i].evaluation.route = "deep"}

(* What a worker's status claims was earned by the evaluations: a hunter is *)
(* promoted only through a deep route, and closes a case only after four    *)
(* events passed the gate, three of which ran; a shadow case is updated     *)
(* only after a deep route.                                                 *)
Earned ==
  /\ hunter \in {"promoted", "modeled", "watchlisted", "review_queue"}
       => RanDeep("lowcap") # {} /\ Cardinality(Passed("lowcap")) >= 2
  /\ hunter \in {"watchlisted", "review_queue"}
       => Cardinality(Passed("lowcap")) >= 4 /\ Cardinality(PassedAndRan("lowcap")) >= 3
  /\ shadow = "updated_case" => RanDeep("shadow") # {}

(* The record of the given kind that an evaluation may have left. *)
LeftBy(ev, kind) ==
  CASE kind = "cooldown" -> [key |-> CooldownKey(ev.event), ends |-> ev.at + CooldownWindow(ev.event)]
    [] kind = "dedupe" -> [key |-> DedupeKey(ev.event, ev.at), ends |-> ev.at + DedupeWindow(ev.event)]
    [] kind = "defer" -> [key |-> BatchKey(ev.event, ev.at), ends |-> ev.at + BatchWindow(ev.event)]

(* The cadence does not poll again before the suppression of the event it   *)
(* was computed for ends, unless that lasts longer than the longest         *)
(* interval, or an earlier event left a record of the same key that ends    *)
(* sooner: then the floor is read from that one.                            *)
CadenceCoversSuppression ==
  \A i \in DOMAIN log :
    LET ev == log[i].evaluation
    IN  HeldBack(ev) =>
          \/ log[i].poll >= ev.until - ev.at
          \/ log[i].poll = 120
          \/ \E k \in 1..(i - 1) :
               LET left == LeftBy(log[k].evaluation, ev.kind)
               IN  left.key = ev.key /\ left.ends < ev.until

(* However much of an evaluation's journal survived a crash, and whether    *)
(* read as appended or as the end-to-end replay sorts it, the replay shows  *)
(* a write only for an evaluation that made it, with all the gate's stages  *)
(* before it, and names no blocking stage but the real one.                 *)
TornJournalOverclaimsNothing ==
  log # <<>> =>
    LET ev == log[Len(log)].evaluation
    IN  \A replay \in TornReplays(ev) :
          /\ replay.blocked => replay.stage = ev.stage
          /\ replay.effect # "unknown" =>
               /\ replay.effect = ev.effect
               /\ replay.blocked = IsBlocked(ev)
               /\ replay.path = {GateStages[s] : s \in DOMAIN GateStages}

(* Delivering an occurrence that the gate already evaluated, at any later   *)
(* point, moves neither worker.                                             *)
RedeliveryMovesNothing ==
  [][LET latest == log'[Len(log')].evaluation
     IN  (\E ev \in Evaluated : ev.event = latest.event /\ ev.at = latest.at)
         => UNCHANGED <<hunter, shadow>>]_vars
=============================================================================
