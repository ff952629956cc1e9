----------------------- MODULE ServiceJournals_proofs -----------------------
(***************************************************************************)
(* Proofs about the event gate and the journals of the services: for any   *)
(* events, any times they are observed at, and any number of evaluations   *)
(* in any order; for any deployment and any queries; for any answers.      *)
(***************************************************************************)
EXTENDS ServiceJournals, FiniteSetTheorems, SequenceTheorems, TLAPS

-----------------------------------------------------------------------------
(* `find` *)

LEMMA NatLeast ==
  ASSUME NEW T, T \subseteq Nat, T # {}
  PROVE  \E x \in T : \A y \in T : x <= y
<1> DEFINE R == {p \in Nat \X Nat : p[1] < p[2]}
<1>1. IsWellFoundedOn(R, Nat)
  BY NatLessThanWellFounded DEF OpToRel
<1> HIDE DEF R
<1>2. PICK x \in T : \A y \in T : ~(<<y, x>> \in R)
  BY <1>1, WFMin, Zenon
<1>3. \A y \in T : ~(y < x)
  BY <1>2 DEF R
<1> QED
  BY <1>3

LEMMA FirstFound ==
  ASSUME NEW S, S \subseteq Nat \ {0}
  PROVE  /\ FirstOf(S) = 0 <=> S = {}
         /\ S # {} => FirstOf(S) \in S /\ \A j \in S : FirstOf(S) <= j
<1>1. CASE S = {}
  BY <1>1 DEF FirstOf
<1>2. CASE S # {}
  <2>1. \E i \in S : \A j \in S : i <= j
    BY <1>2, NatLeast
  <2>2. FirstOf(S) \in S /\ \A j \in S : FirstOf(S) <= j
    BY <1>2, <2>1 DEF FirstOf
  <2> QED
    BY <1>2, <2>2
<1> QED
  BY <1>1, <1>2

-----------------------------------------------------------------------------
(* The stage that blocks *)

OnItsOwn == {"validity", "integrity", "convergence_relevance"}
Stages == OnItsOwn \cup {"dedupe", "cooldown", "batch_debounce", "none"}

(* The stages that look at the event alone let it pass. *)
Acceptable(e) == e.valid /\ IntegrityOk(e) /\ Relevant(e)

LEMMA StageFacts ==
  ASSUME NEW g, NEW e, NEW t
  PROVE  LET stage == BlockingStage(g, e, t)
         IN  /\ stage \in Stages
             /\ stage = "validity" <=> ~e.valid
             /\ stage = "integrity" <=> e.valid /\ ~IntegrityOk(e)
             /\ stage = "convergence_relevance" <=> e.valid /\ IntegrityOk(e) /\ ~Relevant(e)
             /\ stage = "dedupe" <=> Acceptable(e) /\ ActiveDuplicate(g, e, t) # 0
             /\ stage = "cooldown" => ActiveDuplicate(g, e, t) = 0 /\ ActiveCooldown(g, e, t) # 0
             /\ stage = "batch_debounce" =>
                  /\ ActiveDuplicate(g, e, t) = 0 /\ ActiveCooldown(g, e, t) = 0
                  /\ BatchBlocks(g, e, t)
             /\ stage = "none" =>
                  /\ ActiveDuplicate(g, e, t) = 0 /\ ActiveCooldown(g, e, t) = 0
                  /\ ~BatchBlocks(g, e, t)
<1> DEFINE S == {k \in DOMAIN StageOrder : Blocks(StageOrder[k], g, e, t)}
<1>1. DOMAIN StageOrder = 1 .. 6
  BY DEF StageOrder
<1>2. /\ StageOrder[1] = "validity" /\ StageOrder[2] = "integrity"
      /\ StageOrder[3] = "convergence_relevance" /\ StageOrder[4] = "dedupe"
      /\ StageOrder[5] = "cooldown" /\ StageOrder[6] = "batch_debounce"
  BY DEF StageOrder
<1>3. /\ 1 \in S <=> ~e.valid
      /\ 2 \in S <=> ~IntegrityOk(e)
      /\ 3 \in S <=> ~Relevant(e)
      /\ 4 \in S <=> ActiveDuplicate(g, e, t) # 0
      /\ 5 \in S <=> ActiveCooldown(g, e, t) # 0
      /\ 6 \in S <=> BatchBlocks(g, e, t)
  <2>1. /\ Blocks("validity", g, e, t) <=> ~e.valid
        /\ Blocks("integrity", g, e, t) <=> ~IntegrityOk(e)
        /\ Blocks("convergence_relevance", g, e, t) <=> ~Relevant(e)
        /\ Blocks("dedupe", g, e, t) <=> ActiveDuplicate(g, e, t) # 0
        /\ Blocks("cooldown", g, e, t) <=> ActiveCooldown(g, e, t) # 0
        /\ Blocks("batch_debounce", g, e, t) <=> BatchBlocks(g, e, t)
    BY DEF Blocks
  <2> QED
    BY <1>1, <1>2, <2>1
<1>4. S \subseteq 1 .. 6
  BY <1>1
<1>5. PICK i : i = FirstOf(S)
  OBVIOUS
<1>6. /\ i = 0 <=> S = {}
      /\ S # {} => i \in S /\ \A j \in S : i <= j
  BY <1>4, <1>5, FirstFound
<1>7. BlockingStage(g, e, t) = IF i = 0 THEN "none" ELSE StageOrder[i]
  BY <1>5 DEF BlockingStage
<1> HIDE DEF S
<1>8. i \in 0 .. 6 /\ (i = 0 \/ i \in S) /\ \A j \in 1 .. 6 : j \in S => i # 0 /\ i <= j
  <2>1. CASE S = {}
    BY <1>6, <2>1
  <2>2. CASE S # {}
    <3>1. i \in S /\ \A j \in S : i <= j
      BY <1>6, <2>2
    <3>2. i \in 1 .. 6
      BY <1>4, <3>1
    <3> QED
      BY <3>1, <3>2
  <2> QED
    BY <2>1, <2>2
<1> QED
  BY <1>2, <1>3, <1>7, <1>8 DEF Acceptable, Stages, OnItsOwn

LEMMA KindFacts ==
  ASSUME NEW stage \in Stages, NEW e
  PROVE  LET kind == SuppressionKind(stage, e)
         IN  /\ kind = "defer" <=> stage = "batch_debounce"
             /\ kind = "dedupe" <=> stage = "dedupe"
             /\ kind = "cooldown" <=> stage = "cooldown"
BY DEF SuppressionKind, Stages, OnItsOwn, IrrelevanceKind

-----------------------------------------------------------------------------
(* What is on record.  Records are never taken away, and those that an      *)
(* evaluation left justify what is held back after it.                      *)

Occurrence == Event \X Time

DedupeRecord ==
  {[key |-> DedupeKey(o[1], o[2]), basis |-> o, expiresAt |-> o[2] + DedupeWindow(o[1])] :
     o \in Occurrence}
CooldownRecord ==
  {[key |-> CooldownKey(o[1]), at |-> o[2], expiresAt |-> o[2] + CooldownWindow(o[1])] :
     o \in Occurrence}

(* A pending batch is released, if ever, behind its bucket of time. *)
Batch ==
  {b \in [key : {BatchKey(o[1], o[2]) : o \in Occurrence}, events : SUBSET Occurrence,
          count : Nat \ {0}, releaseAt : Nat, status : {"pending"}] :
     \E o \in Occurrence : b.key = BatchKey(o[1], o[2]) /\ b.releaseAt = o[2] + BatchWindow(o[1])}

GateTypes ==
  gate \in [dedupe : Seq(DedupeRecord), cooldown : Seq(CooldownRecord), batch : Seq(Batch)]

(* What an evaluation says of its event *)
Kinds == {"invalid", "integrity", "stale", "denied", "low_relevance",
          "dedupe", "cooldown", "defer", "none"}
Routes == {"no_model", "small", "deep"}
Effects == {"no_write", "watchlist_update", "derived_refresh_trigger",
            "review_queue_insert", "case_update"}
Evaluations ==
  {v \in [event : Event, at : Time, stage : Stages, kind : Kinds,
          key : {SuppressionKey(s, o[1], o[2]) : s \in Stages, o \in Occurrence},
          until : Nat, route : Routes, effect : Effects] :
     /\ v.kind = SuppressionKind(v.stage, v.event)
     /\ v.stage # "none" => v.route = "no_model"
     /\ v.effect = WriteEffect(v.event, v.route)
     /\ v.stage = "validity" <=> ~v.event.valid
     /\ v.stage = "integrity" <=> v.event.valid /\ ~IntegrityOk(v.event)
     /\ v.stage = "convergence_relevance"
          <=> v.event.valid /\ IntegrityOk(v.event) /\ ~Relevant(v.event)}
LogTypes == log \in Seq([evaluation : Evaluations, poll : 5 .. 120])

(* What an evaluation wrote is still there. *)
DedupeRecorded ==
  \A i \in DOMAIN log :
    LET ev == log[i].evaluation
    IN  ev.stage \notin OnItsOwn =>
          \E d \in DOMAIN gate.dedupe : gate.dedupe[d].basis = <<ev.event, ev.at>>
CooldownRecorded ==
  \A i \in DOMAIN log :
    LET ev == log[i].evaluation
    IN  ev.stage \in {"none", "batch_debounce"} =>
          \E c \in DOMAIN gate.cooldown :
            /\ gate.cooldown[c].key = CooldownKey(ev.event)
            /\ gate.cooldown[c].expiresAt = ev.at + CooldownWindow(ev.event)

(* Whatever is there, an evaluation in the log left. *)
RecordsLeft ==
  /\ \A d \in DOMAIN gate.dedupe : \E k \in DOMAIN log :
       [key |-> gate.dedupe[d].key, ends |-> gate.dedupe[d].expiresAt]
         = LeftBy(log[k].evaluation, "dedupe")
  /\ \A c \in DOMAIN gate.cooldown : \E k \in DOMAIN log :
       [key |-> gate.cooldown[c].key, ends |-> gate.cooldown[c].expiresAt]
         = LeftBy(log[k].evaluation, "cooldown")
  /\ \A b \in DOMAIN gate.batch : \E k \in DOMAIN log :
       [key |-> gate.batch[b].key, ends |-> gate.batch[b].releaseAt]
         = LeftBy(log[k].evaluation, "defer")

(* A worker whose event a stage rejected on its own has stopped for good. *)
WorkersStopped ==
  \A i \in DOMAIN log :
    LET ev == log[i].evaluation
    IN  ev.stage \in OnItsOwn =>
          IF Lowcap(ev.event) THEN hunter \in HunterTerminal ELSE shadow \in ShadowTerminal

(* Every status of the hunter on its way was earned. *)
HunterEarned ==
  /\ hunter = "screened" => Cardinality(Passed("lowcap")) >= 1
  /\ hunter = "candidate" =>
       Cardinality(Passed("lowcap")) >= 2 /\ Cardinality(PassedAndRan("lowcap")) >= 1
  /\ hunter \in {"promoted", "modeled", "watchlisted", "review_queue"} =>
       RanDeep("lowcap") # {}
  /\ hunter = "promoted" =>
       Cardinality(Passed("lowcap")) >= 2 /\ Cardinality(PassedAndRan("lowcap")) >= 1
  /\ hunter = "modeled" =>
       Cardinality(Passed("lowcap")) >= 3 /\ Cardinality(PassedAndRan("lowcap")) >= 2
  /\ hunter \in {"watchlisted", "review_queue"} =>
       Cardinality(Passed("lowcap")) >= 4 /\ Cardinality(PassedAndRan("lowcap")) >= 3

WorkerTypes == hunter \in HunterStatus /\ shadow \in ShadowStatus

GateInv ==
  /\ GateTypes /\ LogTypes /\ WorkerTypes
  /\ DedupeRecorded /\ CooldownRecorded /\ RecordsLeft
  /\ RunsJustified
  /\ WorkersStopped
  /\ HunterEarned /\ (shadow = "updated_case" => RanDeep("shadow") # {})
  /\ CadenceCoversSuppression

LEMMA Windows ==
  ASSUME NEW e \in Event
  PROVE  /\ DedupeWindow(e) \in Nat \ {0} /\ CooldownWindow(e) \in Nat \ {0}
         /\ BatchWindow(e) \in {5, 10}
<1>1. DedupeWindow(e) \in Nat \ {0} /\ BatchWindow(e) \in {5, 10}
  BY DEF DedupeWindow, BatchWindow
<1>2. LowcapClass(e) \in {"prime", "strong", "borderline", "stale"}
  BY DEF LowcapClass
<1>3. ShadowClass(e) \in {"critical", "normal", "review", "stable"}
  BY DEF ShadowClass
<1>4. CooldownWindow(e) \in Nat \ {0}
  BY <1>2, <1>3 DEF CooldownWindow
<1> QED
  BY <1>1, <1>4

(* An event that falls into a pending batch is before its release. *)
LEMMA BatchNotDue ==
  ASSUME GateTypes, NEW e \in Event, NEW t \in Time, PendingBatch(gate, e, t) # 0
  PROVE  /\ PendingBatch(gate, e, t) \in DOMAIN gate.batch
         /\ gate.batch[PendingBatch(gate, e, t)].key = BatchKey(e, t)
         /\ t < gate.batch[PendingBatch(gate, e, t)].releaseAt
<1> DEFINE S == {i \in DOMAIN gate.batch :
                   gate.batch[i].key = BatchKey(e, t) /\ gate.batch[i].status = "pending"}
<1>1. PICK i : i = PendingBatch(gate, e, t)
  OBVIOUS
<1>2. gate.batch \in Seq(Batch)
  BY DEF GateTypes
<1>3. S \subseteq Nat \ {0}
  BY <1>2
<1>4. i \in S
  BY <1>1, <1>3, FirstFound DEF PendingBatch
<1>5. gate.batch[i] \in Batch /\ gate.batch[i].key = BatchKey(e, t)
  BY <1>2, <1>4
<1>6. PICK o \in Occurrence : /\ BatchKey(e, t) = BatchKey(o[1], o[2])
                              /\ gate.batch[i].releaseAt = o[2] + BatchWindow(o[1])
  BY <1>5 DEF Batch
<1>7. o[1] \in Event /\ o[2] \in Nat /\ t \in Nat
  BY EventAssumption DEF Occurrence
<1>8. /\ e.family = o[1].family
      /\ Bucket(t, BatchWindow(e)) = Bucket(o[2], BatchWindow(o[1]))
  BY <1>6 DEF BatchKey
<1>9. PICK w \in {5, 10} : w = BatchWindow(e) /\ w = BatchWindow(o[1])
  BY <1>7, <1>8, Windows DEF BatchWindow, Lowcap
<1>10. t \div w = o[2] \div w
  BY <1>8, <1>9 DEF Bucket
<1>11. PICK u \in Nat : u = o[2]
  BY <1>7
<1>12. t < u + w
  BY <1>7, <1>9, <1>10, <1>11
<1> QED
  BY <1>1, <1>4, <1>5, <1>6, <1>9, <1>11, <1>12

-----------------------------------------------------------------------------
(* What an evaluation says and writes *)

LEMMA RecordTypes ==
  /\ \A r \in DedupeRecord : \E e \in Event, t \in Time :
       r = [key |-> DedupeKey(e, t), basis |-> <<e, t>>, expiresAt |-> t + DedupeWindow(e)]
  /\ \A r \in CooldownRecord : \E e \in Event, t \in Time :
       r = [key |-> CooldownKey(e), at |-> t, expiresAt |-> t + CooldownWindow(e)]
  /\ \A r \in DedupeRecord \cup CooldownRecord : r.expiresAt \in Nat
<1>1. \A o \in Occurrence : o[1] \in Event /\ o[2] \in Time /\ o = <<o[1], o[2]>>
  BY DEF Occurrence
<1>2. ASSUME NEW r \in DedupeRecord
      PROVE  \E e \in Event, t \in Time :
               r = [key |-> DedupeKey(e, t), basis |-> <<e, t>>, expiresAt |-> t + DedupeWindow(e)]
  BY <1>1, <1>2 DEF DedupeRecord
<1>3. ASSUME NEW r \in CooldownRecord
      PROVE  \E e \in Event, t \in Time :
               r = [key |-> CooldownKey(e), at |-> t, expiresAt |-> t + CooldownWindow(e)]
  BY <1>1, <1>3 DEF CooldownRecord
<1>4. \A e \in Event, t \in Time : t + DedupeWindow(e) \in Nat /\ t + CooldownWindow(e) \in Nat
  BY EventAssumption, Windows
<1> QED
  BY <1>2, <1>3, <1>4

LEMMA RecordsFound ==
  ASSUME GateTypes, NEW e, NEW t
  PROVE  /\ ActiveDuplicate(gate, e, t) # 0 =>
              LET d == ActiveDuplicate(gate, e, t)
              IN  /\ d \in DOMAIN gate.dedupe /\ gate.dedupe[d] \in DedupeRecord
                  /\ gate.dedupe[d].basis = <<e, t>>
         /\ ActiveDuplicate(gate, e, t) = 0 =>
              \A d \in DOMAIN gate.dedupe :
                ~(/\ gate.dedupe[d].key = DedupeKey(e, t) /\ gate.dedupe[d].basis = <<e, t>>
                  /\ gate.dedupe[d].expiresAt > t)
         /\ ActiveCooldown(gate, e, t) # 0 =>
              LET c == ActiveCooldown(gate, e, t)
              IN  c \in DOMAIN gate.cooldown /\ gate.cooldown[c] \in CooldownRecord
         /\ ActiveCooldown(gate, e, t) = 0 =>
              \A c \in DOMAIN gate.cooldown :
                ~(gate.cooldown[c].key = CooldownKey(e) /\ gate.cooldown[c].expiresAt > t)
<1> DEFINE D == {i \in DOMAIN gate.dedupe :
                   /\ gate.dedupe[i].key = DedupeKey(e, t) /\ gate.dedupe[i].basis = <<e, t>>
                   /\ gate.dedupe[i].expiresAt > t}
           C == {i \in DOMAIN gate.cooldown :
                   gate.cooldown[i].key = CooldownKey(e) /\ gate.cooldown[i].expiresAt > t}
<1>1. gate.dedupe \in Seq(DedupeRecord) /\ gate.cooldown \in Seq(CooldownRecord)
  BY DEF GateTypes
<1>2. D \subseteq Nat \ {0} /\ C \subseteq Nat \ {0}
  BY <1>1
<1>3. PICK d : d = ActiveDuplicate(gate, e, t)
  OBVIOUS
<1>4. PICK c : c = ActiveCooldown(gate, e, t)
  OBVIOUS
<1>5. (d = 0 <=> D = {}) /\ (D # {} => d \in D)
  <2>1. d = FirstOf(D)
    BY <1>3 DEF ActiveDuplicate
  <2> HIDE DEF D
  <2> QED
    BY <1>2, <2>1, FirstFound
<1>6. (c = 0 <=> C = {}) /\ (C # {} => c \in C)
  <2>1. c = FirstOf(C)
    BY <1>4 DEF ActiveCooldown
  <2> HIDE DEF C
  <2> QED
    BY <1>2, <2>1, FirstFound
<1> QED
  BY <1>1, <1>3, <1>4, <1>5, <1>6

LEMMA EvaluationFacts ==
  ASSUME GateTypes, NEW e \in Event, NEW t \in Time, NEW ev, ev = Evaluation(gate, e, t)
  PROVE  /\ ev \in Evaluations
         /\ ev.event = e /\ ev.at = t /\ ev.stage = BlockingStage(gate, e, t)
         /\ Ran(ev) => ev.stage = "none"
<1>1. PICK stage : stage = BlockingStage(gate, e, t)
  OBVIOUS
<1>2. PICK route : route = IF stage = "none" THEN RouteClass(e) ELSE "no_model"
  OBVIOUS
<1>3. PICK until : until = SuppressedUntil(gate, e, t)
  OBVIOUS
<1>4. ev = [event |-> e, at |-> t, stage |-> stage, kind |-> SuppressionKind(stage, e),
            key |-> SuppressionKey(stage, e, t), until |-> until,
            route |-> route, effect |-> WriteEffect(e, route)]
  BY <1>1, <1>2, <1>3 DEF Evaluation
<1>5. /\ stage \in Stages
      /\ stage = "validity" <=> ~e.valid
      /\ stage = "integrity" <=> e.valid /\ ~IntegrityOk(e)
      /\ stage = "convergence_relevance" <=> e.valid /\ IntegrityOk(e) /\ ~Relevant(e)
      /\ stage = "dedupe" => ActiveDuplicate(gate, e, t) # 0
      /\ stage = "cooldown" => ActiveCooldown(gate, e, t) # 0
  BY <1>1, StageFacts
<1>6. SuppressionKind(stage, e) \in Kinds
  BY <1>5 DEF SuppressionKind, Kinds, Stages, OnItsOwn, IrrelevanceKind
<1>7. route \in Routes /\ (stage # "none" => route = "no_model")
  BY <1>2 DEF Routes, RouteClass
<1>8. WriteEffect(e, route) \in Effects
  BY <1>7 DEF WriteEffect, Routes, Effects
<1>9. SuppressionKey(stage, e, t) \in {SuppressionKey(s, o[1], o[2]) : s \in Stages, o \in Occurrence}
  <2>1. <<e, t>> \in Occurrence /\ <<e, t>>[1] = e /\ <<e, t>>[2] = t
    BY DEF Occurrence
  <2> QED
    BY <1>5, <2>1
<1>10. until \in Nat
  <2>1. t \in Nat
    BY EventAssumption
  <2>2. CASE stage = "dedupe"
    <3>1. PICK d : d = ActiveDuplicate(gate, e, t)
      OBVIOUS
    <3>2. gate.dedupe[d] \in DedupeRecord
      BY <1>5, <2>2, <3>1, RecordsFound
    <3>3. gate.dedupe[d].expiresAt \in Nat
      BY <3>2, RecordTypes
    <3> QED
      BY <1>1, <1>3, <2>2, <3>1, <3>3 DEF SuppressedUntil
  <2>3. CASE stage = "cooldown"
    <3>1. PICK c : c = ActiveCooldown(gate, e, t)
      OBVIOUS
    <3>2. gate.cooldown[c] \in CooldownRecord
      BY <1>5, <2>3, <3>1, RecordsFound
    <3>3. gate.cooldown[c].expiresAt \in Nat
      BY <3>2, RecordTypes
    <3> QED
      BY <1>1, <1>3, <2>3, <3>1, <3>3 DEF SuppressedUntil
  <2>4. CASE stage = "batch_debounce"
    <3>1. PICK b : b = PendingBatch(gate, e, t)
      OBVIOUS
    <3>2. until = IF b # 0 THEN gate.batch[b].releaseAt ELSE t + BatchWindow(e)
      BY <1>1, <1>3, <2>4, <3>1 DEF SuppressedUntil
    <3>3. CASE b = 0
      BY <2>1, <3>2, <3>3, Windows
    <3>4. CASE b # 0
      <4>1. b \in DOMAIN gate.batch
        BY <3>1, <3>4, BatchNotDue
      <4>2. gate.batch[b] \in Batch
        BY <4>1 DEF GateTypes
      <4> QED
        BY <3>2, <3>4, <4>2 DEF Batch
    <3> QED
      BY <3>3, <3>4
  <2>5. CASE stage \notin {"dedupe", "cooldown", "batch_debounce"}
    BY <1>1, <1>3, <2>1, <2>5 DEF SuppressedUntil
  <2> QED
    BY <2>2, <2>3, <2>4, <2>5
<1>11. ev \in Evaluations
  BY <1>4, <1>5, <1>6, <1>7, <1>8, <1>9, <1>10 DEF Evaluations
<1>12. Ran(ev) => ev.stage = "none"
  BY <1>4, <1>7 DEF Ran
<1> QED
  BY <1>1, <1>4, <1>11, <1>12

LEMMA BatchStep ==
  ASSUME GateTypes, NEW e \in Event, NEW t \in Time, NEW q, q = BatchAfter(gate, e, t)
  PROVE  /\ q \in Seq(Batch)
         /\ \A b \in DOMAIN q :
              \/ /\ b \in DOMAIN gate.batch
                 /\ q[b].key = gate.batch[b].key /\ q[b].releaseAt = gate.batch[b].releaseAt
              \/ q[b].key = BatchKey(e, t) /\ q[b].releaseAt = t + BatchWindow(e)
<1>1. gate.batch \in Seq(Batch)
  BY DEF GateTypes
<1>2. <<e, t>> \in Occurrence /\ <<e, t>>[1] = e /\ <<e, t>>[2] = t /\ t \in Nat
  BY EventAssumption DEF Occurrence
<1>3. PICK i : i = PendingBatch(gate, e, t)
  OBVIOUS
<1>4. CASE i # 0
  <2>1. i \in DOMAIN gate.batch /\ t < gate.batch[i].releaseAt
    BY <1>3, <1>4, BatchNotDue
  <2>2. PICK b : b = gate.batch[i]
    OBVIOUS
  <2>3. b \in Batch
    BY <1>1, <2>1, <2>2
  <2>4. /\ b \in [key : {BatchKey(o[1], o[2]) : o \in Occurrence}, events : SUBSET Occurrence,
                  count : Nat \ {0}, releaseAt : Nat, status : {"pending"}]
        /\ \E o \in Occurrence : b.key = BatchKey(o[1], o[2])
                                 /\ b.releaseAt = o[2] + BatchWindow(o[1])
    BY <2>3 DEF Batch
  <2>5. PICK c : c = [key |-> b.key, events |-> b.events \cup {<<e, t>>}, count |-> b.count + 1,
                      releaseAt |-> b.releaseAt, status |-> "pending"]
    OBVIOUS
  <2>6. c \in Batch
    BY <1>2, <2>4, <2>5 DEF Batch
  <2>7. q = [gate.batch EXCEPT ![i] = c]
    <3>1. q = [gate.batch EXCEPT ![i].events = @ \cup {<<e, t>>}, ![i].count = @ + 1,
                 ![i].status = IF t >= gate.batch[i].releaseAt THEN "released" ELSE "pending"]
      BY <1>3, <1>4 DEF BatchAfter
    <3>2. gate.batch[i] \in [key : {BatchKey(o[1], o[2]) : o \in Occurrence},
                  events : SUBSET Occurrence, count : Nat \ {0}, releaseAt : Nat, status : {"pending"}]
      BY <2>2, <2>4
    <3>3. b.releaseAt \in Nat
      BY <2>4
    <3>4. (IF t >= gate.batch[i].releaseAt THEN "released" ELSE "pending") = "pending"
      BY <1>2, <2>1, <2>2, <3>3
    <3>5. q = [gate.batch EXCEPT ![i].events = @ \cup {<<e, t>>}, ![i].count = @ + 1,
                 ![i].status = "pending"]
      BY <3>1, <3>4
    <3> QED
      BY <1>1, <2>1, <2>2, <2>4, <2>5, <3>5
  <2>8. q \in Seq(Batch) /\ DOMAIN q = DOMAIN gate.batch
    BY <1>1, <2>1, <2>6, <2>7
  <2>9. \A k \in DOMAIN q : q[k].key = gate.batch[k].key
                            /\ q[k].releaseAt = gate.batch[k].releaseAt
    BY <1>1, <2>1, <2>2, <2>5, <2>7
  <2> QED
    BY <2>8, <2>9
<1>5. CASE i = 0 /\ Batchable(e)
  <2>1. PICK c : c = [key |-> BatchKey(e, t), events |-> {<<e, t>>}, count |-> 1,
                      releaseAt |-> t + BatchWindow(e), status |-> "pending"]
    OBVIOUS
  <2>2. t + BatchWindow(e) \in Nat
    BY <1>2, Windows
  <2>3. c \in Batch
    BY <1>2, <2>1, <2>2 DEF Batch
  <2>4. q = Append(gate.batch, c)
    BY <1>3, <1>5, <2>1 DEF BatchAfter
  <2> QED
    BY <1>1, <2>1, <2>3, <2>4
<1>6. CASE i = 0 /\ ~Batchable(e)
  <2>1. q = gate.batch
    BY <1>3, <1>6 DEF BatchAfter
  <2> QED
    BY <1>1, <2>1
<1> QED
  BY <1>4, <1>5, <1>6

LEMMA GateStep ==
  ASSUME GateTypes, NEW e \in Event, NEW t \in Time, NEW stage, stage = BlockingStage(gate, e, t),
         gate' = GateAfter(gate, e, t)
  PROVE  /\ GateTypes'
         /\ \A d \in DOMAIN gate.dedupe : d \in DOMAIN gate'.dedupe /\ gate'.dedupe[d] = gate.dedupe[d]
         /\ \A c \in DOMAIN gate.cooldown :
              c \in DOMAIN gate'.cooldown /\ gate'.cooldown[c] = gate.cooldown[c]
         /\ stage \in {"none", "cooldown", "batch_debounce"} =>
              \E d \in DOMAIN gate'.dedupe : gate'.dedupe[d].basis = <<e, t>>
         /\ stage \in {"none", "batch_debounce"} =>
              \E c \in DOMAIN gate'.cooldown :
                /\ gate'.cooldown[c].key = CooldownKey(e)
                /\ gate'.cooldown[c].expiresAt = t + CooldownWindow(e)
         /\ \A d \in DOMAIN gate'.dedupe :
              \/ d \in DOMAIN gate.dedupe
              \/ gate'.dedupe[d].key = DedupeKey(e, t) /\ gate'.dedupe[d].expiresAt = t + DedupeWindow(e)
         /\ \A c \in DOMAIN gate'.cooldown :
              \/ c \in DOMAIN gate.cooldown
              \/ gate'.cooldown[c].key = CooldownKey(e)
                 /\ gate'.cooldown[c].expiresAt = t + CooldownWindow(e)
         /\ \A b \in DOMAIN gate'.batch :
              \/ /\ b \in DOMAIN gate.batch /\ gate'.batch[b].key = gate.batch[b].key
                 /\ gate'.batch[b].releaseAt = gate.batch[b].releaseAt
              \/ gate'.batch[b].key = BatchKey(e, t) /\ gate'.batch[b].releaseAt = t + BatchWindow(e)
<1>1. /\ gate.dedupe \in Seq(DedupeRecord) /\ gate.cooldown \in Seq(CooldownRecord)
      /\ gate.batch \in Seq(Batch)
  BY DEF GateTypes
<1>2. <<e, t>> \in Occurrence /\ <<e, t>>[1] = e /\ <<e, t>>[2] = t
  BY DEF Occurrence
<1>3. PICK d : d = [key |-> DedupeKey(e, t), basis |-> <<e, t>>, expiresAt |-> t + DedupeWindow(e)]
  OBVIOUS
<1>4. PICK c : c = [key |-> CooldownKey(e), at |-> t, expiresAt |-> t + CooldownWindow(e)]
  OBVIOUS
<1>5. d \in DedupeRecord
  BY <1>2, <1>3 DEF DedupeRecord
<1>6. c \in CooldownRecord
  BY <1>2, <1>4 DEF CooldownRecord
<1>7. PICK dedupe : dedupe = IF stage \in {"none", "cooldown", "batch_debounce"}
                             THEN Append(gate.dedupe, d) ELSE gate.dedupe
  OBVIOUS
<1>8. PICK cooldown : cooldown = IF stage \in {"none", "batch_debounce"}
                                 THEN Append(gate.cooldown, c) ELSE gate.cooldown
  OBVIOUS
<1>9. PICK batch : batch = IF stage \in {"none", "batch_debounce"}
                           THEN BatchAfter(gate, e, t) ELSE gate.batch
  OBVIOUS
<1>10. gate' = [dedupe |-> dedupe, cooldown |-> cooldown, batch |-> batch]
  <2>1. DedupeAfter(gate, e, t) = Append(gate.dedupe, d)
    BY <1>3 DEF DedupeAfter
  <2>2. CooldownAfter(gate, e, t) = Append(gate.cooldown, c)
    BY <1>4 DEF CooldownAfter
  <2> QED
    BY <1>7, <1>8, <1>9, <2>1, <2>2 DEF GateAfter
<1>11. /\ dedupe \in Seq(DedupeRecord)
       /\ \A k \in DOMAIN gate.dedupe : k \in DOMAIN dedupe /\ dedupe[k] = gate.dedupe[k]
       /\ \A k \in DOMAIN dedupe : k \in DOMAIN gate.dedupe \/ dedupe[k] = d
       /\ stage \in {"none", "cooldown", "batch_debounce"} =>
            \E k \in DOMAIN dedupe : dedupe[k] = d
  <2>1. CASE stage \in {"none", "cooldown", "batch_debounce"}
    <3>1. dedupe = Append(gate.dedupe, d)
      BY <1>7, <2>1
    <3>2. /\ Len(dedupe) = Len(gate.dedupe) + 1 /\ dedupe \in Seq(DedupeRecord)
          /\ DOMAIN dedupe = 1 .. Len(dedupe) /\ DOMAIN gate.dedupe = 1 .. Len(gate.dedupe)
          /\ Len(gate.dedupe) \in Nat
          /\ \A k \in 1 .. Len(gate.dedupe) : dedupe[k] = gate.dedupe[k]
          /\ dedupe[Len(gate.dedupe) + 1] = d
      BY <1>1, <1>5, <3>1
    <3> QED
      BY <3>2
  <2>2. CASE stage \notin {"none", "cooldown", "batch_debounce"}
    BY <1>1, <1>7, <2>2
  <2> QED
    BY <2>1, <2>2
<1>12. /\ cooldown \in Seq(CooldownRecord)
       /\ \A k \in DOMAIN gate.cooldown : k \in DOMAIN cooldown /\ cooldown[k] = gate.cooldown[k]
       /\ \A k \in DOMAIN cooldown : k \in DOMAIN gate.cooldown \/ cooldown[k] = c
       /\ stage \in {"none", "batch_debounce"} => \E k \in DOMAIN cooldown : cooldown[k] = c
  BY <1>1, <1>6, <1>8
<1>13. /\ batch \in Seq(Batch)
       /\ \A b \in DOMAIN batch :
            \/ /\ b \in DOMAIN gate.batch
               /\ batch[b].key = gate.batch[b].key /\ batch[b].releaseAt = gate.batch[b].releaseAt
            \/ batch[b].key = BatchKey(e, t) /\ batch[b].releaseAt = t + BatchWindow(e)
  <2>1. CASE stage \in {"none", "batch_debounce"}
    <3>1. batch = BatchAfter(gate, e, t)
      BY <1>9, <2>1
    <3> QED
      BY <3>1, BatchStep
  <2>2. CASE stage \notin {"none", "batch_debounce"}
    BY <1>1, <1>9, <2>2
  <2> QED
    BY <2>1, <2>2
<1>14. gate'.dedupe = dedupe /\ gate'.cooldown = cooldown /\ gate'.batch = batch
  BY <1>10
<1>15. GateTypes'
  BY <1>10, <1>11, <1>12, <1>13 DEF GateTypes
<1>16. /\ \A k \in DOMAIN gate.dedupe : k \in DOMAIN gate'.dedupe /\ gate'.dedupe[k] = gate.dedupe[k]
       /\ stage \in {"none", "cooldown", "batch_debounce"} =>
            \E k \in DOMAIN gate'.dedupe : gate'.dedupe[k].basis = <<e, t>>
       /\ \A k \in DOMAIN gate'.dedupe :
            \/ k \in DOMAIN gate.dedupe
            \/ gate'.dedupe[k].key = DedupeKey(e, t) /\ gate'.dedupe[k].expiresAt = t + DedupeWindow(e)
  BY <1>3, <1>11, <1>14
<1>17. /\ \A k \in DOMAIN gate.cooldown :
            k \in DOMAIN gate'.cooldown /\ gate'.cooldown[k] = gate.cooldown[k]
       /\ stage \in {"none", "batch_debounce"} =>
            \E k \in DOMAIN gate'.cooldown :
              /\ gate'.cooldown[k].key = CooldownKey(e)
              /\ gate'.cooldown[k].expiresAt = t + CooldownWindow(e)
       /\ \A k \in DOMAIN gate'.cooldown :
            \/ k \in DOMAIN gate.cooldown
            \/ gate'.cooldown[k].key = CooldownKey(e)
               /\ gate'.cooldown[k].expiresAt = t + CooldownWindow(e)
  BY <1>4, <1>12, <1>14
<1> QED
  BY <1>13, <1>14, <1>15, <1>16, <1>17

-----------------------------------------------------------------------------
(* The cadence *)

LEMMA Extremes ==
  ASSUME NEW a \in Int, NEW b \in Int
  PROVE  /\ Sets!Max({a, b}) = IF a >= b THEN a ELSE b
         /\ Sets!Min({a, b}) = IF a <= b THEN a ELSE b
BY DEF Sets!Max, Sets!Min

LEMMA LeastFound ==
  ASSUME NEW S, S \subseteq Nat, S # {}
  PROVE  Sets!Min(S) \in S
<1>1. \E x \in S : \A y \in S : x <= y
  BY NatLeast
<1> QED
  BY <1>1 DEF Sets!Min

LEMMA SelectedFacts ==
  ASSUME NEW ev, ev.at \in Nat, NEW status
  PROVE  SelectedIndex(ev, status) \in 1 .. 8
<1>1. PICK significance : significance = Significance(ev, status)
  OBVIOUS
<1>2. PICK day : day = DayType(ev, significance)
  OBVIOUS
<1>3. PICK window : window = TimeWindow(ev.at)
  OBVIOUS
<1>4. PICK score : score = Score(ev, significance, day, window)
  OBVIOUS
<1>5. significance \in {"high", "medium", "low"}
  BY <1>1 DEF Significance
<1>6. day \in {"d1_runner_rotation", "d2_active_continuation", "d3_mixed_noisy", "d4_dead_drift"}
  BY <1>2 DEF DayType
<1>7. window \in {"t1_ignition", "t2_expansion", "t3_follow_through", "t4_stale_review"}
  <2>1. PICK hour : hour = (ev.at \div 60) % 24
    OBVIOUS
  <2>2. hour \in 0 .. 23
    BY <2>1
  <2>3. hour \in 0 .. 5 \/ hour \in 6 .. 11 \/ hour \in 12 .. 17 \/ hour \in 18 .. 23
    BY <2>2
  <2>4. window = CASE hour < 6 -> "t1_ignition"
                   [] hour \in 6 .. 11 -> "t2_expansion"
                   [] hour \in 12 .. 17 -> "t3_follow_through"
                   [] hour >= 18 -> "t4_stale_review"
    BY <1>3, <2>1 DEF TimeWindow
  <2>5. CASE hour \in 0 .. 5
    BY <2>4, <2>5
  <2>6. CASE hour \in 6 .. 11
    BY <2>4, <2>6
  <2>7. CASE hour \in 12 .. 17
    BY <2>4, <2>7
  <2>8. CASE hour \in 18 .. 23
    BY <2>4, <2>8
  <2> QED
    BY <2>3, <2>5, <2>6, <2>7, <2>8
<1>8. PICK base : base = IF score >= 75 THEN 1 ELSE IF score >= 50 THEN 3 ELSE 5
  OBVIOUS
<1>9. PICK role : role = IF day \in (IF ev.event.family = "lowcap"
                                     THEN {"d1_runner_rotation", "d2_active_continuation"}
                                     ELSE {"d3_mixed_noisy", "d4_dead_drift"}) THEN -1 ELSE 0
  OBVIOUS
<1>10. PICK x : x = [d1_runner_rotation |-> -1, d2_active_continuation |-> 0,
                     d3_mixed_noisy |-> 1, d4_dead_drift |-> 2][day]
  OBVIOUS
<1>11. PICK y : y = [t1_ignition |-> -1, t2_expansion |-> 0,
                     t3_follow_through |-> 1, t4_stale_review |-> 2][window]
  OBVIOUS
<1>12. PICK z : z = [high |-> -1, medium |-> 0, low |-> 1][significance]
  OBVIOUS
<1>13. base \in Int /\ role \in Int
  BY <1>8, <1>9
<1>14. x \in Int
  BY <1>6, <1>10
<1>15. y \in Int
  BY <1>7, <1>11
<1>16. z \in Int
  BY <1>5, <1>12
<1>17. SelectedIndex(ev, status) = ClampIndex(base + role + x + y + z)
  BY <1>1, <1>2, <1>3, <1>4, <1>8, <1>9, <1>10, <1>11, <1>12 DEF SelectedIndex
<1>18. PICK i \in Int : i = base + role + x + y + z
  BY <1>13, <1>14, <1>15, <1>16
<1>19. ClampIndex(i) \in 1 .. 8
  <2>1. Len(Intervals) = 8
    BY DEF Intervals
  <2>2. \A a, b \in Int : /\ Sets!Max({a, b}) = IF a >= b THEN a ELSE b
                          /\ Sets!Min({a, b}) = IF a <= b THEN a ELSE b
    BY Extremes
  <2>3. PICK m \in Int : m = Sets!Max({1, i}) /\ m >= 1
    BY <2>2
  <2>4. PICK k \in Int : k = 8
    OBVIOUS
  <2>5. Sets!Min({k, m}) = IF k <= m THEN k ELSE m
    BY <2>2, Zenon
  <2> QED
    BY <2>1, <2>3, <2>4, <2>5 DEF ClampIndex
<1> QED
  BY <1>17, <1>18, <1>19

LEMMA MinimumFacts ==
  ASSUME NEW m \in Int
  PROVE  /\ IndexForMinimum(m) \in 1 .. 8
         /\ IndexForMinimum(m) = 8 \/ Intervals[IndexForMinimum(m)] >= m
<1> DEFINE L == {i \in DOMAIN Intervals : Intervals[i] >= m}
<1>1. Len(Intervals) = 8 /\ DOMAIN Intervals = 1 .. 8
  BY DEF Intervals
<1>2. CASE L = {}
  BY <1>1, <1>2 DEF IndexForMinimum
<1>3. CASE L # {}
  <2>1. Sets!Min(L) \in L
    BY <1>1, <1>3, LeastFound
  <2>2. IndexForMinimum(m) = Sets!Min(L)
    BY <1>3 DEF IndexForMinimum
  <2> QED
    BY <1>1, <2>1, <2>2
<1> QED
  BY <1>2, <1>3

(* A longer interval is behind a shorter one. *)
LEMMA IntervalFacts ==
  /\ \A i \in 1 .. 8 : Intervals[i] \in 5 .. 120
  /\ \A i, j \in 1 .. 8 : i <= j => Intervals[i] <= Intervals[j]
  /\ Intervals[8] = 120
<1>1. /\ Intervals[1] = 5 /\ Intervals[2] = 10 /\ Intervals[3] = 15 /\ Intervals[4] = 30
      /\ Intervals[5] = 45 /\ Intervals[6] = 60 /\ Intervals[7] = 90 /\ Intervals[8] = 120
  BY DEF Intervals
<1>2. \A i \in 1 .. 8 : i = 1 \/ i = 2 \/ i = 3 \/ i = 4 \/ i = 5 \/ i = 6 \/ i = 7 \/ i = 8
  OBVIOUS
<1> QED
  BY <1>1, <1>2

(* The records a floor is read from were left by evaluations. *)
LEMMA RecordsEnd ==
  ASSUME GateTypes, RecordsLeft, NEW ev, HeldBack(ev), NEW records,
         records = SuppressionRecords(gate, ev)
  PROVE  /\ DOMAIN records \subseteq Nat
         /\ \A i \in DOMAIN records :
              /\ records[i].ends \in Nat
              /\ \E k \in DOMAIN log :
                   [key |-> records[i].key, ends |-> records[i].ends]
                     = LeftBy(log[k].evaluation, ev.kind)
<1>1. /\ gate.dedupe \in Seq(DedupeRecord) /\ gate.cooldown \in Seq(CooldownRecord)
      /\ gate.batch \in Seq(Batch)
  BY DEF GateTypes
<1>2. CASE ev.kind = "cooldown"
  <2>1. records = [i \in DOMAIN gate.cooldown |->
                     [key |-> gate.cooldown[i].key, ends |-> gate.cooldown[i].expiresAt]]
    BY <1>2 DEF SuppressionRecords
  <2>2. \A i \in DOMAIN gate.cooldown : i \in Nat /\ gate.cooldown[i].expiresAt \in Nat
    BY <1>1, RecordTypes
  <2>3. /\ DOMAIN records = DOMAIN gate.cooldown
        /\ \A i \in DOMAIN gate.cooldown :
             records[i] = [key |-> gate.cooldown[i].key, ends |-> gate.cooldown[i].expiresAt]
    BY <2>1
  <2>4. ASSUME NEW i \in DOMAIN records
        PROVE  /\ i \in Nat /\ records[i].ends \in Nat
               /\ \E k \in DOMAIN log :
                    [key |-> records[i].key, ends |-> records[i].ends]
                      = LeftBy(log[k].evaluation, ev.kind)
    <3>1. i \in DOMAIN gate.cooldown
      BY <2>3
    <3>2. PICK r : r = [key |-> gate.cooldown[i].key, ends |-> gate.cooldown[i].expiresAt]
      OBVIOUS
    <3>3. records[i] = r
      BY <2>3, <3>1, <3>2
    <3>4. [key |-> r.key, ends |-> r.ends] = r /\ r.ends = gate.cooldown[i].expiresAt
      BY <3>2
    <3>5. PICK k \in DOMAIN log : r = LeftBy(log[k].evaluation, "cooldown")
      BY <3>1, <3>2 DEF RecordsLeft
    <3> QED
      BY <1>2, <2>2, <3>1, <3>3, <3>4, <3>5
  <2> QED
    BY <2>4
<1>3. CASE ev.kind = "dedupe"
  <2>1. records = [i \in DOMAIN gate.dedupe |->
                     [key |-> gate.dedupe[i].key, ends |-> gate.dedupe[i].expiresAt]]
    BY <1>3 DEF SuppressionRecords
  <2>2. \A i \in DOMAIN gate.dedupe : i \in Nat /\ gate.dedupe[i].expiresAt \in Nat
    BY <1>1, RecordTypes
  <2>3. /\ DOMAIN records = DOMAIN gate.dedupe
        /\ \A i \in DOMAIN gate.dedupe :
             records[i] = [key |-> gate.dedupe[i].key, ends |-> gate.dedupe[i].expiresAt]
    BY <2>1
  <2>4. ASSUME NEW i \in DOMAIN records
        PROVE  /\ i \in Nat /\ records[i].ends \in Nat
               /\ \E k \in DOMAIN log :
                    [key |-> records[i].key, ends |-> records[i].ends]
                      = LeftBy(log[k].evaluation, ev.kind)
    <3>1. i \in DOMAIN gate.dedupe
      BY <2>3
    <3>2. PICK r : r = [key |-> gate.dedupe[i].key, ends |-> gate.dedupe[i].expiresAt]
      OBVIOUS
    <3>3. records[i] = r
      BY <2>3, <3>1, <3>2
    <3>4. [key |-> r.key, ends |-> r.ends] = r /\ r.ends = gate.dedupe[i].expiresAt
      BY <3>2
    <3>5. PICK k \in DOMAIN log : r = LeftBy(log[k].evaluation, "dedupe")
      BY <3>1, <3>2 DEF RecordsLeft
    <3> QED
      BY <1>3, <2>2, <3>1, <3>3, <3>4, <3>5
  <2> QED
    BY <2>4
<1>4. CASE ev.kind = "defer"
  <2>1. records = [i \in DOMAIN gate.batch |->
                     [key |-> gate.batch[i].key, ends |-> gate.batch[i].releaseAt]]
    BY <1>4 DEF SuppressionRecords
  <2>2. \A i \in DOMAIN gate.batch : i \in Nat /\ gate.batch[i].releaseAt \in Nat
    BY <1>1 DEF Batch
  <2>3. /\ DOMAIN records = DOMAIN gate.batch
        /\ \A i \in DOMAIN gate.batch :
             records[i] = [key |-> gate.batch[i].key, ends |-> gate.batch[i].releaseAt]
    BY <2>1
  <2>4. ASSUME NEW i \in DOMAIN records
        PROVE  /\ i \in Nat /\ records[i].ends \in Nat
               /\ \E k \in DOMAIN log :
                    [key |-> records[i].key, ends |-> records[i].ends]
                      = LeftBy(log[k].evaluation, ev.kind)
    <3>1. i \in DOMAIN gate.batch
      BY <2>3
    <3>2. PICK r : r = [key |-> gate.batch[i].key, ends |-> gate.batch[i].releaseAt]
      OBVIOUS
    <3>3. records[i] = r
      BY <2>3, <3>1, <3>2
    <3>4. [key |-> r.key, ends |-> r.ends] = r /\ r.ends = gate.batch[i].releaseAt
      BY <3>2
    <3>5. PICK k \in DOMAIN log : r = LeftBy(log[k].evaluation, "defer")
      BY <3>1, <3>2 DEF RecordsLeft
    <3> QED
      BY <1>4, <2>2, <3>1, <3>3, <3>4, <3>5
  <2> QED
    BY <2>4
<1> QED
  BY <1>2, <1>3, <1>4 DEF HeldBack

LEMMA PollFacts ==
  ASSUME GateTypes, RecordsLeft, NEW ev \in Evaluations, NEW status, NEW poll,
         poll = PollingInterval(gate, ev, status)
  PROVE  /\ poll \in 5 .. 120
         /\ HeldBack(ev) =>
              \/ poll >= ev.until - ev.at
              \/ poll = 120
              \/ \E k \in DOMAIN log :
                   LET left == LeftBy(log[k].evaluation, ev.kind)
                   IN  left.key = ev.key /\ left.ends < ev.until
<1>1. ev.at \in Nat /\ ev.until \in Nat
  <2>1. ev.at \in Time /\ ev.until \in Nat
    BY DEF Evaluations
  <2> QED
    BY <2>1, EventAssumption
<1>2. PICK selected \in 1 .. 8 : selected = SelectedIndex(ev, status)
  BY <1>1, SelectedFacts
<1>3. CASE ~HeldBack(ev)
  <2>1. poll = Intervals[selected]
    BY <1>2, <1>3 DEF PollingInterval
  <2> QED
    BY <1>3, <2>1, IntervalFacts
<1>4. CASE HeldBack(ev)
  <2>1. PICK records : records = SuppressionRecords(gate, ev)
    OBVIOUS
  <2>2. /\ DOMAIN records \subseteq Nat
        /\ \A i \in DOMAIN records :
             /\ records[i].ends \in Nat
             /\ \E k \in DOMAIN log :
                  [key |-> records[i].key, ends |-> records[i].ends]
                    = LeftBy(log[k].evaluation, ev.kind)
    BY <1>4, <2>1, RecordsEnd
  <2> DEFINE keyed == {i \in DOMAIN records : records[i].key = ev.key}
  <2>3. PICK ends : ends = IF keyed = {} THEN ev.until ELSE records[Sets!Min(keyed)].ends
    OBVIOUS
  <2>4. /\ ends \in Nat
        /\ \/ ends = ev.until
           \/ \E k \in DOMAIN log : LeftBy(log[k].evaluation, ev.kind) = [key |-> ev.key, ends |-> ends]
    <3>1. CASE keyed = {}
      BY <1>1, <2>3, <3>1
    <3>2. CASE keyed # {}
      <4>1. keyed \subseteq Nat
        BY <2>2
      <4>2. PICK i : i = Sets!Min(keyed)
        OBVIOUS
      <4>3. i \in keyed
        BY <3>2, <4>1, <4>2, LeastFound
      <4>4. ends = records[i].ends
        BY <2>3, <3>2, <4>2
      <4> QED
        BY <2>2, <4>3, <4>4
    <3> QED
      BY <3>1, <3>2
  <2>5. PICK floor \in Int : floor = Floor(gate, ev) /\ floor >= ends - ev.at
    <3>1. Floor(gate, ev) = Sets!Max({0, ends - ev.at})
      BY <2>1, <2>3 DEF Floor
    <3>2. PICK a \in Int : a = ends - ev.at
      BY <1>1, <2>4
    <3>3. PICK z \in Int : z = 0
      OBVIOUS
    <3>4. Sets!Max({z, a}) = IF z >= a THEN z ELSE a
      BY Extremes, Zenon
    <3> QED
      BY <3>1, <3>2, <3>3, <3>4
  <2>6. PICK least \in 1 .. 8 : /\ least = IndexForMinimum(floor)
                                /\ least = 8 \/ Intervals[least] >= floor
    BY MinimumFacts
  <2>7. PICK index : index = Sets!Max({selected, least})
    OBVIOUS
  <2>8. index \in 1 .. 8 /\ index >= least
    <3>1. selected \in Int /\ least \in Int
      OBVIOUS
    <3>2. index = IF selected >= least THEN selected ELSE least
      BY <2>7, <3>1, Extremes, Zenon
    <3> QED
      BY <3>1, <3>2
  <2>9. poll = Intervals[index]
    BY <1>2, <1>4, <2>5, <2>6, <2>7 DEF PollingInterval
  <2>10. poll \in 5 .. 120 /\ (poll = 120 \/ poll >= ends - ev.at)
    <3>1. CASE least = 8
      <4>1. index = 8
        BY <2>8, <3>1
      <4> QED
        BY <2>9, <4>1, IntervalFacts
    <3>2. CASE Intervals[least] >= floor
      <4>1. Intervals[index] >= Intervals[least] /\ Intervals[index] \in 5 .. 120
            /\ Intervals[least] \in 5 .. 120
        BY <2>8, IntervalFacts
      <4> QED
        BY <1>1, <2>4, <2>5, <2>9, <3>2, <4>1
    <3> QED
      BY <2>6, <3>1, <3>2
  <2>11. CASE ends >= ev.until
    BY <1>1, <2>4, <2>10, <2>11
  <2>12. CASE ends < ev.until
    <3>1. PICK k \in DOMAIN log : LeftBy(log[k].evaluation, ev.kind) = [key |-> ev.key, ends |-> ends]
      BY <1>1, <2>4, <2>12
    <3> QED
      BY <2>10, <2>12, <3>1
  <2> QED
    BY <1>1, <2>4, <2>11, <2>12
<1> QED
  BY <1>3, <1>4

-----------------------------------------------------------------------------
(* A step *)

LEMMA LogStep ==
  ASSUME GateTypes, LogTypes, RecordsLeft, NEW e \in Event, NEW t \in Time, Evaluate(e, t),
         NEW ev, ev = Evaluation(gate, e, t)
  PROVE  \E n \in Nat \ {0} :
           /\ DOMAIN log = 1 .. (n - 1) /\ DOMAIN log' = 1 .. n
           /\ \A i \in DOMAIN log : log'[i] = log[i] /\ log[i].evaluation \in Evaluations
           /\ log'[n].evaluation = ev /\ Len(log') = n
           /\ log'[n].poll = PollingInterval(gate, ev, StatusFor(e))
           /\ LogTypes'
<1>1. PICK poll : poll = PollingInterval(gate, ev, StatusFor(e))
  OBVIOUS
<1>2. ev \in Evaluations
  BY EvaluationFacts
<1>3. poll \in 5 .. 120
  BY <1>1, <1>2, PollFacts
<1>4. PICK r : r = [evaluation |-> ev, poll |-> poll]
  OBVIOUS
<1>5. r \in [evaluation : Evaluations, poll : 5 .. 120]
  BY <1>2, <1>3, <1>4
<1>6. log' = Append(log, r)
  BY <1>1, <1>4 DEF Evaluate
<1>7. log \in Seq([evaluation : Evaluations, poll : 5 .. 120])
  BY DEF LogTypes
<1>8. /\ Len(log) \in Nat /\ DOMAIN log = 1 .. Len(log)
      /\ log' \in Seq([evaluation : Evaluations, poll : 5 .. 120])
      /\ Len(log') = Len(log) + 1 /\ DOMAIN log' = 1 .. (Len(log) + 1)
      /\ log'[Len(log) + 1] = r
      /\ \A i \in 1 .. Len(log) : log'[i] = log[i]
  BY <1>5, <1>6, <1>7
<1>9. LogTypes'
  BY <1>8 DEF LogTypes
<1>10. \A i \in DOMAIN log : log[i] \in [evaluation : Evaluations, poll : 5 .. 120]
  <2> DEFINE S == [evaluation : Evaluations, poll : 5 .. 120]
  <2>1. log \in Seq(S)
    BY <1>7
  <2> HIDE DEF S
  <2>2. \A i \in DOMAIN log : log[i] \in S
    BY <2>1
  <2> QED
    BY <2>2 DEF S
<1>11. PICK n \in Nat \ {0} : n = Len(log) + 1
  BY <1>8
<1>12. n - 1 = Len(log) /\ log'[n] = r
  BY <1>8, <1>11
<1>13. /\ DOMAIN log = 1 .. (n - 1) /\ DOMAIN log' = 1 .. n /\ Len(log') = n
       /\ \A i \in DOMAIN log : log'[i] = log[i]
  BY <1>8, <1>11, <1>12
<1>14. log'[n].evaluation = ev /\ log'[n].poll = poll
  BY <1>4, <1>12
<1>15. \A i \in DOMAIN log : log[i].evaluation \in Evaluations
  BY <1>10
<1> QED
  BY <1>1, <1>9, <1>13, <1>14, <1>15

LEMMA RecordedStep ==
  ASSUME GateInv, NEW e \in Event, NEW t \in Time, Evaluate(e, t)
  PROVE  GateTypes' /\ DedupeRecorded' /\ CooldownRecorded' /\ RecordsLeft'
<1>1. GateTypes /\ LogTypes /\ DedupeRecorded /\ CooldownRecorded /\ RecordsLeft
  BY DEF GateInv
<1>2. PICK ev : ev = Evaluation(gate, e, t)
  OBVIOUS
<1>3. PICK n \in Nat \ {0} :
           /\ DOMAIN log = 1 .. (n - 1) /\ DOMAIN log' = 1 .. n
           /\ \A i \in DOMAIN log : log'[i] = log[i] /\ log[i].evaluation \in Evaluations
           /\ log'[n].evaluation = ev
  BY <1>1, <1>2, LogStep
<1>4. /\ ev.event = e /\ ev.at = t /\ ev.stage = BlockingStage(gate, e, t)
      /\ ev.stage \in Stages
      /\ ev.stage = "dedupe" => ActiveDuplicate(gate, e, t) # 0
  BY <1>1, <1>2, EvaluationFacts, StageFacts
<1>5. gate' = GateAfter(gate, e, t)
  BY DEF Evaluate
<1>6. /\ GateTypes'
      /\ \A d \in DOMAIN gate.dedupe : d \in DOMAIN gate'.dedupe /\ gate'.dedupe[d] = gate.dedupe[d]
      /\ \A c \in DOMAIN gate.cooldown :
           c \in DOMAIN gate'.cooldown /\ gate'.cooldown[c] = gate.cooldown[c]
      /\ ev.stage \in {"none", "cooldown", "batch_debounce"} =>
           \E d \in DOMAIN gate'.dedupe : gate'.dedupe[d].basis = <<e, t>>
      /\ ev.stage \in {"none", "batch_debounce"} =>
           \E c \in DOMAIN gate'.cooldown :
             /\ gate'.cooldown[c].key = CooldownKey(e)
             /\ gate'.cooldown[c].expiresAt = t + CooldownWindow(e)
      /\ \A d \in DOMAIN gate'.dedupe :
           \/ d \in DOMAIN gate.dedupe
           \/ gate'.dedupe[d].key = DedupeKey(e, t) /\ gate'.dedupe[d].expiresAt = t + DedupeWindow(e)
      /\ \A c \in DOMAIN gate'.cooldown :
           \/ c \in DOMAIN gate.cooldown
           \/ gate'.cooldown[c].key = CooldownKey(e)
              /\ gate'.cooldown[c].expiresAt = t + CooldownWindow(e)
      /\ \A b \in DOMAIN gate'.batch :
           \/ /\ b \in DOMAIN gate.batch /\ gate'.batch[b].key = gate.batch[b].key
              /\ gate'.batch[b].releaseAt = gate.batch[b].releaseAt
           \/ gate'.batch[b].key = BatchKey(e, t) /\ gate'.batch[b].releaseAt = t + BatchWindow(e)
  BY <1>1, <1>4, <1>5, GateStep
<1>7. \A i \in DOMAIN log' : \/ i \in DOMAIN log /\ log'[i].evaluation = log[i].evaluation
                             \/ log'[i].evaluation = ev
  BY <1>3
<1>8. DedupeRecorded'
  <2>1. ASSUME ev.stage \notin OnItsOwn
        PROVE  \E d \in DOMAIN gate'.dedupe : gate'.dedupe[d].basis = <<e, t>>
    <3>1. CASE ev.stage = "dedupe"
      <4>1. PICK d \in DOMAIN gate.dedupe : gate.dedupe[d].basis = <<e, t>>
        BY <1>1, <1>4, <3>1, RecordsFound
      <4> QED
        BY <1>6, <4>1
    <3>2. CASE ev.stage # "dedupe"
      BY <1>4, <1>6, <2>1, <3>2 DEF Stages
    <3> QED
      BY <3>1, <3>2
  <2>2. ASSUME NEW i \in DOMAIN log, log[i].evaluation.stage \notin OnItsOwn
        PROVE  \E d \in DOMAIN gate'.dedupe :
                 gate'.dedupe[d].basis = <<log[i].evaluation.event, log[i].evaluation.at>>
    <3>1. PICK d \in DOMAIN gate.dedupe :
            gate.dedupe[d].basis = <<log[i].evaluation.event, log[i].evaluation.at>>
      BY <1>1, <2>2 DEF DedupeRecorded
    <3> QED
      BY <1>6, <3>1
  <2> QED
    BY <1>4, <1>7, <2>1, <2>2 DEF DedupeRecorded
<1>9. CooldownRecorded'
  <2>1. ASSUME NEW i \in DOMAIN log, log[i].evaluation.stage \in {"none", "batch_debounce"}
        PROVE  \E c \in DOMAIN gate'.cooldown :
                 /\ gate'.cooldown[c].key = CooldownKey(log[i].evaluation.event)
                 /\ gate'.cooldown[c].expiresAt
                      = log[i].evaluation.at + CooldownWindow(log[i].evaluation.event)
    <3>1. PICK c \in DOMAIN gate.cooldown :
                 /\ gate.cooldown[c].key = CooldownKey(log[i].evaluation.event)
                 /\ gate.cooldown[c].expiresAt
                      = log[i].evaluation.at + CooldownWindow(log[i].evaluation.event)
      BY <1>1, <2>1 DEF CooldownRecorded
    <3> QED
      BY <1>6, <3>1
  <2> QED
    BY <1>4, <1>6, <1>7, <2>1 DEF CooldownRecorded
<1>10. RecordsLeft'
  <2>1. n \in DOMAIN log' /\ DOMAIN log \subseteq DOMAIN log'
        /\ \A k \in DOMAIN log : log'[k].evaluation = log[k].evaluation
    BY <1>3
  <2>2. /\ LeftBy(ev, "dedupe") = [key |-> DedupeKey(e, t), ends |-> t + DedupeWindow(e)]
        /\ LeftBy(ev, "cooldown") = [key |-> CooldownKey(e), ends |-> t + CooldownWindow(e)]
        /\ LeftBy(ev, "defer") = [key |-> BatchKey(e, t), ends |-> t + BatchWindow(e)]
    BY <1>4 DEF LeftBy
  <2>3. ASSUME NEW d \in DOMAIN gate'.dedupe
        PROVE  \E k \in DOMAIN log' : [key |-> gate'.dedupe[d].key, ends |-> gate'.dedupe[d].expiresAt]
                                        = LeftBy(log'[k].evaluation, "dedupe")
    <3>1. CASE d \in DOMAIN gate.dedupe
      BY <1>1, <1>6, <2>1, <3>1 DEF RecordsLeft
    <3>2. CASE d \notin DOMAIN gate.dedupe
      BY <1>3, <1>6, <2>1, <2>2, <3>2
    <3> QED
      BY <3>1, <3>2
  <2>4. ASSUME NEW c \in DOMAIN gate'.cooldown
        PROVE  \E k \in DOMAIN log' :
                 [key |-> gate'.cooldown[c].key, ends |-> gate'.cooldown[c].expiresAt]
                   = LeftBy(log'[k].evaluation, "cooldown")
    <3>1. CASE c \in DOMAIN gate.cooldown
      BY <1>1, <1>6, <2>1, <3>1 DEF RecordsLeft
    <3>2. CASE c \notin DOMAIN gate.cooldown
      BY <1>3, <1>6, <2>1, <2>2, <3>2
    <3> QED
      BY <3>1, <3>2
  <2>5. ASSUME NEW b \in DOMAIN gate'.batch
        PROVE  \E k \in DOMAIN log' : [key |-> gate'.batch[b].key, ends |-> gate'.batch[b].releaseAt]
                                        = LeftBy(log'[k].evaluation, "defer")
    <3>1. CASE b \in DOMAIN gate.batch /\ gate'.batch[b].key = gate.batch[b].key
               /\ gate'.batch[b].releaseAt = gate.batch[b].releaseAt
      BY <1>1, <2>1, <3>1 DEF RecordsLeft
    <3>2. CASE gate'.batch[b].key = BatchKey(e, t) /\ gate'.batch[b].releaseAt = t + BatchWindow(e)
      BY <1>3, <2>1, <2>2, <3>2
    <3> QED
      BY <1>6, <2>5, <3>1, <3>2
  <2> QED
    BY <2>3, <2>4, <2>5 DEF RecordsLeft
<1> QED
  BY <1>6, <1>8, <1>9, <1>10

(* What runs now is behind the cooldown of every earlier run of its key, and *)
(* has no dedupe record, which a deferral would have left.                   *)
LEMMA RunsStep ==
  ASSUME GateInv, NEW e \in Event, NEW t \in Time, Evaluate(e, t)
  PROVE  RunsJustified'
<1>1. /\ GateTypes /\ LogTypes /\ DedupeRecorded /\ CooldownRecorded /\ RecordsLeft
      /\ RunsSpaced /\ DeferredNeverRuns
  BY DEF GateInv, RunsJustified
<1>2. PICK ev : ev = Evaluation(gate, e, t)
  OBVIOUS
<1>3. PICK n \in Nat \ {0} :
           /\ DOMAIN log = 1 .. (n - 1) /\ DOMAIN log' = 1 .. n
           /\ \A i \in DOMAIN log : log'[i] = log[i] /\ log[i].evaluation \in Evaluations
           /\ log'[n].evaluation = ev
  BY <1>1, <1>2, LogStep
<1>4. /\ ev.event = e /\ ev.at = t /\ ev.stage = BlockingStage(gate, e, t)
      /\ Ran(ev) => ev.stage = "none"
  BY <1>1, <1>2, EvaluationFacts
<1>5. Ran(ev) => ActiveDuplicate(gate, e, t) = 0 /\ ActiveCooldown(gate, e, t) = 0
  BY <1>4, StageFacts
<1>6. t \in Nat
  BY EventAssumption
<1>7. ASSUME NEW i \in DOMAIN log, Ran(ev), Ran(log[i].evaluation),
             CooldownKey(log[i].evaluation.event) = CooldownKey(e)
      PROVE  t >= log[i].evaluation.at + CooldownWindow(log[i].evaluation.event)
  <2>1. PICK a : a = log[i].evaluation
    OBVIOUS
  <2>2. a \in Evaluations
    BY <1>3, <2>1
  <2>3. a.stage = "none" /\ a.event \in Event /\ a.at \in Time
    BY <1>7, <2>1, <2>2 DEF Evaluations, Ran
  <2>4. a.at \in Nat /\ CooldownWindow(a.event) \in Nat
    BY <2>3, EventAssumption, Windows
  <2>5. PICK c \in DOMAIN gate.cooldown :
          /\ gate.cooldown[c].key = CooldownKey(a.event)
          /\ gate.cooldown[c].expiresAt = a.at + CooldownWindow(a.event)
    BY <1>1, <2>1, <2>3 DEF CooldownRecorded
  <2>6. ~(gate.cooldown[c].expiresAt > t)
    BY <1>1, <1>5, <1>7, <2>1, <2>5, RecordsFound
  <2> QED
    BY <1>6, <2>1, <2>4, <2>5, <2>6
<1>8. ASSUME NEW i \in DOMAIN log, log[i].evaluation.kind = "defer",
             <<log[i].evaluation.event, log[i].evaluation.at>> = <<e, t>>
      PROVE  ~Ran(ev)
  <2>1. PICK a : a = log[i].evaluation
    OBVIOUS
  <2>2. a \in Evaluations
    BY <1>3, <2>1
  <2>3. a.stage \in Stages /\ a.kind = SuppressionKind(a.stage, a.event)
    BY <2>2 DEF Evaluations
  <2>4. a.stage = "batch_debounce"
    BY <1>8, <2>1, <2>3, KindFacts
  <2>5. PICK d \in DOMAIN gate.dedupe : gate.dedupe[d].basis = <<e, t>>
    BY <1>1, <1>8, <2>1, <2>4 DEF DedupeRecorded, OnItsOwn
  <2>6. gate.dedupe[d] \in DedupeRecord
    BY <1>1 DEF GateTypes
  <2>7. PICK f \in Event, u \in Time :
          gate.dedupe[d] = [key |-> DedupeKey(f, u), basis |-> <<f, u>>,
                            expiresAt |-> u + DedupeWindow(f)]
    BY <2>6, RecordTypes
  <2>8. f = e /\ u = t
    BY <2>5, <2>7
  <2>9. /\ gate.dedupe[d].key = DedupeKey(e, t)
        /\ gate.dedupe[d].expiresAt = t + DedupeWindow(e)
    BY <2>7, <2>8
  <2>10. t + DedupeWindow(e) > t
    BY <1>6, Windows
  <2>11. ActiveDuplicate(gate, e, t) # 0
    BY <1>1, <2>5, <2>9, <2>10, RecordsFound
  <2> QED
    BY <1>5, <2>11
<1>9. \A i, j \in DOMAIN log' : i < j =>
        /\ i \in DOMAIN log /\ log'[i] = log[i]
        /\ (j \in DOMAIN log /\ log'[j] = log[j]) \/ log'[j].evaluation = ev
  BY <1>3
<1>10. RunsSpaced'
  <2>1. ASSUME NEW i \in DOMAIN log', NEW j \in DOMAIN log', i < j,
               Ran(log'[i].evaluation), Ran(log'[j].evaluation),
               CooldownKey(log'[i].evaluation.event) = CooldownKey(log'[j].evaluation.event)
        PROVE  log'[j].evaluation.at
                 >= log'[i].evaluation.at + CooldownWindow(log'[i].evaluation.event)
    <3>1. CASE j \in DOMAIN log /\ log'[j] = log[j]
      BY <1>1, <1>9, <2>1, <3>1 DEF RunsSpaced
    <3>2. CASE log'[j].evaluation = ev
      BY <1>4, <1>7, <1>9, <2>1, <3>2
    <3> QED
      BY <1>9, <2>1, <3>1, <3>2
  <2> QED
    BY <2>1 DEF RunsSpaced
<1>11. DeferredNeverRuns'
  <2>1. ASSUME NEW i \in DOMAIN log', NEW j \in DOMAIN log', i < j,
               log'[i].evaluation.kind = "defer",
               <<log'[i].evaluation.event, log'[i].evaluation.at>>
                 = <<log'[j].evaluation.event, log'[j].evaluation.at>>
        PROVE  ~Ran(log'[j].evaluation)
    <3>1. CASE j \in DOMAIN log /\ log'[j] = log[j]
      BY <1>1, <1>9, <2>1, <3>1 DEF DeferredNeverRuns
    <3>2. CASE log'[j].evaluation = ev
      BY <1>4, <1>8, <1>9, <2>1, <3>2
    <3> QED
      BY <1>9, <2>1, <3>1, <3>2
  <2>2. GateTypes'
    BY RecordedStep
  <2>3. \A i \in DOMAIN gate'.batch : gate'.batch[i] \in Batch'
    BY <2>2 DEF GateTypes
  <2>4. \A i \in DOMAIN gate'.batch : gate'.batch[i].status = "pending"
    BY <2>3 DEF Batch
  <2> QED
    BY <2>1, <2>4 DEF DeferredNeverRuns
<1> QED
  BY <1>10, <1>11 DEF RunsJustified

(* What moves the workers *)
LEMMA EventFacts ==
  ASSUME NEW ev \in Evaluations
  PROVE  /\ ev.event \in Event /\ ev.at \in Time /\ ev.stage \in Stages
         /\ ev.event.family \in {"lowcap", "shadow"}
         /\ Suppressed(ev) <=> ev.stage \in {"dedupe", "cooldown", "batch_debounce"}
         /\ ev.stage # "none" => ~Routed(ev) /\ ev.effect = "no_write"
         /\ ev.route \in Routes /\ ev.effect = WriteEffect(ev.event, ev.route)
<1>1. /\ ev.event \in Event /\ ev.at \in Time /\ ev.stage \in Stages /\ ev.route \in Routes
      /\ ev.kind = SuppressionKind(ev.stage, ev.event)
      /\ ev.stage # "none" => ev.route = "no_model"
      /\ ev.effect = WriteEffect(ev.event, ev.route)
  BY DEF Evaluations
<1>2. ev.event.family \in {"lowcap", "shadow"}
  BY <1>1, EventAssumption DEF IsEvent, Families
<1>3. Suppressed(ev) <=> ev.stage \in {"dedupe", "cooldown", "batch_debounce"}
  BY <1>1, KindFacts DEF Suppressed
<1>4. ev.route = "no_model" => ev.effect = "no_write"
  BY <1>1 DEF WriteEffect
<1> QED
  BY <1>1, <1>2, <1>3, <1>4 DEF Routed

LEMMA HunterMoves ==
  ASSUME NEW before \in HunterStatus, NEW ev \in Evaluations, NEW after,
         after = HunterTransition(before, ev).after
  PROVE  /\ after \in HunterStatus
         /\ before \in HunterTerminal => after = before
         /\ ~Lowcap(ev.event) => after = before
         /\ Suppressed(ev) => after = before
         /\ Lowcap(ev.event) /\ ev.stage \in OnItsOwn => after \in HunterTerminal
         /\ after # before /\ after # "rejected" =>
              /\ ev.stage = "none" /\ ev.event.family = "lowcap" /\ before \notin HunterTerminal
              /\ after = HunterNext(before, ev)
<1>1. /\ ev.stage \in Stages /\ ev.event.family \in {"lowcap", "shadow"}
      /\ Suppressed(ev) <=> ev.stage \in {"dedupe", "cooldown", "batch_debounce"}
  BY EventFacts
<1>2. CASE ev.event.family # "lowcap"
  BY <1>2 DEF HunterTransition, Invalid, Lowcap
<1>3. CASE ev.event.family = "lowcap" /\ Suppressed(ev)
  <2>1. after = before
    BY <1>3 DEF HunterTransition, Blocked
  <2> QED
    BY <1>1, <1>3, <2>1 DEF Lowcap, OnItsOwn
<1>4. CASE ev.event.family = "lowcap" /\ ~Suppressed(ev) /\ before \in HunterTerminal
  <2>1. after = before
    BY <1>4 DEF HunterTransition, Invalid, Unmoved
  <2> QED
    BY <1>4, <2>1
<1>5. CASE ev.event.family = "lowcap" /\ ~Suppressed(ev) /\ before \notin HunterTerminal
  <2>1. after = (IF ev.stage # "none" THEN Applied("rejected")
                 ELSE Moved(before, HunterNext(before, ev))).after
    BY <1>5 DEF HunterTransition
  <2>2. CASE ev.stage # "none"
    <3>1. after = "rejected"
      BY <2>1, <2>2 DEF Applied
    <3> QED
      BY <1>5, <3>1 DEF HunterStatus, HunterTerminal, Lowcap
  <2>3. CASE ev.stage = "none"
    <3>1. PICK next : next = HunterNext(before, ev)
      OBVIOUS
    <3>2. after = next
      BY <2>1, <2>3, <3>1 DEF Moved, Unmoved, Applied
    <3>3. next \in HunterStatus
      <4>1. CASE before = "modeled"
        <5>1. next = CASE ev.effect = "watchlist_update" -> "watchlisted"
                       [] ev.effect = "review_queue_insert" -> "review_queue"
                       [] OTHER -> "modeled"
          BY <3>1, <4>1 DEF HunterNext
        <5> QED
          BY <5>1 DEF HunterStatus
      <4>2. CASE before = "screened"
        <5>1. next = CASE ev.route = "small" -> "candidate"
                       [] ev.route = "deep" -> "promoted"
                       [] OTHER -> "screened"
          BY <3>1, <4>2 DEF HunterNext
        <5> QED
          BY <5>1 DEF HunterStatus
      <4>3. CASE before \in {"observed", "candidate", "promoted"}
        BY <3>1, <4>3 DEF HunterNext, HunterStatus
      <4> QED
        BY <1>5, <4>1, <4>2, <4>3 DEF HunterStatus, HunterTerminal
    <3> QED
      BY <1>5, <2>3, <3>1, <3>2, <3>3 DEF OnItsOwn, Lowcap
  <2> QED
    BY <2>2, <2>3
<1> QED
  BY <1>2, <1>3, <1>4, <1>5

LEMMA ShadowMoves ==
  ASSUME NEW before \in ShadowStatus, NEW ev \in Evaluations, NEW after,
         after = ShadowTransition(before, ev).after
  PROVE  /\ after \in ShadowStatus
         /\ before \in ShadowTerminal => after = before
         /\ Lowcap(ev.event) => after = before
         /\ Suppressed(ev) => after = before
         /\ ~Lowcap(ev.event) /\ ev.stage \in OnItsOwn => after \in ShadowTerminal
         /\ after # before /\ after = "updated_case" =>
              /\ ev.stage = "none" /\ ev.event.family = "shadow"
              /\ ev.route = "deep"
<1>1. /\ ev.stage \in Stages /\ ev.event.family \in {"lowcap", "shadow"}
      /\ Suppressed(ev) <=> ev.stage \in {"dedupe", "cooldown", "batch_debounce"}
      /\ ev.route \in Routes /\ ev.effect = WriteEffect(ev.event, ev.route)
  BY EventFacts
<1>2. CASE ev.event.family # "shadow"
  BY <1>1, <1>2 DEF ShadowTransition, Invalid, Lowcap
<1>3. CASE ev.event.family = "shadow" /\ Suppressed(ev)
  <2>1. after = before
    BY <1>3 DEF ShadowTransition, Blocked
  <2> QED
    BY <1>1, <1>3, <2>1 DEF Lowcap, OnItsOwn
<1>4. CASE ev.event.family = "shadow" /\ ~Suppressed(ev) /\ before \in ShadowTerminal
  <2>1. after = before
    BY <1>4 DEF ShadowTransition, Invalid, Unmoved
  <2> QED
    BY <1>4, <2>1
<1>5. CASE ev.event.family = "shadow" /\ ~Suppressed(ev) /\ before \notin ShadowTerminal
           /\ AlertSignal(ev)
  <2>1. after = "alert"
    BY <1>5 DEF ShadowTransition, Applied
  <2> QED
    BY <1>5, <2>1 DEF ShadowStatus, ShadowTerminal, Lowcap
<1>6. CASE ev.event.family = "shadow" /\ ~Suppressed(ev) /\ before \notin ShadowTerminal
           /\ ~AlertSignal(ev)
  <2>1. after = (IF ev.stage # "none" THEN Applied("review_queue")
                 ELSE Moved(before, ShadowNext(before, ev))).after
    BY <1>6 DEF ShadowTransition
  <2>2. CASE ev.stage # "none"
    <3>1. after = "review_queue"
      BY <2>1, <2>2 DEF Applied
    <3> QED
      BY <1>6, <3>1 DEF ShadowStatus, ShadowTerminal, Lowcap
  <2>3. CASE ev.stage = "none"
    <3>1. PICK next : next = ShadowNext(before, ev)
      OBVIOUS
    <3>2. after = next
      BY <2>1, <2>3, <3>1 DEF Moved, Unmoved, Applied
    <3>3. /\ next \in ShadowStatus
          /\ next = "updated_case" /\ before # "updated_case" => ev.effect = "case_update"
      BY <1>6, <3>1 DEF ShadowNext, ShadowStatus, ShadowTerminal
    <3>4. ev.effect = "case_update" => ev.route = "deep"
      BY <1>1 DEF WriteEffect, Routes
    <3> QED
      BY <1>6, <2>3, <3>2, <3>3, <3>4 DEF OnItsOwn, Lowcap
  <2> QED
    BY <2>2, <2>3
<1> QED
  BY <1>2, <1>3, <1>4, <1>5, <1>6

LEMMA WorkersStep ==
  ASSUME GateInv, NEW e \in Event, NEW t \in Time, Evaluate(e, t)
  PROVE  WorkerTypes' /\ WorkersStopped'
<1>1. GateTypes /\ LogTypes /\ RecordsLeft /\ WorkerTypes /\ WorkersStopped
  BY DEF GateInv
<1>2. PICK ev : ev = Evaluation(gate, e, t)
  OBVIOUS
<1>3. PICK n \in Nat \ {0} :
           /\ DOMAIN log = 1 .. (n - 1) /\ DOMAIN log' = 1 .. n
           /\ \A i \in DOMAIN log : log'[i] = log[i] /\ log[i].evaluation \in Evaluations
           /\ log'[n].evaluation = ev
  BY <1>1, <1>2, LogStep
<1>4. ev \in Evaluations
  BY <1>1, <1>2, EvaluationFacts
<1>5. /\ hunter' = HunterTransition(hunter, ev).after
      /\ shadow' = ShadowTransition(shadow, ev).after
  BY <1>2 DEF Evaluate
<1>6. /\ hunter' \in HunterStatus
      /\ hunter \in HunterTerminal => hunter' = hunter
      /\ Lowcap(ev.event) /\ ev.stage \in OnItsOwn => hunter' \in HunterTerminal
  BY <1>1, <1>4, <1>5, HunterMoves DEF WorkerTypes
<1>7. /\ shadow' \in ShadowStatus
      /\ shadow \in ShadowTerminal => shadow' = shadow
      /\ ~Lowcap(ev.event) /\ ev.stage \in OnItsOwn => shadow' \in ShadowTerminal
  BY <1>1, <1>4, <1>5, ShadowMoves DEF WorkerTypes
<1>8. ASSUME NEW i \in DOMAIN log', log'[i].evaluation.stage \in OnItsOwn
      PROVE  IF Lowcap(log'[i].evaluation.event)
             THEN hunter' \in HunterTerminal ELSE shadow' \in ShadowTerminal
  <2>1. CASE i \in DOMAIN log
    <3>1. log'[i] = log[i]
      BY <1>3, <2>1
    <3>2. IF Lowcap(log[i].evaluation.event)
          THEN hunter \in HunterTerminal ELSE shadow \in ShadowTerminal
      BY <1>1, <1>8, <2>1, <3>1 DEF WorkersStopped
    <3> QED
      BY <1>6, <1>7, <3>1, <3>2
  <2>2. CASE i \notin DOMAIN log
    <3>1. i = n
      BY <1>3, <2>2
    <3> QED
      BY <1>3, <1>6, <1>7, <1>8, <3>1
  <2> QED
    BY <2>1, <2>2
<1> QED
  BY <1>6, <1>7, <1>8 DEF WorkerTypes, WorkersStopped

LEMMA AddOne ==
  ASSUME NEW m \in Nat, NEW S, S \subseteq 1 .. m
  PROVE  /\ Cardinality(S) \in Nat
         /\ Cardinality(S \cup {m + 1}) = Cardinality(S) + 1
<1>1. IsFiniteSet(1 .. m)
  BY FS_Interval
<1>2. IsFiniteSet(S)
  BY <1>1, FS_Subset
<1>3. m + 1 \notin S
  OBVIOUS
<1> QED
  BY <1>2, <1>3, FS_AddElement, FS_CardinalityType

LEMMA PassedStep ==
  ASSUME GateInv, NEW e \in Event, NEW t \in Time, Evaluate(e, t),
         NEW ev, ev = Evaluation(gate, e, t), NEW f
  PROVE  /\ Cardinality(Passed(f)) \in Nat /\ Cardinality(PassedAndRan(f)) \in Nat
         /\ IF ev.stage = "none" /\ ev.event.family = f
            THEN Cardinality(Passed(f)') = Cardinality(Passed(f)) + 1
            ELSE Cardinality(Passed(f)') = Cardinality(Passed(f))
         /\ IF ev.stage = "none" /\ ev.event.family = f /\ Ran(ev)
            THEN Cardinality(PassedAndRan(f)') = Cardinality(PassedAndRan(f)) + 1
            ELSE Cardinality(PassedAndRan(f)') = Cardinality(PassedAndRan(f))
         /\ RanDeep(f) # {} => RanDeep(f)' # {}
         /\ ev.stage = "none" /\ ev.event.family = f /\ ev.route = "deep" => RanDeep(f)' # {}
<1>1. GateTypes /\ LogTypes /\ RecordsLeft
  BY DEF GateInv
<1>2. PICK n \in Nat \ {0} :
           /\ DOMAIN log = 1 .. (n - 1) /\ DOMAIN log' = 1 .. n
           /\ \A i \in DOMAIN log : log'[i] = log[i] /\ log[i].evaluation \in Evaluations
           /\ log'[n].evaluation = ev
  BY <1>1, LogStep
<1>3. PICK m \in Nat : m = n - 1 /\ n = m + 1
  BY <1>2
<1>4. Passed(f) \subseteq 1 .. m /\ PassedAndRan(f) \subseteq 1 .. m
  BY <1>2, <1>3 DEF Passed, PassedAndRan
<1>5. Passed(f)' = IF ev.stage = "none" /\ ev.event.family = f
                   THEN Passed(f) \cup {m + 1} ELSE Passed(f)
  BY <1>2, <1>3 DEF Passed
<1>6. PassedAndRan(f)' = IF ev.stage = "none" /\ ev.event.family = f /\ Ran(ev)
                         THEN PassedAndRan(f) \cup {m + 1} ELSE PassedAndRan(f)
  <2>1. \A i \in DOMAIN log : Ran(log'[i].evaluation) <=> Ran(log[i].evaluation)
    BY <1>2
  <2>2. \A i \in PassedAndRan(f)' : i \in Passed(f)' /\ Ran(log'[i].evaluation)
    BY DEF PassedAndRan, Ran
  <2>3. \A i \in Passed(f)' : Ran(log'[i].evaluation) => i \in PassedAndRan(f)'
    BY DEF PassedAndRan, Ran
  <2>4. \A i : i \in PassedAndRan(f)' <=> i \in Passed(f)' /\ Ran(log'[i].evaluation)
    BY <2>2, <2>3
  <2>5. \A i : i \in PassedAndRan(f) <=> i \in Passed(f) /\ Ran(log[i].evaluation)
    BY DEF PassedAndRan
  <2>6. \A i \in Passed(f) : i \in DOMAIN log
    BY DEF Passed
  <2>7. \A i : i \in PassedAndRan(f)' <=>
                 i \in (IF ev.stage = "none" /\ ev.event.family = f /\ Ran(ev)
                        THEN PassedAndRan(f) \cup {m + 1} ELSE PassedAndRan(f))
    BY <1>2, <1>3, <1>5, <2>1, <2>4, <2>5, <2>6
  <2> QED
    BY <2>7
<1>7. /\ RanDeep(f) # {} => RanDeep(f)' # {}
      /\ ev.stage = "none" /\ ev.event.family = f /\ ev.route = "deep" => RanDeep(f)' # {}
  <2>1. \A i \in Passed(f) : i \in Passed(f)' /\ log'[i] = log[i]
    BY <1>2, <1>5 DEF Passed
  <2>2. ev.stage = "none" /\ ev.event.family = f => n \in Passed(f)'
    BY <1>3, <1>5
  <2> QED
    BY <1>2, <2>1, <2>2 DEF RanDeep
<1> QED
  BY <1>4, <1>5, <1>6, <1>7, AddOne

Earnings == HunterEarned /\ (shadow = "updated_case" => RanDeep("shadow") # {})

LEMMA EarnedStep ==
  ASSUME GateInv, NEW e \in Event, NEW t \in Time, Evaluate(e, t)
  PROVE  Earnings'
<1>1. GateTypes /\ LogTypes /\ RecordsLeft /\ WorkerTypes /\ Earnings
  BY DEF GateInv, Earnings
<1>2. PICK ev : ev = Evaluation(gate, e, t)
  OBVIOUS
<1>3. ev \in Evaluations
  BY <1>1, <1>2, EvaluationFacts
<1>4. /\ hunter' = HunterTransition(hunter, ev).after
      /\ shadow' = ShadowTransition(shadow, ev).after
  BY <1>2 DEF Evaluate
<1>5. /\ hunter' \in HunterStatus
      /\ hunter' # hunter /\ hunter' # "rejected" =>
           /\ ev.stage = "none" /\ ev.event.family = "lowcap" /\ hunter \notin HunterTerminal
           /\ hunter' = HunterNext(hunter, ev)
  BY <1>1, <1>3, <1>4, HunterMoves DEF WorkerTypes
<1>6. PICK p, r, P, R :
         /\ p = Cardinality(Passed("lowcap")) /\ P = Cardinality(Passed("lowcap")')
         /\ r = Cardinality(PassedAndRan("lowcap")) /\ R = Cardinality(PassedAndRan("lowcap")')
  OBVIOUS
<1>7. /\ p \in Nat /\ r \in Nat
      /\ P = IF ev.stage = "none" /\ ev.event.family = "lowcap" THEN p + 1 ELSE p
      /\ R = IF ev.stage = "none" /\ ev.event.family = "lowcap" /\ Ran(ev) THEN r + 1 ELSE r
      /\ RanDeep("lowcap") # {} => RanDeep("lowcap")' # {}
      /\ ev.stage = "none" /\ ev.event.family = "lowcap" /\ ev.route = "deep"
           => RanDeep("lowcap")' # {}
  BY <1>2, <1>6, PassedStep
<1>8. /\ ev.route \in Routes
      /\ ev.effect \in {"watchlist_update", "review_queue_insert"} => Ran(ev)
      /\ Ran(ev) <=> ev.route # "no_model"
  BY <1>3, EventFacts DEF WriteEffect, Routes, Ran
<1>9. /\ hunter = "screened" => p >= 1
      /\ hunter = "candidate" => p >= 2 /\ r >= 1
      /\ hunter \in {"promoted", "modeled", "watchlisted", "review_queue"} => RanDeep("lowcap") # {}
      /\ hunter = "promoted" => p >= 2 /\ r >= 1
      /\ hunter = "modeled" => p >= 3 /\ r >= 2
      /\ hunter \in {"watchlisted", "review_queue"} => p >= 4 /\ r >= 3
  BY <1>1, <1>6 DEF Earnings, HunterEarned
<1>10. /\ hunter' = "screened" => P >= 1
       /\ hunter' = "candidate" => P >= 2 /\ R >= 1
       /\ hunter' \in {"promoted", "modeled", "watchlisted", "review_queue"} =>
            RanDeep("lowcap")' # {}
       /\ hunter' = "promoted" => P >= 2 /\ R >= 1
       /\ hunter' = "modeled" => P >= 3 /\ R >= 2
       /\ hunter' \in {"watchlisted", "review_queue"} => P >= 4 /\ R >= 3
  <2>1. CASE hunter' = hunter
    BY <1>7, <1>9, <2>1
  <2>2. CASE hunter' = "rejected"
    BY <2>2
  <2>3. CASE hunter' # hunter /\ hunter' # "rejected"
    <3>1. /\ P = p + 1 /\ R = (IF Ran(ev) THEN r + 1 ELSE r)
          /\ ev.route = "deep" => RanDeep("lowcap")' # {}
          /\ hunter' = HunterNext(hunter, ev)
      BY <1>5, <1>7, <2>3
    <3>2. CASE hunter = "observed"
      <4>1. hunter' = "screened"
        BY <3>1, <3>2 DEF HunterNext
      <4> QED
        BY <1>7, <3>1, <4>1
    <3>3. CASE hunter = "screened"
      <4>1. hunter' = CASE ev.route = "small" -> "candidate"
                        [] ev.route = "deep" -> "promoted"
                        [] OTHER -> "screened"
        BY <3>1, <3>3 DEF HunterNext
      <4>2. \/ hunter' = "candidate" /\ Ran(ev)
            \/ hunter' = "promoted" /\ Ran(ev) /\ ev.route = "deep"
        BY <1>8, <2>3, <3>3, <4>1 DEF Routes
      <4> QED
        BY <1>7, <1>9, <3>1, <3>3, <4>2
    <3>4. CASE hunter = "candidate"
      <4>1. hunter' = "promoted" /\ ev.route = "deep"
        BY <2>3, <3>1, <3>4 DEF HunterNext
      <4> QED
        BY <1>7, <1>9, <3>1, <3>4, <4>1
    <3>5. CASE hunter = "promoted"
      <4>1. hunter' = "modeled" /\ Ran(ev)
        BY <1>8, <2>3, <3>1, <3>5 DEF HunterNext, Routed
      <4> QED
        BY <1>7, <1>9, <3>1, <3>5, <4>1
    <3>6. CASE hunter = "modeled"
      <4>1. hunter' = CASE ev.effect = "watchlist_update" -> "watchlisted"
                        [] ev.effect = "review_queue_insert" -> "review_queue"
                        [] OTHER -> "modeled"
        BY <3>1, <3>6 DEF HunterNext
      <4>2. hunter' \in {"watchlisted", "review_queue"} /\ Ran(ev)
        BY <1>8, <2>3, <3>6, <4>1
      <4> QED
        BY <1>7, <1>9, <3>1, <3>6, <4>2
    <3> QED
      BY <1>1, <1>5, <2>3, <3>2, <3>3, <3>4, <3>5, <3>6 DEF WorkerTypes, HunterStatus, HunterTerminal
  <2> QED
    BY <2>1, <2>2, <2>3
<1>11. shadow' = "updated_case" => RanDeep("shadow")' # {}
  <2>1. shadow' # shadow /\ shadow' = "updated_case" =>
          ev.stage = "none" /\ ev.event.family = "shadow" /\ ev.route = "deep"
    BY <1>1, <1>3, <1>4, ShadowMoves DEF WorkerTypes
  <2>2. /\ RanDeep("shadow") # {} => RanDeep("shadow")' # {}
        /\ ev.stage = "none" /\ ev.event.family = "shadow" /\ ev.route = "deep"
             => RanDeep("shadow")' # {}
    BY <1>2, PassedStep
  <2> QED
    BY <1>1, <2>1, <2>2 DEF Earnings
<1>12. HunterEarned'
  BY <1>6, <1>10 DEF HunterEarned
<1> QED
  BY <1>11, <1>12 DEF Earnings

LEMMA CadenceStep ==
  ASSUME GateInv, NEW e \in Event, NEW t \in Time, Evaluate(e, t)
  PROVE  LogTypes' /\ CadenceCoversSuppression'
<1>1. GateTypes /\ LogTypes /\ RecordsLeft /\ CadenceCoversSuppression
  BY DEF GateInv
<1>2. PICK ev : ev = Evaluation(gate, e, t)
  OBVIOUS
<1>3. PICK n \in Nat \ {0} :
           /\ DOMAIN log = 1 .. (n - 1) /\ DOMAIN log' = 1 .. n
           /\ \A i \in DOMAIN log : log'[i] = log[i] /\ log[i].evaluation \in Evaluations
           /\ log'[n].evaluation = ev
           /\ log'[n].poll = PollingInterval(gate, ev, StatusFor(e))
           /\ LogTypes'
  BY <1>1, <1>2, LogStep
<1>4. ev \in Evaluations
  BY <1>1, <1>2, EvaluationFacts
<1>5. HeldBack(ev) =>
        \/ log'[n].poll >= ev.until - ev.at
        \/ log'[n].poll = 120
        \/ \E k \in DOMAIN log : LET left == LeftBy(log[k].evaluation, ev.kind)
                                 IN  left.key = ev.key /\ left.ends < ev.until
  BY <1>1, <1>3, <1>4, PollFacts
<1>6. ASSUME NEW i \in DOMAIN log', HeldBack(log'[i].evaluation)
      PROVE  \/ log'[i].poll >= log'[i].evaluation.until - log'[i].evaluation.at
             \/ log'[i].poll = 120
             \/ \E k \in 1 .. (i - 1) :
                  LET left == LeftBy(log'[k].evaluation, log'[i].evaluation.kind)
                  IN  left.key = log'[i].evaluation.key /\ left.ends < log'[i].evaluation.until
  <2>1. CASE i \in DOMAIN log
    <3>1. log'[i] = log[i] /\ \A k \in 1 .. (i - 1) : log'[k] = log[k]
      BY <1>3, <2>1
    <3>2. \/ log[i].poll >= log[i].evaluation.until - log[i].evaluation.at
          \/ log[i].poll = 120
          \/ \E k \in 1 .. (i - 1) :
               LET left == LeftBy(log[k].evaluation, log[i].evaluation.kind)
               IN  left.key = log[i].evaluation.key /\ left.ends < log[i].evaluation.until
      BY <1>1, <1>6, <2>1, <3>1 DEF CadenceCoversSuppression
    <3> QED
      BY <3>1, <3>2
  <2>2. CASE i \notin DOMAIN log
    <3>1. i = n
      BY <1>3, <2>2
    <3>2. \A k \in DOMAIN log : k \in 1 .. (i - 1) /\ log'[k] = log[k]
      BY <1>3, <3>1
    <3> QED
      BY <1>3, <1>5, <1>6, <3>1, <3>2
  <2> QED
    BY <2>1, <2>2
<1>7. CadenceCoversSuppression'
  BY <1>6 DEF CadenceCoversSuppression
<1> QED
  BY <1>3, <1>7

LEMMA GateInitially == Init => GateInv
<1> SUFFICES ASSUME Init PROVE GateInv
  OBVIOUS
<1>1. /\ gate = [dedupe |-> <<>>, cooldown |-> <<>>, batch |-> <<>>]
      /\ hunter = "observed" /\ shadow = "watching" /\ log = <<>>
  BY DEF Init, EmptyGate
<1>2. /\ gate.dedupe = <<>> /\ gate.cooldown = <<>> /\ gate.batch = <<>>
      /\ DOMAIN gate.dedupe = {} /\ DOMAIN gate.cooldown = {} /\ DOMAIN gate.batch = {}
      /\ DOMAIN log = {}
  BY <1>1
<1>3. GateTypes /\ LogTypes
  BY <1>1 DEF GateTypes, LogTypes
<1>4. WorkerTypes
  BY <1>1 DEF WorkerTypes, HunterStatus, ShadowStatus
<1>5. DedupeRecorded /\ CooldownRecorded /\ RecordsLeft /\ WorkersStopped
  BY <1>2 DEF DedupeRecorded, CooldownRecorded, RecordsLeft, WorkersStopped
<1>6. RunsJustified /\ CadenceCoversSuppression
  BY <1>2 DEF RunsJustified, RunsSpaced, DeferredNeverRuns, CadenceCoversSuppression
<1>7. HunterEarned /\ (shadow = "updated_case" => RanDeep("shadow") # {})
  BY <1>1 DEF HunterEarned
<1> QED
  BY <1>3, <1>4, <1>5, <1>6, <1>7 DEF GateInv

LEMMA GateKept == GateInv /\ [Next]_vars => GateInv'
<1> SUFFICES ASSUME GateInv, [Next]_vars PROVE GateInv'
  OBVIOUS
<1>1. ASSUME NEW e \in Event, NEW t \in Time, Evaluate(e, t)
      PROVE  GateInv'
  <2>1. GateTypes' /\ DedupeRecorded' /\ CooldownRecorded' /\ RecordsLeft'
    BY <1>1, RecordedStep
  <2>2. RunsJustified'
    BY <1>1, RunsStep
  <2>3. WorkerTypes' /\ WorkersStopped'
    BY <1>1, WorkersStep
  <2>4. Earnings'
    BY <1>1, EarnedStep
  <2>5. LogTypes' /\ CadenceCoversSuppression'
    BY <1>1, CadenceStep
  <2> QED
    BY <2>1, <2>2, <2>3, <2>4, <2>5 DEF GateInv, Earnings
<1>2. CASE UNCHANGED vars
  <2>1. gate' = gate /\ hunter' = hunter /\ shadow' = shadow /\ log' = log
    BY <1>2 DEF vars
  <2>2. GateTypes' /\ LogTypes' /\ WorkerTypes'
    BY <2>1 DEF GateInv, GateTypes, LogTypes, WorkerTypes
  <2>3. DedupeRecorded' /\ CooldownRecorded' /\ RecordsLeft' /\ WorkersStopped'
    BY <2>1 DEF GateInv, DedupeRecorded, CooldownRecorded, RecordsLeft, WorkersStopped
  <2>4. RunsJustified'
    BY <2>1 DEF GateInv, RunsJustified, RunsSpaced, DeferredNeverRuns
  <2>5. CadenceCoversSuppression'
    BY <2>1 DEF GateInv, CadenceCoversSuppression
  <2>6. Earnings'
    <3>1. /\ Passed("lowcap")' = Passed("lowcap") /\ PassedAndRan("lowcap")' = PassedAndRan("lowcap")
          /\ RanDeep("lowcap")' = RanDeep("lowcap") /\ RanDeep("shadow")' = RanDeep("shadow")
      BY <2>1 DEF Passed, PassedAndRan, RanDeep
    <3> QED
      BY <2>1, <3>1 DEF GateInv, Earnings, HunterEarned
  <2> QED
    BY <2>2, <2>3, <2>4, <2>5, <2>6 DEF GateInv, Earnings
<1> QED
  BY <1>1, <1>2 DEF Next

LEMMA GateAlways == Spec => []GateInv
<1> QED
  BY GateInitially, GateKept, PTL DEF Spec

(* The gate's records, the log and the statuses keep their types: a dedupe  *)
(* or cooldown record runs out after the event it was left by, a batch      *)
(* holds at least one event, and a cadence is between 5 and 120.            *)
THEOREM GateTypesKept == Spec => []TypeOK
<1>1. ASSUME GateInv PROVE TypeOK
  <2>1. hunter \in HunterStatus /\ shadow \in ShadowStatus
    BY <1>1 DEF GateInv, WorkerTypes
  <2>2. /\ gate.dedupe \in Seq(DedupeRecord) /\ gate.cooldown \in Seq(CooldownRecord)
        /\ gate.batch \in Seq(Batch)
    BY <1>1 DEF GateInv, GateTypes
  <2>3. ASSUME NEW i \in DOMAIN gate.dedupe
        PROVE  gate.dedupe[i].expiresAt > gate.dedupe[i].basis[2]
    <3>1. gate.dedupe[i] \in DedupeRecord
      BY <2>2, <2>3
    <3>2. PICK o \in Occurrence :
            gate.dedupe[i] = [key |-> DedupeKey(o[1], o[2]), basis |-> o,
                              expiresAt |-> o[2] + DedupeWindow(o[1])]
      BY <3>1 DEF DedupeRecord
    <3>3. o[1] \in Event /\ o[2] \in Nat
      BY EventAssumption DEF Occurrence
    <3>4. DedupeWindow(o[1]) \in Nat \ {0}
      BY <3>3, Windows
    <3> QED
      BY <3>2, <3>3, <3>4
  <2>4. ASSUME NEW i \in DOMAIN gate.cooldown
        PROVE  gate.cooldown[i].expiresAt > gate.cooldown[i].at
    <3>1. gate.cooldown[i] \in CooldownRecord
      BY <2>2, <2>4
    <3>2. PICK o \in Occurrence :
            gate.cooldown[i] = [key |-> CooldownKey(o[1]), at |-> o[2],
                                expiresAt |-> o[2] + CooldownWindow(o[1])]
      BY <3>1 DEF CooldownRecord
    <3>3. o[1] \in Event /\ o[2] \in Nat
      BY EventAssumption DEF Occurrence
    <3>4. CooldownWindow(o[1]) \in Nat \ {0}
      BY <3>3, Windows
    <3> QED
      BY <3>2, <3>3, <3>4
  <2>5. ASSUME NEW i \in DOMAIN gate.batch
        PROVE  /\ gate.batch[i].status \in {"pending", "released"}
               /\ gate.batch[i].count \in Nat \ {0}
    <3>1. gate.batch[i] \in Batch
      BY <2>2, <2>5
    <3>2. PICK b \in Batch : b = gate.batch[i]
      BY <3>1
    <3>3. b.count \in Nat \ {0} /\ b.status = "pending"
      BY DEF Batch
    <3> QED
      BY <3>2, <3>3
  <2>6. ASSUME NEW i \in DOMAIN log
        PROVE  log[i].poll \in 5 .. 120 /\ log[i].evaluation.event \in Event
    <3> DEFINE Logged == [evaluation : Evaluations, poll : 5 .. 120]
    <3>1. log \in Seq(Logged)
      BY <1>1 DEF GateInv, LogTypes
    <3> HIDE DEF Logged
    <3>2. log[i] \in Logged
      BY <2>6, <3>1
    <3>3. log[i].evaluation \in Evaluations /\ log[i].poll \in 5 .. 120
      BY <3>2 DEF Logged
    <3> QED
      BY <3>3 DEF Evaluations
  <2> QED
    BY <2>1, <2>3, <2>4, <2>5, <2>6 DEF TypeOK
<1> QED
  BY <1>1, GateAlways, PTL

-----------------------------------------------------------------------------
(* Whatever events arrive, in whatever order of their observedAt and        *)
(* however often: runs of one key are a whole cooldown apart, and nothing   *)
(* that was deferred ever runs.                                             *)
THEOREM RunsAlwaysJustified == Spec => []RunsJustified
<1>1. GateInv => RunsJustified
  BY DEF GateInv
<1> QED
  BY <1>1, GateAlways, PTL

(* No sequence of events brings a worker to a status it did not earn. *)
THEOREM StatusAlwaysEarned == Spec => []Earned
<1>1. ASSUME GateInv PROVE Earned
  <2>1. Cardinality(Passed("lowcap")) \in Nat
    <3>1. Len(log) \in Nat /\ DOMAIN log = 1 .. Len(log)
      BY <1>1 DEF GateInv, LogTypes
    <3> QED
      BY <3>1, AddOne DEF Passed
  <2> QED
    BY <1>1, <2>1 DEF GateInv, HunterEarned, Earned
<1> QED
  BY <1>1, GateAlways, PTL

(* The polling cadence outlasts the suppression it answers, or is at its    *)
(* longest, or was floored by an earlier record of the key.                 *)
THEOREM CadenceAlwaysCovers == Spec => []CadenceCoversSuppression
<1>1. GateInv => CadenceCoversSuppression
  BY DEF GateInv
<1> QED
  BY <1>1, GateAlways, PTL

(* A redelivered occurrence is a duplicate, or is stopped again by the      *)
(* stage that stopped it, which ended its worker then.                      *)
LEMMA RedeliveryUnmoved ==
  ASSUME GateInv, NEW e \in Event, NEW t \in Time, Evaluate(e, t)
  PROVE  (LET latest == log'[Len(log')].evaluation
          IN  \E ev \in Evaluated : ev.event = latest.event /\ ev.at = latest.at)
           => UNCHANGED <<hunter, shadow>>
<1>1. GateTypes /\ LogTypes /\ RecordsLeft /\ WorkerTypes /\ WorkersStopped /\ DedupeRecorded
  BY DEF GateInv
<1>2. PICK ev : ev = Evaluation(gate, e, t)
  OBVIOUS
<1>3. /\ log'[Len(log')].evaluation = ev
      /\ \A i \in DOMAIN log : log[i].evaluation \in Evaluations
  BY <1>1, <1>2, LogStep
<1>4. /\ ev \in Evaluations /\ ev.event = e /\ ev.at = t
      /\ ev.stage = BlockingStage(gate, e, t)
  BY <1>1, <1>2, EvaluationFacts
<1>5. /\ hunter' = HunterTransition(hunter, ev).after
      /\ shadow' = ShadowTransition(shadow, ev).after
  BY <1>2 DEF Evaluate
<1> SUFFICES ASSUME NEW i \in DOMAIN log,
                    log[i].evaluation.event = e, log[i].evaluation.at = t
             PROVE  hunter' = hunter /\ shadow' = shadow
  BY <1>3, <1>4 DEF Evaluated
<1>6. PICK a : a = log[i].evaluation
  OBVIOUS
<1>7. a \in Evaluations /\ a.event = e /\ a.at = t
  BY <1>3, <1>6
<1>8. /\ a.stage \in Stages
      /\ a.stage = "validity" <=> ~e.valid
      /\ a.stage = "integrity" <=> e.valid /\ ~IntegrityOk(e)
      /\ a.stage = "convergence_relevance" <=> e.valid /\ IntegrityOk(e) /\ ~Relevant(e)
  BY <1>7 DEF Evaluations
<1>9. CASE a.stage \in OnItsOwn
  <2>1. IF Lowcap(e) THEN hunter \in HunterTerminal ELSE shadow \in ShadowTerminal
    BY <1>1, <1>6, <1>7, <1>9 DEF WorkersStopped
  <2> QED
    BY <1>1, <1>4, <1>5, <2>1, HunterMoves, ShadowMoves DEF WorkerTypes
<1>10. CASE a.stage \notin OnItsOwn
  <2>1. Acceptable(e)
    BY <1>8, <1>10 DEF Acceptable, OnItsOwn
  <2>2. PICK d \in DOMAIN gate.dedupe : gate.dedupe[d].basis = <<e, t>>
    BY <1>1, <1>6, <1>7, <1>10 DEF DedupeRecorded
  <2>3. gate.dedupe[d] \in DedupeRecord
    BY <1>1 DEF GateTypes
  <2>4. PICK f \in Event, u \in Time :
          gate.dedupe[d] = [key |-> DedupeKey(f, u), basis |-> <<f, u>>,
                            expiresAt |-> u + DedupeWindow(f)]
    BY <2>3, RecordTypes
  <2>5. f = e /\ u = t
    BY <2>2, <2>4
  <2>6. gate.dedupe[d].key = DedupeKey(e, t) /\ gate.dedupe[d].expiresAt = t + DedupeWindow(e)
    BY <2>4, <2>5
  <2>7. t + DedupeWindow(e) > t
    BY EventAssumption, Windows
  <2>8. ActiveDuplicate(gate, e, t) # 0
    BY <1>1, <2>2, <2>6, <2>7, RecordsFound
  <2>9. ev.stage = "dedupe"
    BY <1>4, <2>1, <2>8, StageFacts
  <2>10. Suppressed(ev)
    BY <1>4, <2>9, EventFacts
  <2> QED
    BY <1>1, <1>4, <1>5, <2>10, HunterMoves, ShadowMoves DEF WorkerTypes
<1> QED
  BY <1>9, <1>10

(* Delivering an occurrence again, at any later point, moves neither worker. *)
THEOREM RedeliveryNeverMoves == Spec => RedeliveryMovesNothing
<1>1. GateInv /\ [Next]_vars =>
        [LET latest == log'[Len(log')].evaluation
         IN  (\E ev \in Evaluated : ev.event = latest.event /\ ev.at = latest.at)
             => UNCHANGED <<hunter, shadow>>]_vars
  BY RedeliveryUnmoved DEF Next
<1> QED
  BY <1>1, GateAlways, PTL DEF Spec, RedeliveryMovesNothing
-----------------------------------------------------------------------------
(* The journal of an evaluation *)

LEMMA StagesListed ==
  /\ DOMAIN GateStages = 1 .. 8
  /\ GateStages[1] = "validity" /\ GateStages[2] = "integrity"
  /\ GateStages[3] = "convergence_relevance" /\ GateStages[4] = "dedupe"
  /\ GateStages[5] = "cooldown" /\ GateStages[6] = "batch_debounce"
  /\ GateStages[7] = "model_promotion" /\ GateStages[8] = "post_model_routing"
BY DEF GateStages, StageOrder, LaterStages

LEMMA SeqListed ==
  ASSUME NEW S, NEW n \in Nat, NEW s, s = [i \in 1 .. n |-> s[i]], \A i \in 1 .. n : s[i] \in S
  PROVE  s \in Seq(S)
<1>1. s \in [1 .. n -> S]
  OBVIOUS
<1> QED
  BY <1>1, SeqDef

LEMMA OneListed ==
  ASSUME NEW S, NEW x \in S
  PROVE  <<x>> \in Seq(S)
OBVIOUS

LEMMA ThreeListed ==
  ASSUME NEW S, NEW x \in S, NEW y \in S, NEW z \in S
  PROVE  <<x, y, z>> \in Seq(S)
OBVIOUS

(* What an entry is, by its place *)
LEMMA EntriesListed ==
  ASSUME NEW ev
  PROVE  LET entries == Entries(ev)
             last == Len(entries)
         IN  /\ IsBlocked(ev) => last = 13
             /\ ~IsBlocked(ev) => last = 12
             /\ DOMAIN entries = 1 .. last
             /\ entries[1].record = "event"
             /\ \A k \in 1 .. 8 : entries[k + 1] = GateEntry(ev, GateStages[k])
             /\ IsBlocked(ev) => entries[10] = [record |-> "suppression", stage |-> ev.stage]
             /\ entries[last - 2].record = "routing"
             /\ entries[last - 1].record = "model_result"
             /\ entries[last] = [record |-> "write_effect", effect |-> ev.effect]
<1> DEFINE first == EventEntry(ev)
           gates == GateEntries(ev)
           held == SuppressionEntries(ev)
           results == ResultEntries(ev)
<1>1. Len(first) = 1 /\ DOMAIN first = {1} /\ first[1].record = "event"
  BY DEF EventEntry
<1>2. /\ Len(gates) = 8 /\ DOMAIN gates = 1 .. 8
      /\ \A k \in 1 .. 8 : gates[k] = GateEntry(ev, GateStages[k])
  BY StagesListed DEF GateEntries
<1>3. /\ IsBlocked(ev) => Len(held) = 1 /\ held[1] = [record |-> "suppression", stage |-> ev.stage]
      /\ ~IsBlocked(ev) => Len(held) = 0
  BY DEF SuppressionEntries
<1>4. /\ Len(results) = 3
      /\ results[1].record = "routing" /\ results[2].record = "model_result"
      /\ results[3] = [record |-> "write_effect", effect |-> ev.effect]
  BY DEF ResultEntries
<1> DEFINE S == {first[1]} \cup {gates[k] : k \in 1 .. 8} \cup {held[1]}
                  \cup {results[k] : k \in 1 .. 3}
<1>5. first \in Seq(S)
  <2>1. first = <<first[1]>>
    BY DEF EventEntry
  <2>2. first[1] \in S
    OBVIOUS
  <2> HIDE DEF S
  <2>3. <<first[1]>> \in Seq(S)
    BY <2>2, OneListed
  <2> HIDE DEF first
  <2> QED
    BY <2>1, <2>3, Zenon
<1>6. gates \in Seq(S)
  <2>1. gates = [k \in 1 .. 8 |-> gates[k]]
    BY StagesListed DEF GateEntries
  <2>2. \A k \in 1 .. 8 : gates[k] \in S
    OBVIOUS
  <2> HIDE DEF S, gates
  <2> QED
    BY <2>1, <2>2, SeqListed
<1>7. held \in Seq(S)
  <2>1. held[1] \in S
    OBVIOUS
  <2>2. held = <<>> \/ held = <<held[1]>>
    BY DEF SuppressionEntries
  <2> HIDE DEF S
  <2>3. <<held[1]>> \in Seq(S) /\ <<>> \in Seq(S)
    BY <2>1, OneListed
  <2> HIDE DEF held
  <2> QED
    BY <2>2, <2>3, Zenon
<1>8. results \in Seq(S)
  <2>1. results = <<results[1], results[2], results[3]>>
    BY DEF ResultEntries
  <2>2. results[1] \in S /\ results[2] \in S /\ results[3] \in S
    OBVIOUS
  <2> HIDE DEF S
  <2>3. <<results[1], results[2], results[3]>> \in Seq(S)
    BY <2>2, ThreeListed
  <2> HIDE DEF results
  <2> QED
    BY <2>1, <2>3, Zenon
<1> HIDE DEF S, first, gates, held, results
<1> DEFINE two == first \o gates
           three == two \o held
           entries == three \o results
<1>9. /\ two \in Seq(S) /\ Len(two) = 9
      /\ two[1] = first[1] /\ \A k \in 1 .. 8 : two[k + 1] = gates[k]
  <2>1. /\ two \in Seq(S) /\ Len(two) = Len(first) + Len(gates)
        /\ \A i \in 1 .. Len(first) + Len(gates) :
             two[i] = IF i <= Len(first) THEN first[i] ELSE gates[i - Len(first)]
    BY <1>5, <1>6, ConcatProperties
  <2> HIDE DEF two
  <2> QED
    BY <1>1, <1>2, <2>1
<1> HIDE DEF two
<1>10. /\ three \in Seq(S) /\ Len(three) = 9 + Len(held)
       /\ \A i \in 1 .. 9 : three[i] = two[i]
       /\ IsBlocked(ev) => three[10] = held[1]
  <2>1. /\ three \in Seq(S) /\ Len(three) = Len(two) + Len(held)
        /\ \A i \in 1 .. Len(two) + Len(held) :
             three[i] = IF i <= Len(two) THEN two[i] ELSE held[i - Len(two)]
    BY <1>9, <1>7, ConcatProperties
  <2> HIDE DEF three
  <2> QED
    BY <1>9, <1>3, <2>1
<1> HIDE DEF three
<1>11. /\ entries \in Seq(S) /\ Len(entries) = Len(three) + 3
       /\ \A i \in 1 .. Len(three) : entries[i] = three[i]
       /\ \A i \in 1 .. 3 : entries[Len(three) + i] = results[i]
  <2>0. three \in Seq(S)
    BY <1>10
  <2>1. /\ entries \in Seq(S) /\ Len(entries) = Len(three) + Len(results)
        /\ \A i \in 1 .. Len(three) + Len(results) :
             entries[i] = IF i <= Len(three) THEN three[i] ELSE results[i - Len(three)]
    BY <2>0, <1>8, ConcatProperties
  <2>2. Len(three) \in Nat
    BY <1>10, LenProperties
  <2>3. Len(results) = 3
    BY <1>4
  <2> HIDE DEF entries
  <2> QED
    BY <2>1, <2>2, <2>3
<1>12. entries = Entries(ev)
  BY DEF Entries, entries, three, two, first, gates, held, results
<1> HIDE DEF entries
<1>13. /\ IsBlocked(ev) => Len(three) = 10
       /\ ~IsBlocked(ev) => Len(three) = 9
  <2>1. CASE IsBlocked(ev)
    <3>1. Len(held) = 1
      BY <2>1, <1>3, Zenon
    <3>2. Len(three) = 10
      BY <3>1, <1>10
    <3> QED
      BY <2>1, <3>2, Zenon
  <2>2. CASE ~IsBlocked(ev)
    <3>1. Len(held) = 0
      BY <2>2, <1>3, Zenon
    <3>2. Len(three) = 9
      BY <3>1, <1>10
    <3> QED
      BY <2>2, <3>2, Zenon
  <2> QED
    BY <2>1, <2>2, Zenon
<1>14. Len(three) \in {9, 10}
  BY <1>13, Zenon
<1>15. /\ DOMAIN entries = 1 .. Len(entries)
       /\ Len(entries) = Len(three) + 3
  BY <1>11, LenProperties
<1>16. /\ IsBlocked(ev) => Len(entries) = 13
       /\ ~IsBlocked(ev) => Len(entries) = 12
  <2>1. Len(three) = 10 => Len(entries) = 13
    BY <1>15
  <2>2. Len(three) = 9 => Len(entries) = 12
    BY <1>15
  <2> QED
    BY <2>1, <2>2, <1>13, Zenon
<1>17. \A i \in 1 .. 9 : entries[i] = two[i]
  <2>1. \A i \in 1 .. 9 : entries[i] = three[i]
    BY <1>11, <1>14
  <2>2. \A i \in 1 .. 9 : three[i] = two[i]
    BY <1>10
  <2> QED
    BY <2>1, <2>2
<1>18. entries[1].record = "event"
  <2>1. entries[1] = first[1]
    BY <1>17, <1>9
  <2> QED
    BY <2>1, <1>1, Zenon
<1>19. \A k \in 1 .. 8 : entries[k + 1] = GateEntry(ev, GateStages[k])
  <2>1. \A k \in 1 .. 8 : entries[k + 1] = gates[k]
    BY <1>17, <1>9
  <2> QED
    BY <2>1, <1>2, Zenon
<1>20. IsBlocked(ev) => entries[10] = [record |-> "suppression", stage |-> ev.stage]
  <2>1. Len(three) = 10 => entries[10] = three[10]
    BY <1>11
  <2> QED
    BY <2>1, <1>13, <1>10, <1>3, Zenon
<1>21. /\ entries[Len(entries) - 2] = results[1] /\ entries[Len(entries) - 1] = results[2]
       /\ entries[Len(entries)] = results[3]
  BY <1>11, <1>14
<1>22. /\ entries[Len(entries) - 2].record = "routing" /\ entries[Len(entries) - 1].record = "model_result"
       /\ entries[Len(entries)] = [record |-> "write_effect", effect |-> ev.effect]
  BY <1>21, <1>4, Zenon
<1> QED
  BY <1>12, <1>15, <1>16, <1>18, <1>19, <1>20, <1>22, Zenon

(* The last of some entries read in an order is one of them. *)
LEMMA LastReadFound ==
  ASSUME NEW S, S # {}, NEW order, NEW most \in Nat, \A i \in S : order[i] \in 0 .. most
  PROVE  LastRead(S, order) \in S
<1> DEFINE short == {most - order[i] : i \in S}
<1>1. short \subseteq Nat /\ short # {}
  OBVIOUS
<1> HIDE DEF short
<1>2. PICK least \in short : \A other \in short : least <= other
  BY <1>1, NatLeast
<1>3. PICK i \in S : least = most - order[i]
  BY <1>2 DEF short
<1>4. ASSUME NEW j \in S
      PROVE  order[j] <= order[i]
  <2>1. most - order[j] \in short
    BY DEF short
  <2>2. least <= most - order[j]
    BY <1>2, <2>1
  <2>3. order[i] \in 0 .. most /\ order[j] \in 0 .. most
    OBVIOUS
  <2> QED
    BY <2>2, <2>3, <1>3
<1> QED
  BY <1>4, Zenon DEF LastRead

LEMMA NamesRanked ==
  ASSUME NEW name \in {"event", "routing", "model_result", "suppression", "write_effect"}
                      \cup {GateStages[k] : k \in 1 .. 8}
  PROVE  \E n \in 1 .. 13 : NameOrder[n] = name
<1>1. \/ name = NameOrder[1] \/ name = NameOrder[2] \/ name = NameOrder[3]
      \/ name = NameOrder[4] \/ name = NameOrder[5] \/ name = NameOrder[6]
      \/ name = NameOrder[7] \/ name = NameOrder[8] \/ name = NameOrder[9]
      \/ name = NameOrder[10] \/ name = NameOrder[11] \/ name = NameOrder[12]
      \/ name = NameOrder[13]
  BY StagesListed DEF NameOrder
<1> QED
  BY <1>1

(* An entry of a journal, wherever it is torn *)
LEMMA TornEntry ==
  ASSUME NEW ev, NEW i \in 1 .. Len(Entries(ev)), NEW entry, entry = Entries(ev)[i]
  PROVE  /\ Blocking(entry) => entry.stage = ev.stage /\ IsBlocked(ev)
         /\ entry.record = "gate" => entry.stage \in {GateStages[s] : s \in DOMAIN GateStages}
         /\ entry.record = "write_effect" => i = Len(Entries(ev)) /\ entry.effect = ev.effect
         /\ NameRank(entry) \in 1 .. 13
<1> DEFINE entries == Entries(ev)
           last == Len(Entries(ev))
<1>1. /\ IsBlocked(ev) => last = 13
      /\ ~IsBlocked(ev) => last = 12
      /\ DOMAIN entries = 1 .. last
      /\ entries[1].record = "event"
      /\ \A k \in 1 .. 8 : entries[k + 1] = GateEntry(ev, GateStages[k])
      /\ IsBlocked(ev) => entries[10] = [record |-> "suppression", stage |-> ev.stage]
      /\ entries[last - 2].record = "routing"
      /\ entries[last - 1].record = "model_result"
      /\ entries[last] = [record |-> "write_effect", effect |-> ev.effect]
  BY EntriesListed
<1>2. ASSUME NEW name \in {"event", "routing", "model_result", "suppression", "write_effect"}
                      \cup {GateStages[k] : k \in 1 .. 8},
             name = NameOf(entry)
      PROVE  NameRank(entry) \in 1 .. 13
  <2>1. \E m \in DOMAIN NameOrder : NameOrder[m] = NameOf(entry)
    BY <1>2, NamesRanked DEF NameOrder
  <2>2. NameRank(entry) \in DOMAIN NameOrder
    BY <2>1, Zenon DEF NameRank
  <2> QED
    BY <2>2 DEF NameOrder
<1>3. CASE i = 1
  <2>1. entry.record = "event"
    BY <1>1, <1>3
  <2>2. NameOf(entry) = "event"
    BY <2>1 DEF NameOf
  <2>3. NameRank(entry) \in 1 .. 13
    BY <2>2, <1>2
  <2> QED
    BY <2>1, <2>3, <1>3 DEF Blocking
<1>4. CASE i \in 2 .. 9
  <2>1. PICK k \in 1 .. 8 : i = k + 1
    BY <1>4
  <2>2. entry = GateEntry(ev, GateStages[k])
    BY <2>1, <1>1
  <2>3. entry.record = "gate" /\ entry.stage = GateStages[k]
    BY <2>2 DEF GateEntry
  <2>4. entry.blocked <=> ev.stage = GateStages[k]
    <3>1. PICK blocked : blocked = (ev.stage = GateStages[k])
      OBVIOUS
    <3>2. entry = [record |-> "gate", stage |-> GateStages[k], blocked |-> blocked]
      BY <2>2, <3>1, Zenon DEF GateEntry
    <3>3. entry.blocked = blocked
      BY <3>2
    <3> QED
      BY <3>1, <3>3, Zenon
  <2>5. GateStages[k] # "none"
    BY StagesListed
  <2>6. NameOf(entry) = GateStages[k]
    BY <2>3 DEF NameOf
  <2>7. NameRank(entry) \in 1 .. 13
    BY <2>6, <1>2
  <2>8. Blocking(entry) => entry.blocked
    BY <2>3 DEF Blocking
  <2>9. Blocking(entry) => ev.stage = GateStages[k]
    BY <2>4, <2>8, Zenon
  <2> QED
    BY <2>3, <2>5, <2>7, <2>9, StagesListed DEF IsBlocked
<1>5. CASE IsBlocked(ev) /\ i = 10
  <2>1. entry.record = "suppression" /\ entry.stage = ev.stage
    BY <1>1, <1>5
  <2>2. NameOf(entry) = "suppression"
    BY <2>1 DEF NameOf
  <2>3. NameRank(entry) \in 1 .. 13
    BY <2>2, <1>2
  <2> QED
    BY <2>1, <2>3, <1>5 DEF Blocking
<1>6. CASE i = last - 2
  <2>1. entry.record = "routing"
    BY <1>1, <1>6
  <2>2. NameOf(entry) = "routing"
    BY <2>1 DEF NameOf
  <2>3. NameRank(entry) \in 1 .. 13
    BY <2>2, <1>2
  <2> QED
    BY <2>1, <2>3, <1>6 DEF Blocking
<1>7. CASE i = last - 1
  <2>1. entry.record = "model_result"
    BY <1>1, <1>7
  <2>2. NameOf(entry) = "model_result"
    BY <2>1 DEF NameOf
  <2>3. NameRank(entry) \in 1 .. 13
    BY <2>2, <1>2
  <2> QED
    BY <2>1, <2>3, <1>7 DEF Blocking
<1>8. CASE i = last
  <2>1. entry.record = "write_effect" /\ entry.effect = ev.effect
    BY <1>1, <1>8
  <2>2. NameOf(entry) = "write_effect"
    BY <2>1 DEF NameOf
  <2>3. NameRank(entry) \in 1 .. 13
    BY <2>2, <1>2
  <2> QED
    BY <2>1, <2>3, <1>8 DEF Blocking
<1>9. \/ i = 1 \/ i \in 2 .. 9 \/ (IsBlocked(ev) /\ i = 10)
      \/ i = last - 2 \/ i = last - 1 \/ i = last
  <2> HIDE DEF last
  <2>1. last = 12 \/ (last = 13 /\ IsBlocked(ev))
    BY <1>1, Zenon
  <2>2. i \in 1 .. last
    BY DEF last
  <2>3. last = 12 => i = 1 \/ i \in 2 .. 9 \/ i = last - 2 \/ i = last - 1 \/ i = last
    BY <2>2
  <2>4. last = 13 => i = 1 \/ i \in 2 .. 9 \/ i = 10 \/ i = last - 2 \/ i = last - 1 \/ i = last
    BY <2>2
  <2> QED
    BY <2>1, <2>3, <2>4, Zenon
<1> QED
  BY <1>3, <1>4, <1>5, <1>6, <1>7, <1>8, <1>9

(* What a replay of a torn journal may claim *)
ReplaySound(replay, ev) ==
  /\ replay.blocked => replay.stage = ev.stage
  /\ replay.effect # "unknown" =>
       /\ replay.effect = ev.effect
       /\ replay.blocked = IsBlocked(ev)
       /\ replay.path = {GateStages[s] : s \in DOMAIN GateStages}

(* The replay of a torn journal, in any order of its entries *)
LEMMA ReplayFacts ==
  ASSUME NEW ev, NEW n \in 0 .. Len(Entries(ev)), NEW journal, NEW order, NEW most \in Nat,
         DOMAIN journal = 1 .. n, \A i \in 1 .. n : journal[i] = Entries(ev)[i],
         \A i \in 1 .. n : order[i] \in 0 .. most
  PROVE  ReplaySound(Replay(journal, order), ev)
<1> DEFINE last == Len(Entries(ev))
           gates == {i \in DOMAIN journal : journal[i].record = "gate"}
           blocks == {i \in DOMAIN journal : Blocking(journal[i])}
           writes == {i \in DOMAIN journal : journal[i].record = "write_effect"}
           stage == IF blocks = {} THEN "none" ELSE journal[LastRead(blocks, order)].stage
           path == {journal[i].stage : i \in gates}
           effect == IF writes = {} THEN "unknown" ELSE journal[LastRead(writes, order)].effect
           replay == Replay(journal, order)
<1>0. /\ last = 12 \/ last = 13
      /\ \A k \in 1 .. 8 : Entries(ev)[k + 1] = GateEntry(ev, GateStages[k])
  <2>1. IsBlocked(ev) \/ ~IsBlocked(ev)
    OBVIOUS
  <2>2. /\ IsBlocked(ev) => last = 13
        /\ ~IsBlocked(ev) => last = 12
        /\ DOMAIN Entries(ev) = 1 .. last
        /\ Entries(ev)[1].record = "event"
        /\ \A k \in 1 .. 8 : Entries(ev)[k + 1] = GateEntry(ev, GateStages[k])
        /\ IsBlocked(ev) => Entries(ev)[10] = [record |-> "suppression", stage |-> ev.stage]
        /\ Entries(ev)[last - 2].record = "routing"
        /\ Entries(ev)[last - 1].record = "model_result"
        /\ Entries(ev)[last] = [record |-> "write_effect", effect |-> ev.effect]
    BY EntriesListed
  <2> QED
    BY <2>1, <2>2, Zenon
<1>1. \A i \in 1 .. n : i \in 1 .. last
  <2>1. last \in Nat
    BY EntriesListed
  <2> QED
    BY <2>1
<1>2. ASSUME NEW i \in 1 .. n
      PROVE  /\ Blocking(journal[i]) => journal[i].stage = ev.stage /\ IsBlocked(ev)
             /\ journal[i].record = "gate" => journal[i].stage \in {GateStages[s] : s \in DOMAIN GateStages}
             /\ journal[i].record = "write_effect" => i = last /\ journal[i].effect = ev.effect
  BY <1>1, TornEntry, Zenon
<1>3. blocks # {} => stage = ev.stage /\ IsBlocked(ev)
  <2>1. SUFFICES ASSUME blocks # {} PROVE stage = ev.stage /\ IsBlocked(ev)
    OBVIOUS
  <2>2. \A i \in blocks : order[i] \in 0 .. most
    OBVIOUS
  <2>3. LastRead(blocks, order) \in blocks
    BY <2>1, <2>2, LastReadFound
  <2> QED
    BY <2>1, <2>3, <1>2, Zenon
<1>4. writes # {} => effect = ev.effect /\ last \in writes
  <2>1. SUFFICES ASSUME writes # {} PROVE effect = ev.effect /\ last \in writes
    OBVIOUS
  <2>2. \A i \in writes : order[i] \in 0 .. most
    OBVIOUS
  <2>3. LastRead(writes, order) \in writes
    BY <2>1, <2>2, LastReadFound
  <2> QED
    BY <2>1, <2>3, <1>2, Zenon
<1>5. ASSUME last \in writes
      PROVE  /\ n = last
             /\ \A i \in 1 .. last : journal[i] = Entries(ev)[i] /\ i \in DOMAIN journal
  <2>1. n = last
    BY <1>5, <1>1
  <2> QED
    BY <2>1
<1>6. ASSUME last \in writes
      PROVE  path = {GateStages[s] : s \in DOMAIN GateStages}
  <2>1. \A i \in gates : journal[i].stage \in {GateStages[s] : s \in DOMAIN GateStages}
    BY <1>2
  <2>2. ASSUME NEW s \in DOMAIN GateStages
        PROVE  GateStages[s] \in path
    <3>1. s \in 1 .. 8 /\ s + 1 \in 1 .. last
      BY <1>0, StagesListed
    <3>2. journal[s + 1] = GateEntry(ev, GateStages[s]) /\ s + 1 \in DOMAIN journal
      <4>1. Entries(ev)[s + 1] = GateEntry(ev, GateStages[s])
        BY <1>0, <3>1, Zenon
      <4>2. journal[s + 1] = Entries(ev)[s + 1] /\ s + 1 \in DOMAIN journal
        BY <1>5, <1>6, <3>1
      <4> QED
        BY <4>1, <4>2
    <3>3. journal[s + 1].record = "gate" /\ journal[s + 1].stage = GateStages[s]
      BY <3>2 DEF GateEntry
    <3> QED
      BY <3>2, <3>3
  <2> HIDE DEF gates
  <2> QED
    BY <2>1, <2>2
<1>7. ASSUME last \in writes, IsBlocked(ev)
      PROVE  blocks # {}
  <2>1. last = 13
    BY <1>7, EntriesListed, Zenon
  <2>2. Entries(ev)[10] = [record |-> "suppression", stage |-> ev.stage]
    BY <1>7, EntriesListed, Zenon
  <2>3. 10 \in DOMAIN journal /\ journal[10] = Entries(ev)[10]
    BY <2>1, <1>5, <1>7
  <2>4. journal[10].record = "suppression"
    BY <2>2, <2>3
  <2>5. Blocking(journal[10])
    BY <2>4, Zenon DEF Blocking
  <2> QED
    BY <2>3, <2>5
<1> HIDE DEF last, gates, blocks, writes, stage, path, effect
<1>8. PICK blocked : blocked = (blocks # {})
  OBVIOUS
<1>9. replay = [blocked |-> blocked, stage |-> stage, path |-> path, effect |-> effect]
  BY <1>8, Zenon DEF Replay, gates, blocks, writes, stage, path, effect
<1>10. replay.blocked = blocked /\ replay.stage = stage /\ replay.path = path /\ replay.effect = effect
  BY <1>9
<1> HIDE DEF replay
<1>11. replay.blocked => replay.stage = ev.stage
  BY <1>8, <1>10, <1>3, Zenon
<1>12. replay.effect # "unknown" => writes # {}
  BY <1>10 DEF effect
<1>13. writes # {} => replay.blocked = IsBlocked(ev)
  BY <1>8, <1>10, <1>3, <1>4, <1>7, Zenon DEF IsBlocked
<1> QED
  BY <1>10, <1>11, <1>12, <1>13, <1>4, <1>6, Zenon DEF replay, ReplaySound

(* The order of a sorted journal is by numbers. *)
LEMMA SortedPlaces ==
  ASSUME NEW ev, NEW n \in 0 .. Len(Entries(ev)), NEW journal,
         DOMAIN journal = 1 .. n, Len(journal) = n, \A i \in 1 .. n : journal[i] = Entries(ev)[i]
  PROVE  /\ \A i \in 1 .. n : AsAppended(journal)[i] \in 0 .. 14 * n
         /\ \A i \in 1 .. n : ByName(journal)[i] \in 0 .. 14 * n
<1>1. Len(Entries(ev)) \in Nat
  BY EntriesListed
<1>2. ASSUME NEW i \in 1 .. n
      PROVE  AsAppended(journal)[i] = i
  BY DEF AsAppended
<1>3. ASSUME NEW i \in 1 .. n
      PROVE  \E rank \in 1 .. 13 : ByName(journal)[i] = rank * n + i
  <2>1. i \in 1 .. Len(Entries(ev))
    BY <1>1
  <2>2. NameRank(journal[i]) \in 1 .. 13
    BY <2>1, TornEntry, Zenon
  <2>3. ByName(journal)[i] = NameRank(journal[i]) * n + i
    BY DEF ByName
  <2> QED
    BY <2>2, <2>3
<1>4. ASSUME NEW i \in 1 .. n, NEW rank \in 1 .. 13
      PROVE  rank * n + i \in 0 .. 14 * n /\ i \in 0 .. 14 * n
  <2>1. \/ rank = 1 \/ rank = 2 \/ rank = 3 \/ rank = 4 \/ rank = 5 \/ rank = 6 \/ rank = 7
        \/ rank = 8 \/ rank = 9 \/ rank = 10 \/ rank = 11 \/ rank = 12 \/ rank = 13
    OBVIOUS
  <2> QED
    BY <1>1, <2>1
<1>5. ASSUME NEW i \in 1 .. n
      PROVE  ByName(journal)[i] \in 0 .. 14 * n /\ AsAppended(journal)[i] \in 0 .. 14 * n
  <2>1. PICK rank \in 1 .. 13 : ByName(journal)[i] = rank * n + i
    BY <1>3
  <2> QED
    BY <2>1, <1>2, <1>4, Zenon
<1> QED
  BY <1>5, Zenon

(* However the journal of an evaluation is torn and in whatever order it is *)
(* read, its replay overclaims nothing.                                     *)
THEOREM TornJournalNeverOverclaims == Spec => []TornJournalOverclaimsNothing
<1>1. ASSUME NEW ev, NEW replay \in TornReplays(ev)
      PROVE  ReplaySound(replay, ev)
  <2>1. PICK n \in 0 .. Len(Entries(ev)) :
          LET journal == SubSeq(Entries(ev), 1, n)
          IN  replay = Replay(journal, AsAppended(journal)) \/ replay = Replay(journal, ByName(journal))
    BY <1>1, Zenon DEF TornReplays
  <2> DEFINE journal == SubSeq(Entries(ev), 1, n)
  <2>2. DOMAIN journal = 1 .. n /\ Len(journal) = n /\ \A i \in 1 .. n : journal[i] = Entries(ev)[i]
    BY EntriesListed
  <2> HIDE DEF journal
  <2>3. /\ \A i \in 1 .. n : AsAppended(journal)[i] \in 0 .. 14 * n
        /\ \A i \in 1 .. n : ByName(journal)[i] \in 0 .. 14 * n
    BY <2>2, SortedPlaces
  <2> DEFINE most == 14 * n
  <2>4. most \in Nat
    BY EntriesListed
  <2> HIDE DEF most
  <2>7. /\ \A i \in 1 .. n : AsAppended(journal)[i] \in 0 .. most
        /\ \A i \in 1 .. n : ByName(journal)[i] \in 0 .. most
    BY <2>3 DEF most
  <2>5. CASE replay = Replay(journal, AsAppended(journal))
    <3>1. PICK order : order = AsAppended(journal)
      OBVIOUS
    <3>2. \A i \in 1 .. n : order[i] \in 0 .. most
      BY <2>7, <3>1, Zenon
    <3>3. ReplaySound(Replay(journal, order), ev)
      BY <2>2, <2>4, <3>2, ReplayFacts, ZenonT(60)
    <3> QED
      BY <2>5, <3>1, <3>3, Zenon
  <2>6. CASE replay = Replay(journal, ByName(journal))
    <3>1. PICK order : order = ByName(journal)
      OBVIOUS
    <3>2. \A i \in 1 .. n : order[i] \in 0 .. most
      BY <2>7, <3>1, Zenon
    <3>3. ReplaySound(Replay(journal, order), ev)
      BY <2>2, <2>4, <3>2, ReplayFacts, ZenonT(60)
    <3> QED
      BY <2>6, <3>1, <3>3, Zenon
  <2> QED
    BY <2>1, <2>5, <2>6, Zenon DEF journal
<1>2. TornJournalOverclaimsNothing
  BY <1>1, Zenon DEF TornJournalOverclaimsNothing, ReplaySound
<1> QED
  BY <1>2, PTL

-----------------------------------------------------------------------------
(* The journal of restart notifications *)

(* The window of the running query as of now, the rows it selects, and what *)
(* of the selection does not depend on the window                           *)
WindowNow == Journal!Filters(read.query, JournalWeek)
RowsOf(f) == IF service.store = "memory" THEN Journal!MemoryRows(f) ELSE Journal!PostgresRows(f)
AsksFor(query, i) ==
  /\ events[i].scope = "external"
  /\ service.store = "memory" => events[i].destination # "none"
  /\ Journal!Passes(query.destination, events[i].destination)
  /\ Journal!Passes(query.status, events[i].status)
  /\ Journal!Stored(events[i].alert)
  /\ Journal!Passes(query.severity, Journal!AlertOf(events[i].alert).severity)

(* The rows that come before row i, and the rows the next page passes over *)
Ahead(rows, i) == {j \in rows : Journal!Newer(j, i)}
PassedOver == IF read.offset <= MaxJournalOffset THEN read.offset ELSE MaxJournalOffset

JournalEvent ==
  [alert : Nat \ {0}, scope : {"internal", "external"},
   destination : Journal!Destination \cup {"none"},
   sink : Journal!Destination \cup {Journal!Sink, "log", "none"}, type : NotificationTypes,
   status : DeliveryOutcomes \cup {"sent", "failed", "suppressed", "skipped"}, at : Nat]

JournalTyped ==
  /\ service \in JournalDeployments
  /\ alerts \in [JournalKeys -> Journal!Alert] /\ ids \in Nat
  /\ events \in Seq(JournalEvent) /\ counter \in Nat /\ clock \in Nat

(* An id is one alert's; no event is later than the clock by more than the *)
(* events' number; in Postgres an event's alert is there.                  *)
AlertsApart ==
  /\ \A key \in JournalKeys : alerts[key].id <= ids
  /\ \A key, other \in JournalKeys :
       alerts[key].id = alerts[other].id /\ alerts[key].id # 0 => key = other
EventsDated ==
  /\ counter <= Len(events)
  /\ \A i \in DOMAIN events : events[i].at <= clock + Len(events)
EventsReferTo ==
  service.store = "postgres" => \A i \in DOMAIN events : Journal!Stored(events[i].alert)

ReadTyped ==
  read \in [pc : {"idle", "reading", "done"}, query : {Journal!NoQuery} \cup JournalQueries,
            offset : Nat, seen : SUBSET Nat, expected : SUBSET Nat,
            past : BOOLEAN, disturbed : BOOLEAN, repeated : BOOLEAN]

(* What was recorded is asked for, and was seen or comes after the rows *)
(* passed over.                                                         *)
AheadOfReader ==
  read.pc = "reading" /\ ~read.disturbed =>
    \A i \in read.expected :
      /\ i \in DOMAIN events /\ AsksFor(read.query, i) /\ events[i].at <= WindowNow.to
      /\ WindowNow.from <= events[i].at =>
           i \in read.seen \/ 1 + Cardinality(Ahead(RowsOf(WindowNow), i)) > PassedOver

(* Of a window that had ended, what was seen is what was passed over. *)
BehindReader ==
  read.pc = "reading" =>
    /\ read.past => read.query.to # -1 /\ read.query.to < clock
    /\ Len(events) <= MaxJournalOffset =>
         /\ read.offset <= Len(events)
         /\ read.past /\ ~read.disturbed =>
              /\ ~read.repeated
              /\ \A i \in read.seen :
                   /\ i \in RowsOf(WindowNow)
                   /\ 1 + Cardinality(Ahead(RowsOf(WindowNow), i)) <= read.offset

JournalInv ==
  /\ JournalTyped /\ AlertsApart /\ EventsDated /\ EventsReferTo
  /\ ReadTyped /\ AheadOfReader /\ BehindReader /\ Journal!ReadsWhole

-----------------------------------------------------------------------------
(* Counting rows *)

LEMMA SameCardinality == ASSUME NEW S PROVE Journal!Cardinality(S) = Cardinality(S)
BY Zenon DEF Journal!Cardinality, Cardinality

LEMMA PageSizes ==
  /\ JournalPageSize \in Nat \ {0} /\ MaxJournalOffset \in Nat
  /\ Journal!Clamped(JournalPageSize) = JournalPageSize
BY JournalConstants DEF Journal!Clamped, Journal!Min, Journal!Max

LEMMA EventsAreNumbered ==
  ASSUME JournalTyped
  PROVE  /\ Len(events) \in Nat /\ DOMAIN events = 1..Len(events)
         /\ IsFiniteSet(DOMAIN events) /\ Cardinality(DOMAIN events) = Len(events)
<1>1. Len(events) \in Nat /\ DOMAIN events = 1..Len(events)
  BY DEF JournalTyped
<1>2. IsFiniteSet(1..Len(events)) /\ Cardinality(1..Len(events)) = Len(events)
  <2>1. 1 \in Int /\ Len(events) \in Int
    BY <1>1
  <2>2. /\ IsFiniteSet(1..Len(events))
        /\ Cardinality(1..Len(events)) = IF 1 > Len(events) THEN 0 ELSE Len(events) - 1 + 1
    BY <2>1, FS_Interval, Zenon
  <2> QED
    BY <1>1, <2>2
<1> QED
  BY <1>1, <1>2

LEMMA EventTyped ==
  ASSUME JournalTyped, NEW i \in DOMAIN events
  PROVE  /\ i \in Nat \ {0} /\ events[i].at \in Nat /\ events[i].alert \in Nat \ {0}
         /\ events[i].destination \in Journal!Destination \cup {"none"}
<1>1. i \in Nat \ {0} /\ events[i] \in JournalEvent
  BY DEF JournalTyped
<1> QED
  BY <1>1 DEF JournalEvent

(* A row's place is among the rows. *)
LEMMA Places ==
  ASSUME JournalTyped, NEW rows, rows \subseteq DOMAIN events
  PROVE  /\ IsFiniteSet(rows) /\ Cardinality(rows) \in Nat /\ Cardinality(rows) <= Len(events)
         /\ \A i \in DOMAIN events : IsFiniteSet(Ahead(rows, i)) /\ Cardinality(Ahead(rows, i)) \in Nat
         /\ \A i \in rows : 1 + Cardinality(Ahead(rows, i)) <= Cardinality(rows)
<1>1. IsFiniteSet(rows) /\ Cardinality(rows) \in Nat /\ Cardinality(rows) <= Len(events)
  BY EventsAreNumbered, FS_Subset, FS_CardinalityType
<1>2. ASSUME NEW i \in DOMAIN events
      PROVE  IsFiniteSet(Ahead(rows, i)) /\ Cardinality(Ahead(rows, i)) \in Nat
  BY <1>1, FS_Subset, FS_CardinalityType DEF Ahead
<1>3. ASSUME NEW i \in rows
      PROVE  1 + Cardinality(Ahead(rows, i)) <= Cardinality(rows)
  <2>1. i \notin Ahead(rows, i)
    BY EventTyped DEF Ahead, Journal!Newer
  <2>2. Ahead(rows, i) \in SUBSET rows /\ Ahead(rows, i) # rows
    BY <2>1 DEF Ahead
  <2>3. /\ Cardinality(Ahead(rows, i)) <= Cardinality(rows)
        /\ Cardinality(Ahead(rows, i)) # Cardinality(rows)
    BY <1>1, <2>2, FS_Subset
  <2> QED
    BY <1>1, <1>2, <2>3
<1> QED
  BY <1>1, <1>2, <1>3

(* What is put before a row only moves it back. *)
LEMMA PlacesGrow ==
  ASSUME NEW S, NEW T, IsFiniteSet(T), S \subseteq T
  PROVE  Cardinality(S) \in Nat /\ Cardinality(T) \in Nat /\ Cardinality(S) <= Cardinality(T)
BY FS_Subset, FS_CardinalityType

LEMMA RowsAreEvents ==
  ASSUME NEW f
  PROVE  RowsOf(f) \subseteq DOMAIN events
BY DEF RowsOf, Journal!MemoryRows, Journal!PostgresRows

LEMMA WindowOf ==
  ASSUME NEW query
  PROVE  LET f == Journal!Filters(query, JournalWeek)
         IN  /\ f.to = (IF query.to = -1 THEN clock ELSE query.to)
             /\ f.from = (IF query.from = -1 THEN f.to - JournalWeek ELSE query.from)
             /\ f.destination = query.destination /\ f.severity = query.severity
             /\ f.status = query.status
BY DEF Journal!Filters, Journal!Default

(* The rows are the events a query asks for within the window. *)
LEMMA RowsMeet ==
  ASSUME service.store \in {"memory", "postgres"}, NEW query,
         NEW f, f = Journal!Filters(query, JournalWeek), NEW i
  PROVE  i \in RowsOf(f) <=> /\ i \in DOMAIN events /\ AsksFor(query, i)
                             /\ f.from <= events[i].at /\ events[i].at <= f.to
<1>1. f.destination = query.destination /\ f.severity = query.severity /\ f.status = query.status
  BY WindowOf, Zenon
<1>2. CASE service.store = "memory"
  <2>1. i \in RowsOf(f) <=> i \in Journal!MemoryRows(f)
    BY <1>2 DEF RowsOf
  <2> QED
    BY <1>1, <1>2, <2>1, Zenon DEF Journal!MemoryRows, AsksFor, Journal!InWindow
<1>3. CASE service.store = "postgres"
  <2>1. i \in RowsOf(f) <=> i \in Journal!PostgresRows(f)
    BY <1>3 DEF RowsOf
  <2>2. service.store # "memory"
    BY <1>3
  <2> QED
    BY <1>1, <2>1, <2>2, Zenon DEF Journal!PostgresRows, AsksFor, Journal!InWindow
<1> QED
  BY <1>2, <1>3

(* A page holds the rows at its places, and says whether there are more. *)
LEMMA PageHolds ==
  ASSUME JournalTyped, NEW f, NEW offset \in Nat,
         NEW page, page = Journal!Page(f, JournalPageSize, offset)
  PROVE  /\ page.rows = {i \in RowsOf(f) :
                1 + Cardinality(Ahead(RowsOf(f), i)) \in offset + 1..offset + JournalPageSize}
         /\ page.more \in BOOLEAN
         /\ page.more <=> offset + JournalPageSize < Cardinality(RowsOf(f))
<1> DEFINE rows == RowsOf(f)
           size == Cardinality(rows)
           atPlaces == {i \in rows : 1 + Cardinality(Ahead(rows, i)) \in offset + 1..offset + JournalPageSize}
<1>1. size \in Nat
  BY Places, RowsAreEvents
<1>2. ASSUME NEW set, set = rows
      PROVE  {row \in set : 1 + Journal!Cardinality({other \in set : Journal!Newer(other, row)})
                            \in offset + 1..offset + JournalPageSize} = atPlaces
  BY <1>2, SameCardinality DEF Ahead
<1> HIDE DEF rows, size, atPlaces
<1>3. CASE service.store = "memory"
  <2>1. Journal!MemoryRows(f) = rows
    BY <1>3 DEF RowsOf, rows
  <2>2. page = [rows |-> atPlaces, total |-> size, more |-> offset + JournalPageSize < size]
    BY <1>2, <1>3, <2>1, PageSizes, SameCardinality
       DEF Journal!Page, Journal!MemoryPage, Journal!Slice, Journal!Place, size
  <2> DEFINE rest == offset + JournalPageSize < size
  <2>3. rest \in BOOLEAN
    OBVIOUS
  <2> HIDE DEF rest
  <2>4. page.rows = atPlaces /\ page.more = rest
    BY <2>2 DEF rest
  <2> QED
    BY <2>3, <2>4, Zenon DEF rows, size, atPlaces, rest
<1>4. CASE service.store # "memory"
  <2>1. Journal!PostgresRows(f) = rows
    BY <1>4 DEF RowsOf, rows
  <2> DEFINE total == IF offset < size THEN size ELSE 0
  <2>2. page = [rows |-> atPlaces, total |-> total, more |-> offset + JournalPageSize < total]
    BY <1>2, <1>4, <2>1, PageSizes, SameCardinality
       DEF Journal!Page, Journal!PostgresPage, Journal!Slice, Journal!Place, size
  <2>3. offset + JournalPageSize < total <=> offset + JournalPageSize < size
    BY <1>1, PageSizes
  <2> DEFINE rest == offset + JournalPageSize < total
  <2>4. rest \in BOOLEAN
    OBVIOUS
  <2> HIDE DEF rest, total
  <2>5. page.rows = atPlaces /\ page.more = rest
    BY <2>2 DEF rest
  <2>6. rest <=> offset + JournalPageSize < size
    BY <2>3 DEF rest
  <2> QED
    BY <2>4, <2>5, <2>6, Zenon DEF rows, size, atPlaces
<1> QED
  BY <1>3, <1>4

-----------------------------------------------------------------------------
(* The reader *)

LEMMA Stores == JournalTyped => service.store \in {"memory", "postgres"}
BY JournalConstants DEF JournalTyped

(* What the running query selects, now and next *)
NowSelects ==
  \A i : i \in RowsOf(WindowNow) <=>
           /\ i \in DOMAIN events /\ AsksFor(read.query, i)
           /\ WindowNow.from <= events[i].at /\ events[i].at <= WindowNow.to

LEMMA SelectsNow == JournalTyped => NowSelects
<1> SUFFICES ASSUME JournalTyped, NEW i
             PROVE  i \in RowsOf(WindowNow) <=>
                      /\ i \in DOMAIN events /\ AsksFor(read.query, i)
                      /\ WindowNow.from <= events[i].at /\ events[i].at <= WindowNow.to
  BY Zenon DEF NowSelects
<1>1. WindowNow = Journal!Filters(read.query, JournalWeek)
  BY DEF WindowNow
<1> QED
  BY <1>1, Stores, RowsMeet, Zenon

LEMMA SelectsNext == (JournalTyped => NowSelects)'
BY SelectsNow, PTL

LEMMA PlacesNow ==
  JournalTyped =>
    /\ IsFiniteSet(RowsOf(WindowNow)) /\ Cardinality(RowsOf(WindowNow)) <= Len(events)
    /\ \A i \in DOMAIN events : IsFiniteSet(Ahead(RowsOf(WindowNow), i))
BY RowsAreEvents, Places

LEMMA PlacesNext ==
  (JournalTyped =>
    /\ IsFiniteSet(RowsOf(WindowNow)) /\ Cardinality(RowsOf(WindowNow)) <= Len(events)
    /\ \A i \in DOMAIN events : IsFiniteSet(Ahead(RowsOf(WindowNow), i)))'
BY PlacesNow, PTL

LEMMA WindowIs ==
  /\ WindowNow.to = (IF read.query.to = -1 THEN clock ELSE read.query.to)
  /\ WindowNow.from = (IF read.query.from = -1 THEN WindowNow.to - JournalWeek ELSE read.query.from)
BY DEF WindowNow, Journal!Filters, Journal!Default

LEMMA WindowBecomes ==
  (/\ WindowNow.to = (IF read.query.to = -1 THEN clock ELSE read.query.to)
   /\ WindowNow.from = (IF read.query.from = -1 THEN WindowNow.to - JournalWeek ELSE read.query.from))'
BY WindowIs, PTL

(* An id's alert is one that is stored. *)
LEMMA AlertFound ==
  \A id : Journal!Stored(id) =>
    \E key \in JournalKeys : alerts[key].id = id /\ Journal!AlertOf(id) = alerts[key]
BY DEF Journal!Stored, Journal!AlertOf

LEMMA AlertStillFound ==
  (\A id : Journal!Stored(id) =>
     \E key \in JournalKeys : alerts[key].id = id /\ Journal!AlertOf(id) = alerts[key])'
BY AlertFound, PTL

(* What goes on next to a reader without disturbing it *)
GoesOn ==
  /\ service' = service /\ read' = read
  /\ clock' \in Nat /\ clock <= clock'
  /\ Len(events) <= Len(events')
  /\ \A i \in DOMAIN events : i \in DOMAIN events' /\ events'[i] = events[i]
  /\ \A i \in DOMAIN events' : i \in DOMAIN events \/ events'[i].at >= clock
  /\ \A key \in JournalKeys :
       alerts'[key].id = alerts[key].id /\ alerts'[key].severity = alerts[key].severity

LEMMA StoredStays ==
  ASSUME AlertsApart, GoesOn, NEW id, id # 0
  PROVE  /\ Journal!Stored(id)' <=> Journal!Stored(id)
         /\ Journal!Stored(id) => Journal!AlertOf(id)'.severity = Journal!AlertOf(id).severity
<1>1. Journal!Stored(id)' <=> Journal!Stored(id)
  BY DEF Journal!Stored, GoesOn
<1>2. ASSUME Journal!Stored(id)
      PROVE  Journal!AlertOf(id)'.severity = Journal!AlertOf(id).severity
  <2>1. PICK key \in JournalKeys : alerts[key].id = id /\ Journal!AlertOf(id) = alerts[key]
    BY <1>2, AlertFound
  <2>2. PICK other \in JournalKeys : alerts'[other].id = id /\ Journal!AlertOf(id)' = alerts'[other]
    BY <1>1, <1>2, AlertStillFound
  <2>3. key = other
    BY <2>1, <2>2 DEF AlertsApart, GoesOn
  <2> QED
    BY <2>1, <2>2, <2>3 DEF GoesOn
<1> QED
  BY <1>1, <1>2

LEMMA AskedStays ==
  ASSUME JournalTyped, AlertsApart, GoesOn, NEW i \in DOMAIN events
  PROVE  AsksFor(read.query, i)' <=> AsksFor(read.query, i)
<1>1. events'[i] = events[i] /\ service' = service /\ read' = read
  BY DEF GoesOn
<1>2. PICK id : id = events[i].alert /\ id # 0
  BY EventTyped
<1>3. /\ Journal!Stored(id)' <=> Journal!Stored(id)
      /\ Journal!Stored(id) => Journal!AlertOf(id)'.severity = Journal!AlertOf(id).severity
  BY <1>2, StoredStays
<1>4. AsksFor(read.query, i) <=>
        /\ events[i].scope = "external"
        /\ service.store = "memory" => events[i].destination # "none"
        /\ Journal!Passes(read.query.destination, events[i].destination)
        /\ Journal!Passes(read.query.status, events[i].status)
        /\ Journal!Stored(id) /\ Journal!Passes(read.query.severity, Journal!AlertOf(id).severity)
  BY <1>2 DEF AsksFor
<1>5. AsksFor(read.query, i)' <=>
        /\ events[i].scope = "external"
        /\ service.store = "memory" => events[i].destination # "none"
        /\ Journal!Passes(read.query.destination, events[i].destination)
        /\ Journal!Passes(read.query.status, events[i].status)
        /\ Journal!Stored(id)' /\ Journal!Passes(read.query.severity, Journal!AlertOf(id)'.severity)
  BY <1>1, <1>2 DEF AsksFor, Journal!Passes
<1>6. CASE Journal!Stored(id)
  BY <1>3, <1>4, <1>5, <1>6
<1>7. CASE ~Journal!Stored(id)
  BY <1>3, <1>4, <1>5, <1>7
<1> QED
  BY <1>6, <1>7

LEMMA WindowTyped ==
  ASSUME JournalTyped, ReadTyped
  PROVE  /\ read.query.to \in Int /\ read.query.from \in Int
         /\ WindowNow.to \in Int /\ WindowNow.from \in Int
<1>1. read.query \in {Journal!NoQuery} \cup JournalQueries
  BY DEF ReadTyped
<1>2. read.query.to \in Int /\ read.query.from \in Int
  BY <1>1, JournalConstants DEF Journal!NoQuery
<1>3. clock \in Int /\ JournalWeek \in Int
  BY JournalConstants DEF JournalTyped
<1> QED
  BY <1>2, <1>3, WindowIs

LEMMA WindowMoves ==
  ASSUME JournalTyped, ReadTyped, GoesOn
  PROVE  /\ WindowNow.to <= WindowNow'.to /\ WindowNow.from <= WindowNow'.from
         /\ WindowNow'.to \in Int /\ WindowNow'.from \in Int
         /\ read.query.to # -1 => WindowNow'.to = WindowNow.to /\ WindowNow'.from = WindowNow.from
<1>1. read' = read /\ clock <= clock' /\ clock' \in Int /\ clock \in Int /\ JournalWeek \in Int
  BY JournalConstants DEF GoesOn, JournalTyped
<1> QED
  BY <1>1, WindowTyped, WindowIs, WindowBecomes

(* The window drops only what is older than all that is ahead. *)
LEMMA AheadStays ==
  ASSUME JournalTyped, JournalTyped', AlertsApart, ReadTyped, GoesOn, NEW i \in DOMAIN events,
         WindowNow'.from <= events[i].at
  PROVE  /\ Cardinality(Ahead(RowsOf(WindowNow), i)) \in Nat
         /\ Cardinality(Ahead(RowsOf(WindowNow), i))' \in Nat
         /\ Cardinality(Ahead(RowsOf(WindowNow), i)) <= Cardinality(Ahead(RowsOf(WindowNow), i))'
<1>1. ASSUME NEW j \in Ahead(RowsOf(WindowNow), i)
      PROVE  j \in Ahead(RowsOf(WindowNow), i)'
  <2>1. j \in RowsOf(WindowNow) /\ Journal!Newer(j, i)
    BY DEF Ahead
  <2>2. /\ j \in DOMAIN events /\ AsksFor(read.query, j)
        /\ WindowNow.from <= events[j].at /\ events[j].at <= WindowNow.to
    BY <2>1, SelectsNow DEF NowSelects
  <2>3. j \in DOMAIN events' /\ events'[j] = events[j] /\ events'[i] = events[i]
    BY <2>2 DEF GoesOn
  <2>4. WindowNow'.from <= events'[j].at /\ events'[j].at <= WindowNow'.to
    <3>1. events[j].at \in Nat /\ events[i].at \in Nat
      BY <2>2, EventTyped
    <3>2. events[i].at <= events[j].at
      BY <2>1, <3>1 DEF Journal!Newer
    <3> QED
      BY <2>2, <2>3, <3>1, <3>2, WindowMoves, WindowTyped
  <2>5. AsksFor(read.query, j)'
    BY <2>2, AskedStays
  <2>6. j \in RowsOf(WindowNow)'
    BY <2>3, <2>4, <2>5, SelectsNext DEF NowSelects
  <2>7. Journal!Newer(j, i)'
    BY <2>1, <2>3 DEF Journal!Newer
  <2> QED
    BY <2>6, <2>7 DEF Ahead
<1>2. IsFiniteSet(Ahead(RowsOf(WindowNow), i)')
  BY PlacesNext DEF GoesOn
<1> QED
  BY <1>1, <1>2, PlacesGrow

(* The rows of a window that has ended are settled. *)
LEMMA PastStays ==
  ASSUME JournalTyped, JournalTyped', AlertsApart, ReadTyped, GoesOn,
         read.query.to # -1, read.query.to < clock
  PROVE  /\ RowsOf(WindowNow)' = RowsOf(WindowNow)
         /\ \A i \in RowsOf(WindowNow) : Ahead(RowsOf(WindowNow), i)' = Ahead(RowsOf(WindowNow), i)
<1>1. WindowNow.to = read.query.to /\ WindowNow'.to = WindowNow.to /\ WindowNow'.from = WindowNow.from
  BY WindowIs, WindowMoves
<1>2. ASSUME NEW i \in DOMAIN events
      PROVE  i \in RowsOf(WindowNow)' <=> i \in RowsOf(WindowNow)
  <2>1. i \in DOMAIN events' /\ events'[i] = events[i]
    BY DEF GoesOn
  <2>2. AsksFor(read.query, i)' <=> AsksFor(read.query, i)
    BY AskedStays
  <2>3. i \in RowsOf(WindowNow) <=> /\ AsksFor(read.query, i)
                                    /\ WindowNow.from <= events[i].at /\ events[i].at <= WindowNow.to
    BY SelectsNow DEF NowSelects
  <2>4. i \in RowsOf(WindowNow)' <=> /\ AsksFor(read.query, i)'
                                     /\ WindowNow.from <= events[i].at /\ events[i].at <= WindowNow.to
    BY <1>1, <2>1, SelectsNext DEF NowSelects
  <2> QED
    BY <2>2, <2>3, <2>4
<1>3. ASSUME NEW i, i \notin DOMAIN events
      PROVE  i \notin RowsOf(WindowNow)' /\ i \notin RowsOf(WindowNow)
  <2>1. i \notin RowsOf(WindowNow)
    BY <1>3, RowsAreEvents
  <2>2. ASSUME i \in RowsOf(WindowNow)'
        PROVE  FALSE
    <3>1. i \in DOMAIN events' /\ events'[i].at <= WindowNow.to
      BY <1>1, <2>2, SelectsNext DEF NowSelects
    <3>2. clock <= events'[i].at
      BY <1>3, <3>1 DEF GoesOn
    <3>3. events'[i].at \in Int /\ clock \in Int
      <4>1. clock \in Int /\ events'[i] \in JournalEvent
        BY <3>1 DEF JournalTyped
      <4> QED
        BY <4>1 DEF JournalEvent
    <3> QED
      BY <1>1, <3>1, <3>2, <3>3, WindowTyped
  <2> QED
    BY <2>1, <2>2
<1>4. RowsOf(WindowNow)' = RowsOf(WindowNow)
  BY <1>2, <1>3
<1>5. ASSUME NEW i \in RowsOf(WindowNow), NEW j \in RowsOf(WindowNow)
      PROVE  Journal!Newer(j, i)' <=> Journal!Newer(j, i)
  <2>1. i \in DOMAIN events /\ j \in DOMAIN events
    BY RowsAreEvents
  <2> QED
    BY <2>1 DEF GoesOn, Journal!Newer
<1> QED
  BY <1>4, <1>5 DEF Ahead

JournalTypes == JournalTyped /\ AlertsApart /\ EventsDated /\ EventsReferTo
ReaderTrue == ReadTyped /\ AheadOfReader /\ BehindReader /\ Journal!ReadsWhole

(* What goes on next to the reader leaves true what was. *)
LEMMA ReaderGoesOn ==
  ASSUME JournalTyped, JournalTyped', AlertsApart, ReaderTrue, GoesOn
  PROVE  ReaderTrue'
<1>1. read' = read /\ Len(events) \in Nat /\ Len(events') \in Nat /\ Len(events) <= Len(events')
  BY DEF GoesOn, JournalTyped
<1>2. ReadTyped'
  BY <1>1 DEF ReaderTrue, ReadTyped
<1>3. AheadOfReader'
  <2> SUFFICES ASSUME read.pc = "reading", ~read.disturbed, NEW i \in read.expected
               PROVE  /\ i \in DOMAIN events' /\ AsksFor(read.query, i)' /\ events'[i].at <= WindowNow'.to
                      /\ WindowNow'.from <= events'[i].at =>
                           \/ i \in read.seen
                           \/ 1 + Cardinality(Ahead(RowsOf(WindowNow), i))' > PassedOver'
    BY <1>1, Zenon DEF AheadOfReader
  <2>1. /\ i \in DOMAIN events /\ AsksFor(read.query, i) /\ events[i].at <= WindowNow.to
        /\ WindowNow.from <= events[i].at =>
             i \in read.seen \/ 1 + Cardinality(Ahead(RowsOf(WindowNow), i)) > PassedOver
    BY DEF ReaderTrue, AheadOfReader
  <2>2. i \in DOMAIN events' /\ events'[i] = events[i] /\ events[i].at \in Nat
    BY <2>1, EventTyped DEF GoesOn
  <2>3. AsksFor(read.query, i)'
    BY <2>1, AskedStays
  <2>4. events'[i].at <= WindowNow'.to
    BY <2>1, <2>2, WindowMoves, WindowTyped DEF ReaderTrue
  <2>5. ASSUME WindowNow'.from <= events'[i].at, i \notin read.seen
        PROVE  1 + Cardinality(Ahead(RowsOf(WindowNow), i))' > PassedOver'
    <3>1. WindowNow.from <= events[i].at /\ WindowNow'.from <= events[i].at
      BY <2>2, <2>5, WindowMoves, WindowTyped DEF ReaderTrue
    <3>2. 1 + Cardinality(Ahead(RowsOf(WindowNow), i)) > PassedOver
      BY <2>1, <2>5, <3>1
    <3>3. PassedOver' = PassedOver /\ PassedOver \in Nat
      BY <1>1, PageSizes DEF PassedOver, ReaderTrue, ReadTyped
    <3>4. /\ Cardinality(Ahead(RowsOf(WindowNow), i)) \in Nat
          /\ Cardinality(Ahead(RowsOf(WindowNow), i))' \in Nat
          /\ Cardinality(Ahead(RowsOf(WindowNow), i)) <= Cardinality(Ahead(RowsOf(WindowNow), i))'
      BY <2>1, <3>1, AheadStays DEF ReaderTrue
    <3> QED
      BY <3>2, <3>3, <3>4
  <2> QED
    BY <2>2, <2>3, <2>4, <2>5
<1>4. BehindReader'
  <2> SUFFICES ASSUME read.pc = "reading"
               PROVE  /\ read.past => read.query.to # -1 /\ read.query.to < clock'
                      /\ Len(events') <= MaxJournalOffset =>
                           /\ read.offset <= Len(events')
                           /\ read.past /\ ~read.disturbed =>
                                /\ ~read.repeated
                                /\ \A i \in read.seen :
                                     /\ i \in RowsOf(WindowNow)'
                                     /\ 1 + Cardinality(Ahead(RowsOf(WindowNow), i))' <= read.offset
    BY <1>1, Zenon DEF BehindReader
  <2>1. read.past => read.query.to # -1 /\ read.query.to < clock
    BY DEF ReaderTrue, BehindReader
  <2>2. read.past => read.query.to # -1 /\ read.query.to < clock'
    BY <2>1, WindowTyped DEF GoesOn, JournalTyped, ReaderTrue
  <2>3. ASSUME Len(events') <= MaxJournalOffset
        PROVE  /\ read.offset <= Len(events')
               /\ read.past /\ ~read.disturbed =>
                    /\ ~read.repeated
                    /\ \A i \in read.seen :
                         /\ i \in RowsOf(WindowNow)'
                         /\ 1 + Cardinality(Ahead(RowsOf(WindowNow), i))' <= read.offset
    <3>1. Len(events) <= MaxJournalOffset
      BY <1>1, <2>3, PageSizes
    <3>2. /\ read.offset <= Len(events)
          /\ read.past /\ ~read.disturbed =>
               /\ ~read.repeated
               /\ \A i \in read.seen :
                    /\ i \in RowsOf(WindowNow)
                    /\ 1 + Cardinality(Ahead(RowsOf(WindowNow), i)) <= read.offset
      BY <3>1 DEF ReaderTrue, BehindReader
    <3>3. read.offset <= Len(events')
      BY <1>1, <3>2 DEF ReaderTrue, ReadTyped
    <3>4. ASSUME read.past, ~read.disturbed
          PROVE  /\ ~read.repeated
                 /\ \A i \in read.seen :
                      /\ i \in RowsOf(WindowNow)'
                      /\ 1 + Cardinality(Ahead(RowsOf(WindowNow), i))' <= read.offset
      <4>1. /\ RowsOf(WindowNow)' = RowsOf(WindowNow)
            /\ \A i \in RowsOf(WindowNow) : Ahead(RowsOf(WindowNow), i)' = Ahead(RowsOf(WindowNow), i)
        BY <2>1, <3>4, PastStays DEF ReaderTrue
      <4>2. ASSUME NEW i \in read.seen
            PROVE  /\ i \in RowsOf(WindowNow)'
                   /\ 1 + Cardinality(Ahead(RowsOf(WindowNow), i))' <= read.offset
        <5>1. i \in RowsOf(WindowNow) /\ 1 + Cardinality(Ahead(RowsOf(WindowNow), i)) <= read.offset
          BY <3>2, <3>4
        <5>2. Ahead(RowsOf(WindowNow), i)' = Ahead(RowsOf(WindowNow), i)
          BY <4>1, <5>1
        <5> QED
          BY <4>1, <5>1, <5>2
      <4> QED
        BY <3>2, <3>4, <4>2
    <3> QED
      BY <3>3, <3>4
  <2> QED
    BY <2>2, <2>3
<1>5. Journal!ReadsWhole'
  BY <1>1, PageSizes DEF ReaderTrue, Journal!ReadsWhole
<1> QED
  BY <1>2, <1>3, <1>4, <1>5 DEF ReaderTrue

(* While the journal stays, so do the rows. *)
LEMMA RowsStay ==
  ASSUME UNCHANGED <<service, alerts, events>>
  PROVE  /\ \A f : RowsOf(f)' = RowsOf(f)
         /\ \A f, i : Ahead(RowsOf(f), i)' = Ahead(RowsOf(f), i)
         /\ \A query, i : AsksFor(query, i)' <=> AsksFor(query, i)
<1>1. /\ \A id : Journal!Stored(id)' <=> Journal!Stored(id)
      /\ \A id : Journal!AlertOf(id)' = Journal!AlertOf(id)
  BY DEF Journal!Stored, Journal!AlertOf
<1>2. ASSUME NEW f
      PROVE  /\ RowsOf(f)' = RowsOf(f)
             /\ \A i : Ahead(RowsOf(f), i)' = Ahead(RowsOf(f), i)
  <2>1. Journal!MemoryRows(f)' = Journal!MemoryRows(f)
    BY <1>1 DEF Journal!MemoryRows, Journal!InWindow, Journal!Passes
  <2>2. Journal!PostgresRows(f)' = Journal!PostgresRows(f)
    BY <1>1 DEF Journal!PostgresRows, Journal!InWindow, Journal!Passes
  <2>3. RowsOf(f)' = RowsOf(f)
    BY <2>1, <2>2 DEF RowsOf
  <2> QED
    BY <2>3 DEF Ahead, Journal!Newer
<1>3. \A query, i : AsksFor(query, i)' <=> AsksFor(query, i)
  BY <1>1 DEF AsksFor, Journal!Passes
<1> QED
  BY <1>2, <1>3

LEMMA RowsUnread ==
  ASSUME UNCHANGED <<service, alerts, events, clock>>, read'.query = read.query
  PROVE  /\ WindowNow' = WindowNow
         /\ RowsOf(WindowNow)' = RowsOf(WindowNow)
         /\ \A i : Ahead(RowsOf(WindowNow), i)' = Ahead(RowsOf(WindowNow), i)
         /\ \A i : AsksFor(read.query, i)' <=> AsksFor(read.query, i)
<1>1. WindowNow' = WindowNow
  BY DEF WindowNow, Journal!Filters
<1>2. PICK f : f = WindowNow
  OBVIOUS
<1>3. PICK query : query = read.query
  OBVIOUS
<1>4. RowsOf(f)' = RowsOf(f)
  BY RowsStay
<1>5. \A i : Ahead(RowsOf(f), i)' = Ahead(RowsOf(f), i)
  BY RowsStay
<1>6. \A i : AsksFor(query, i)' <=> AsksFor(query, i)
  BY RowsStay
<1>7. RowsOf(WindowNow)' = RowsOf(WindowNow)
  BY <1>1, <1>2, <1>4 DEF RowsOf
<1>8. \A i : Ahead(RowsOf(WindowNow), i)' = Ahead(RowsOf(WindowNow), i)
  BY <1>7 DEF Ahead, Journal!Newer
<1>9. \A i : AsksFor(read.query, i)' <=> AsksFor(read.query, i)
  BY <1>3, <1>6 DEF AsksFor, Journal!Passes
<1> QED
  BY <1>1, <1>7, <1>8, <1>9

LEMMA PageRead ==
  ASSUME JournalTyped, ReaderTrue, Journal!ReadPage
  PROVE  ReaderTrue'
<1> DEFINE rows == RowsOf(WindowNow)
           place(i) == 1 + Cardinality(Ahead(rows, i))
           end == PassedOver + JournalPageSize
<1>1. /\ ReadTyped /\ AheadOfReader /\ BehindReader /\ read.pc = "reading" /\ read.offset \in Nat
      /\ PassedOver \in Nat /\ end \in Nat /\ MaxJournalOffset \in Nat /\ JournalPageSize \in Nat \ {0}
      /\ Len(events) \in Nat
  BY PageSizes DEF ReaderTrue, Journal!ReadPage, PassedOver, ReadTyped, JournalTyped
<1>2. PassedOver = Journal!Min({read.offset, MaxJournalOffset})
  BY <1>1 DEF PassedOver, Journal!Min
<1>3. PICK page : page = Journal!Page(WindowNow, JournalPageSize, PassedOver)
  OBVIOUS
<1>4. /\ page.rows = {i \in rows : place(i) \in PassedOver + 1..end}
      /\ page.more \in BOOLEAN
      /\ page.more <=> end < Cardinality(rows)
  <2>1. PassedOver \in Nat
    BY <1>1
  <2> QED
    BY <2>1, <1>3, PageHolds, Zenon
<1>5. PICK r : r = [read EXCEPT
        !.pc = IF page.more THEN "reading" ELSE "done",
        !.offset = @ + JournalPageSize, !.seen = @ \cup page.rows,
        !.repeated = @ \/ page.rows \cap read.seen # {},
        !.expected = IF page.more THEN @ ELSE {i \in @ : Journal!InWindow(WindowNow, events[i])}]
  OBVIOUS
<1>6. read' = r /\ UNCHANGED <<service, alerts, ids, events, counter, clock>>
  BY <1>2, <1>3, <1>5 DEF Journal!ReadPage, WindowNow
<1>7. /\ r.pc = (IF page.more THEN "reading" ELSE "done") /\ r.query = read.query
      /\ r.offset = read.offset + JournalPageSize /\ r.seen = read.seen \cup page.rows
      /\ r.past = read.past /\ r.disturbed = read.disturbed
  BY <1>1, <1>5 DEF ReadTyped
<1>8. r.expected = IF page.more THEN read.expected
                   ELSE {i \in read.expected : Journal!InWindow(WindowNow, events[i])}
  BY <1>1, <1>5 DEF ReadTyped
<1>9. /\ read.repeated \/ page.rows \cap read.seen # {} => r.repeated
      /\ r.repeated => read.repeated \/ page.rows \cap read.seen # {}
  BY <1>1, <1>5 DEF ReadTyped
<1>10. /\ WindowNow' = WindowNow /\ RowsOf(WindowNow)' = rows
       /\ \A i : Ahead(RowsOf(WindowNow), i)' = Ahead(rows, i)
       /\ \A i : AsksFor(read.query, i)' <=> AsksFor(read.query, i)
  BY <1>6, <1>7, RowsUnread
<1>11. /\ rows \subseteq DOMAIN events /\ Cardinality(rows) \in Nat /\ Cardinality(rows) <= Len(events)
       /\ \A i \in DOMAIN events : place(i) \in Nat
       /\ \A i \in rows : place(i) <= Cardinality(rows)
  BY RowsAreEvents, Places
<1>12. page.rows \subseteq Nat
  BY <1>4, <1>11, EventTyped
<1> HIDE DEF rows, place, end
<1>13. ReadTyped'
  <2>1. /\ r.offset \in Nat /\ r.pc \in {"idle", "reading", "done"}
        /\ r.seen \in SUBSET Nat /\ r.expected \in SUBSET Nat /\ r.query = read.query
        /\ r.past = read.past /\ r.disturbed = read.disturbed
    BY <1>1, <1>4, <1>7, <1>8, <1>12 DEF ReadTyped
  <2> QED
    BY <1>1, <1>5, <1>6, <2>1 DEF ReadTyped
<1>14. ~read.disturbed =>
         \A i \in read.expected :
           /\ i \in DOMAIN events /\ AsksFor(read.query, i) /\ events[i].at <= WindowNow.to
           /\ WindowNow.from <= events[i].at => i \in read.seen \/ place(i) > PassedOver
  BY <1>1, Zenon DEF AheadOfReader, rows, place
<1>15. ASSUME ~read.disturbed, NEW i \in read.expected, WindowNow.from <= events[i].at
       PROVE  i \in r.seen \/ place(i) > end
  <2>1. /\ i \in DOMAIN events /\ AsksFor(read.query, i) /\ events[i].at <= WindowNow.to
        /\ i \in read.seen \/ place(i) > PassedOver
    BY <1>14, <1>15
  <2>2. CASE i \in read.seen
    BY <1>7, <2>2
  <2>3. CASE place(i) > PassedOver
    <3>1. i \in rows
      BY <1>15, <2>1, SelectsNow DEF NowSelects, rows
    <3>2. place(i) \in Nat
      BY <1>11, <2>1
    <3>3. CASE place(i) <= end
      <4>1. place(i) \in PassedOver + 1..end
        BY <1>1, <2>3, <3>2, <3>3
      <4> QED
        BY <1>4, <1>7, <3>1, <4>1
    <3> QED
      BY <1>1, <3>2, <3>3 DEF end
  <2> QED
    BY <2>1, <2>2, <2>3
<1>16. PassedOver' <= end /\ PassedOver' \in Nat
  BY <1>1, <1>6, <1>7 DEF PassedOver, end
<1>17. AheadOfReader'
  <2> SUFFICES ASSUME r.pc = "reading", ~r.disturbed, NEW i \in r.expected
               PROVE  /\ i \in DOMAIN events /\ AsksFor(read.query, i)' /\ events[i].at <= WindowNow.to
                      /\ WindowNow.from <= events[i].at =>
                           \/ i \in r.seen
                           \/ 1 + Cardinality(Ahead(RowsOf(WindowNow), i))' > PassedOver'
    BY <1>6, <1>10, Zenon DEF AheadOfReader
  <2>1. page.more /\ i \in read.expected /\ ~read.disturbed
    BY <1>4, <1>7, <1>8
  <2>2. /\ i \in DOMAIN events /\ AsksFor(read.query, i) /\ events[i].at <= WindowNow.to
    BY <1>14, <2>1
  <2>3. 1 + Cardinality(Ahead(RowsOf(WindowNow), i))' = place(i) /\ place(i) \in Nat
    BY <1>10, <1>11, <2>2 DEF place
  <2>4. WindowNow.from <= events[i].at => i \in r.seen \/ place(i) > PassedOver'
    BY <1>1, <1>15, <1>16, <2>1, <2>3
  <2> QED
    BY <1>10, <2>2, <2>3, <2>4
<1>18. ASSUME read.past, ~read.disturbed, Len(events) <= MaxJournalOffset
       PROVE  ~r.repeated /\ \A i \in r.seen : i \in rows /\ place(i) <= r.offset
  <2>1. /\ read.offset <= Len(events) /\ ~read.repeated
        /\ \A i \in read.seen : i \in rows /\ place(i) <= read.offset
    BY <1>1, <1>18, Zenon DEF BehindReader, rows, place
  <2>2. PassedOver = read.offset /\ end = r.offset
    BY <1>1, <1>7, <1>18, <2>1 DEF PassedOver, end
  <2>3. page.rows \cap read.seen = {}
    BY <1>1, <1>4, <1>11, <2>1, <2>2
  <2>4. ~r.repeated
    BY <1>9, <2>1, <2>3, Zenon
  <2>5. ASSUME NEW i \in r.seen
        PROVE  i \in rows /\ place(i) <= r.offset
    <3>1. CASE i \in read.seen
      <4>1. i \in rows /\ place(i) <= read.offset /\ place(i) \in Nat
        BY <1>11, <2>1, <3>1
      <4> QED
        BY <1>1, <1>7, <4>1
    <3>2. CASE i \in page.rows
      BY <1>1, <1>4, <2>2, <3>2
    <3> QED
      BY <1>7, <2>5, <3>1, <3>2
  <2> QED
    BY <2>4, <2>5
<1>19. BehindReader'
  <2> SUFFICES ASSUME r.pc = "reading"
               PROVE  /\ r.past => read.query.to # -1 /\ read.query.to < clock
                      /\ Len(events) <= MaxJournalOffset =>
                           /\ r.offset <= Len(events)
                           /\ r.past /\ ~r.disturbed =>
                                /\ ~r.repeated
                                /\ \A i \in r.seen :
                                     /\ i \in RowsOf(WindowNow)'
                                     /\ 1 + Cardinality(Ahead(RowsOf(WindowNow), i))' <= r.offset
    BY <1>6, <1>7, Zenon DEF BehindReader
  <2>1. read.past => read.query.to # -1 /\ read.query.to < clock
    BY <1>1 DEF BehindReader
  <2>2. ASSUME Len(events) <= MaxJournalOffset
        PROVE  r.offset <= Len(events)
    <3>1. read.offset <= Len(events)
      BY <1>1, <2>2 DEF BehindReader
    <3>2. end < Cardinality(rows)
      BY <1>4, <1>7
    <3> QED
      BY <1>1, <1>7, <1>11, <2>2, <3>1, <3>2 DEF PassedOver, end
  <2>3. ASSUME Len(events) <= MaxJournalOffset, r.past, ~r.disturbed
        PROVE  /\ ~r.repeated
               /\ \A i \in r.seen :
                    /\ i \in RowsOf(WindowNow)'
                    /\ 1 + Cardinality(Ahead(RowsOf(WindowNow), i))' <= r.offset
    BY <1>7, <1>10, <1>18, <2>3 DEF place
  <2> QED
    BY <1>7, <2>1, <2>2, <2>3
<1>20. Journal!ReadsWhole'
  <2> SUFFICES ASSUME r.pc = "done", ~r.disturbed
               PROVE  /\ r.expected \subseteq r.seen
                      /\ r.past /\ Len(events) <= MaxJournalOffset => ~r.repeated
    BY <1>6, Zenon DEF Journal!ReadsWhole
  <2>1. ~page.more /\ Cardinality(rows) <= end
    BY <1>1, <1>4, <1>7, <1>11
  <2>2. ASSUME NEW i \in r.expected
        PROVE  i \in r.seen
    <3>1. i \in read.expected /\ WindowNow.from <= events[i].at /\ ~read.disturbed
      BY <1>7, <1>8, <2>1 DEF Journal!InWindow
    <3>2. i \in DOMAIN events /\ AsksFor(read.query, i) /\ events[i].at <= WindowNow.to
      BY <1>14, <3>1
    <3>3. i \in rows
      BY <3>1, <3>2, SelectsNow DEF NowSelects, rows
    <3>4. place(i) <= end /\ place(i) \in Nat
      BY <1>1, <1>11, <2>1, <3>3
    <3> QED
      BY <1>1, <1>15, <3>1, <3>4
  <2> QED
    BY <1>7, <1>18, <2>2
<1> QED
  BY <1>13, <1>17, <1>19, <1>20 DEF ReaderTrue

LEMMA ReadBegins ==
  ASSUME JournalTyped, EventsReferTo, ReaderTrue,
         NEW query \in JournalQueries, Journal!BeginRead(query)
  PROVE  ReaderTrue'
<1> DEFINE past == query.to # -1 /\ query.to < clock
<1>0. PICK f : f = Journal!Filters(query, JournalWeek)
  OBVIOUS
<1>1. PICK wanted : wanted = Journal!Recorded(f)
  OBVIOUS
<1>2. PICK r : r = [Journal!NoRead EXCEPT !.pc = "reading", !.query = query,
                      !.past = past, !.expected = wanted]
  OBVIOUS
<1>3. read' = r /\ UNCHANGED <<service, alerts, ids, events, counter, clock>>
  BY <1>0, <1>1, <1>2 DEF Journal!BeginRead, Journal!Default
<1>4. past \in BOOLEAN
  OBVIOUS
<1> HIDE DEF past
<1>5. r = [pc |-> "reading", query |-> query, offset |-> 0, seen |-> {}, expected |-> wanted,
           past |-> past, disturbed |-> FALSE, repeated |-> FALSE]
  BY <1>2 DEF Journal!NoRead
<1>6. /\ r.pc = "reading" /\ r.query = query /\ r.offset = 0 /\ r.seen = {} /\ r.expected = wanted
      /\ ~r.disturbed /\ ~r.repeated
  BY <1>5
<1>7. wanted \subseteq DOMAIN events
  BY <1>1, RowsAreEvents DEF Journal!Recorded, RowsOf
<1>8. ReadTyped'
  <2>1. wanted \in SUBSET Nat
    BY <1>7, EventTyped
  <2> QED
    BY <1>3, <1>4, <1>5, <2>1 DEF ReadTyped
<1>9. WindowNow' = f
  BY <1>0, <1>3, <1>6 DEF WindowNow, Journal!Filters
<1>10. ASSUME NEW i \in wanted
       PROVE  i \in DOMAIN events /\ AsksFor(query, i) /\ events[i].at <= f.to
  <2>1. CASE service.store = "memory"
    <3>1. i \in RowsOf(f)
      BY <1>1, <2>1 DEF Journal!Recorded, RowsOf
    <3> QED
      BY <1>0, <3>1, Stores, RowsMeet
  <2>2. CASE service.store # "memory"
    <3>1. service.store = "postgres"
      BY <2>2, Stores
    <3>2. /\ i \in DOMAIN events /\ events[i].scope = "external" /\ events[i].at <= f.to
          /\ Journal!Passes(f.destination, events[i].destination)
          /\ Journal!Passes(f.status, events[i].status)
          /\ Journal!Stored(events[i].alert) =>
               Journal!Passes(f.severity, Journal!AlertOf(events[i].alert).severity)
      BY <1>1, <2>2, Zenon DEF Journal!Recorded, Journal!InWindow
    <3>3. Journal!Stored(events[i].alert)
      BY <3>1, <3>2 DEF EventsReferTo
    <3>4. f.destination = query.destination /\ f.severity = query.severity /\ f.status = query.status
      BY <1>0, WindowOf, Zenon
    <3> QED
      BY <2>2, <3>2, <3>3, <3>4, Zenon DEF AsksFor
  <2> QED
    BY <2>1, <2>2
<1>11. AheadOfReader'
  <2> SUFFICES ASSUME NEW i \in wanted
               PROVE  /\ i \in DOMAIN events /\ AsksFor(query, i)' /\ events[i].at <= f.to
                      /\ 1 + Cardinality(Ahead(RowsOf(f), i))' > PassedOver'
    BY <1>3, <1>6, <1>9, Zenon DEF AheadOfReader
  <2>1. i \in DOMAIN events /\ AsksFor(query, i) /\ events[i].at <= f.to
    BY <1>10
  <2>2. AsksFor(query, i)'
    BY <1>3, <2>1, RowsStay
  <2>3. Ahead(RowsOf(f), i)' = Ahead(RowsOf(f), i)
    BY <1>3, RowsStay
  <2>4. PassedOver' = 0
    BY <1>3, <1>6, PageSizes DEF PassedOver
  <2>5. Cardinality(Ahead(RowsOf(f), i)) \in Nat
    BY <2>1, RowsAreEvents, Places
  <2> QED
    BY <2>1, <2>2, <2>3, <2>4, <2>5
<1>12. BehindReader'
  <2>1. Len(events) \in Nat
    BY DEF JournalTyped
  <2>2. read' = r /\ events' = events /\ clock' = clock
    BY <1>3
  <2>3. r.query.to = query.to /\ (r.past => query.to # -1 /\ query.to < clock)
    BY <1>5 DEF past
  <2> QED
    BY <1>6, <2>1, <2>2, <2>3 DEF BehindReader
<1>13. Journal!ReadsWhole'
  BY <1>3, <1>6 DEF Journal!ReadsWhole
<1> QED
  BY <1>8, <1>11, <1>12, <1>13 DEF ReaderTrue

(* What is recorded is later than all that was before now. *)
LEMMA RecordKeeps ==
  ASSUME JournalTypes, ReaderTrue, NEW e \in JournalEvent, Journal!Record(e),
         clock <= e.at, e.at <= clock + Len(events) + 1,
         counter' \in Nat, counter' <= Len(events) + 1
  PROVE  JournalTypes' /\ ReaderTrue'
<1>1. /\ JournalTyped /\ AlertsApart /\ EventsDated /\ EventsReferTo
      /\ events \in Seq(JournalEvent) /\ Len(events) \in Nat /\ clock \in Nat /\ e.at \in Nat
  BY DEF JournalTypes, JournalTyped, JournalEvent
<1>2. events' = Append(events, e) /\ UNCHANGED <<service, alerts, ids, clock, read>>
  BY DEF Journal!Record
<1>3. /\ events' \in Seq(JournalEvent) /\ Len(events') = Len(events) + 1
      /\ DOMAIN events = 1..Len(events) /\ DOMAIN events' = 1..(Len(events) + 1)
      /\ \A i \in DOMAIN events : i \in DOMAIN events' /\ events'[i] = events[i]
      /\ events'[Len(events) + 1] = e
  BY <1>1, <1>2
<1>4. JournalTyped'
  BY <1>1, <1>2, <1>3 DEF JournalTyped
<1>5. AlertsApart'
  BY <1>1, <1>2 DEF AlertsApart
<1>6. EventsDated'
  <2>1. ASSUME NEW i \in DOMAIN events'
        PROVE  events'[i].at <= clock' + Len(events')
    <3>1. CASE i \in DOMAIN events
      BY <1>1, <1>2, <1>3, <3>1, EventTyped DEF EventsDated
    <3>2. CASE i = Len(events) + 1
      BY <1>1, <1>2, <1>3, <3>2
    <3> QED
      BY <1>1, <1>3, <3>1, <3>2
  <2> QED
    BY <1>3, <2>1 DEF EventsDated
<1>7. EventsReferTo'
  <2> SUFFICES ASSUME service.store = "postgres", NEW i \in DOMAIN events'
               PROVE  Journal!Stored(events[i].alert)'
    BY <1>2, Zenon DEF EventsReferTo
  <2>1. \A id : Journal!Stored(id)' <=> Journal!Stored(id)
    BY <1>2 DEF Journal!Stored
  <2>2. CASE i \in DOMAIN events
    <3>1. Journal!Stored(events[i].alert)
      BY <1>1, <2>2 DEF EventsReferTo
    <3> QED
      BY <1>2, <1>3, <2>2, <3>1 DEF Journal!Stored
  <2>3. CASE i = Len(events) + 1
    <3>1. Journal!Stored(e.alert)
      BY DEF Journal!Record
    <3> QED
      BY <1>2, <1>3, <2>3, <3>1 DEF Journal!Stored
  <2> QED
    BY <1>1, <1>3, <2>2, <2>3
<1>8. GoesOn
  <2>1. \A i \in DOMAIN events' : i \in DOMAIN events \/ events'[i].at >= clock
    BY <1>1, <1>3
  <2> QED
    BY <1>1, <1>2, <1>3, <2>1 DEF GoesOn
<1>9. ReaderTrue'
  BY <1>1, <1>4, <1>8, ReaderGoesOn
<1> QED
  BY <1>4, <1>5, <1>6, <1>7, <1>9 DEF JournalTypes

LEMMA StampedKeeps ==
  ASSUME JournalTypes, ReaderTrue, NEW alert \in Journal!Copies, NEW type \in NotificationTypes,
         NEW scope \in {"internal", "external"}, NEW destination \in Journal!Destination \cup {"none"},
         NEW sink \in Journal!Destination \cup {Journal!Sink, "log", "none"},
         NEW status \in DeliveryOutcomes \cup {"sent", "failed", "suppressed", "skipped"},
         Journal!Stamped(alert, scope, destination, sink, type, status)
  PROVE  JournalTypes' /\ ReaderTrue'
<1>1. alert.id \in Nat \ {0} /\ clock \in Nat /\ counter \in Nat /\ Len(events) \in Nat
  BY DEF JournalTypes, JournalTyped, Journal!Copies
<1>2. counter <= Len(events)
  BY DEF JournalTypes, EventsDated
<1>3. counter' = counter + 1 /\ clock + counter' \in Nat /\ counter' \in Nat
  BY <1>1 DEF Journal!Stamped
<1>4. PICK e : e = Journal!Notification(alert, scope, destination, sink, type, status, clock + counter')
  OBVIOUS
<1>5. Journal!Record(e)
  BY <1>4 DEF Journal!Stamped
<1>6. e \in JournalEvent /\ e.at = clock + counter'
  BY <1>1, <1>3, <1>4 DEF Journal!Notification, JournalEvent
<1> QED
  BY <1>1, <1>2, <1>3, <1>5, <1>6, RecordKeeps

LEMMA DispatchKeeps ==
  ASSUME JournalTypes, ReaderTrue, NEW alert \in Journal!Copies, NEW type \in NotificationTypes,
         Journal!Dispatched(alert, type)
  PROVE  JournalTypes' /\ ReaderTrue'
<1>1. CASE Journal!DispatchInternal(alert, type)
  BY <1>1, StampedKeeps DEF Journal!DispatchInternal
<1>2. ASSUME NEW name \in Journal!Destination, NEW status \in DeliveryOutcomes,
             Journal!DispatchRouted(alert, type, name, status)
      PROVE  JournalTypes' /\ ReaderTrue'
  BY <1>2, StampedKeeps DEF Journal!DispatchRouted
<1>3. ASSUME NEW status \in {"sent", "failed", "suppressed", "skipped"},
             Journal!DispatchLegacy(alert, type, status)
      PROVE  JournalTypes' /\ ReaderTrue'
  <2>1. Journal!Stamped(alert, "external", "none", Journal!Sink, type, status)
    BY <1>3 DEF Journal!DispatchLegacy
  <2> QED
    BY <2>1, StampedKeeps
<1>4. CASE Journal!DispatchFailed(alert, type)
  <2>1. alert.id \in Nat \ {0} /\ clock \in Nat /\ counter \in Nat /\ Len(events) \in Nat
    BY DEF JournalTypes, JournalTyped, Journal!Copies
  <2>2. PICK e : e = Journal!Notification(alert, "external", "none", "none", type, "failed", clock)
    OBVIOUS
  <2>3. Journal!Record(e) /\ counter' = counter
    BY <1>4, <2>2 DEF Journal!DispatchFailed
  <2>4. e \in JournalEvent /\ e.at = clock
    BY <2>1, <2>2 DEF Journal!Notification, JournalEvent
  <2>5. counter <= Len(events)
    BY DEF JournalTypes, EventsDated
  <2> QED
    BY <2>1, <2>3, <2>4, <2>5, RecordKeeps
<1> QED
  BY <1>1, <1>2, <1>3, <1>4, Zenon DEF Journal!Dispatched

(* A reader that is disturbed is promised nothing. *)
LEMMA ReaderDisturbed ==
  ASSUME JournalTyped, ReaderTrue, UNCHANGED <<events, clock>>,
         read' = [read EXCEPT !.disturbed = TRUE]
  PROVE  ReaderTrue'
<1>1. read' = [pc |-> read.pc, query |-> read.query, offset |-> read.offset, seen |-> read.seen,
               expected |-> read.expected, past |-> read.past, disturbed |-> TRUE,
               repeated |-> read.repeated]
  BY DEF ReaderTrue, ReadTyped
<1>2. ReadTyped'
  BY <1>1 DEF ReaderTrue, ReadTyped
<1>3. /\ read'.pc = read.pc /\ read'.query = read.query /\ read'.offset = read.offset
      /\ read'.past = read.past /\ read'.disturbed
  BY <1>1
<1>4. AheadOfReader'
  BY <1>3 DEF AheadOfReader
<1>5. BehindReader'
  BY <1>3, Zenon DEF ReaderTrue, BehindReader
<1>6. Journal!ReadsWhole'
  BY <1>3 DEF Journal!ReadsWhole
<1> QED
  BY <1>2, <1>4, <1>5, <1>6 DEF ReaderTrue

LEMMA SaveKeeps ==
  ASSUME JournalTypes, ReaderTrue, NEW key \in JournalKeys, NEW alert \in Journal!Alert,
         Journal!Save(key, alert)
  PROVE  JournalTypes' /\ ReaderTrue'
<1>1. /\ JournalTyped /\ AlertsApart /\ EventsDated /\ EventsReferTo
      /\ alerts \in [JournalKeys -> Journal!Alert] /\ ids \in Nat /\ clock \in Nat
      /\ Len(events) \in Nat
  BY DEF JournalTypes, JournalTyped
<1>2. /\ alert.id # 0 /\ alert.id \in {alerts[key].id, ids + 1}
      /\ alerts' = [alerts EXCEPT ![key] = alert]
      /\ ids' = (IF alert.id > ids THEN alert.id ELSE ids)
      /\ UNCHANGED <<service, events, counter, clock>>
  BY DEF Journal!Save
<1>3. /\ \A k \in JournalKeys : alerts[k].id \in Nat /\ alerts[k].id <= ids
      /\ alert.id \in Nat
  BY <1>1 DEF AlertsApart, Journal!Alert
<1>4. /\ alerts'[key] = alert
      /\ \A k \in JournalKeys : k # key => alerts'[k] = alerts[k]
  BY <1>1, <1>2
<1>5. ids' \in Nat /\ ids <= ids' /\ alert.id <= ids'
  BY <1>1, <1>2, <1>3
<1>6. JournalTyped'
  BY <1>1, <1>2, <1>5 DEF JournalTyped
<1>7. AlertsApart'
  <2>1. ASSUME NEW k \in JournalKeys
        PROVE  alerts'[k].id <= ids'
    BY <1>1, <1>3, <1>4, <1>5
  <2>2. ASSUME NEW k \in JournalKeys, NEW l \in JournalKeys,
               alerts'[k].id = alerts'[l].id, alerts'[k].id # 0
        PROVE  k = l
    <3>1. \A m \in JournalKeys \ {key} : alerts'[m].id = alerts[m].id /\ alerts[m].id < ids + 1
      BY <1>1, <1>3, <1>4
    <3>2. CASE alert.id = alerts[key].id
      BY <1>1, <1>4, <2>2, <3>1, <3>2 DEF AlertsApart
    <3>3. CASE alert.id = ids + 1
      BY <1>1, <1>3, <1>4, <2>2, <3>1, <3>3 DEF AlertsApart
    <3> QED
      BY <1>2, <3>2, <3>3
  <2> QED
    BY <2>1, <2>2 DEF AlertsApart
<1>8. EventsDated'
  BY <1>1, <1>2 DEF EventsDated
<1>9. EventsReferTo'
  <2> SUFFICES ASSUME service.store = "postgres", NEW i \in DOMAIN events
               PROVE  \E k \in JournalKeys : alerts'[k].id = events[i].alert
    BY <1>2, Zenon DEF EventsReferTo, Journal!Stored
  <2>1. PICK k \in JournalKeys : alerts[k].id = events[i].alert
    BY <1>1 DEF EventsReferTo, Journal!Stored
  <2>2. CASE k # key
    BY <1>4, <2>1, <2>2
  <2>3. CASE k = key
    <3>1. Journal!Referenced(alerts[key].id)
      BY <2>1, <2>3 DEF Journal!Referenced
    <3>2. alert.id = alerts[key].id
      BY <3>1 DEF Journal!Save
    <3> QED
      BY <1>4, <2>1, <2>3, <3>2
  <2> QED
    BY <2>2, <2>3
<1>10. CASE alert.id = alerts[key].id /\ alert.severity = alerts[key].severity /\ ~read.disturbed
  <2>1. read' = [read EXCEPT !.disturbed = FALSE]
    BY <1>10 DEF Journal!Save, ReaderTrue, ReadTyped
  <2>2. read' = read
    BY <1>10, <2>1 DEF ReaderTrue, ReadTyped
  <2>3. GoesOn
    BY <1>1, <1>2, <1>4, <1>10, <2>2 DEF GoesOn
  <2> QED
    BY <1>1, <1>6, <1>7, <1>8, <1>9, <2>3, ReaderGoesOn DEF JournalTypes
<1>11. CASE ~(alert.id = alerts[key].id /\ alert.severity = alerts[key].severity /\ ~read.disturbed)
  <2>1. read' = [read EXCEPT !.disturbed = TRUE]
    BY <1>11 DEF Journal!Save, ReaderTrue, ReadTyped
  <2> QED
    BY <1>1, <1>2, <1>6, <1>7, <1>8, <1>9, <2>1, ReaderDisturbed DEF JournalTypes
<1> QED
  BY <1>10, <1>11

LEMMA TimeKeeps ==
  ASSUME JournalTypes, ReaderTrue, Journal!Restart \/ Journal!Tick \/ UNCHANGED Journal!vars
  PROVE  JournalTypes' /\ ReaderTrue'
<1>1. /\ JournalTyped /\ AlertsApart /\ EventsDated /\ EventsReferTo
      /\ clock \in Nat /\ counter \in Nat /\ Len(events) \in Nat /\ JournalStep \in Nat
  BY JournalConstants DEF JournalTypes, JournalTyped
<1>2. /\ UNCHANGED <<service, alerts, ids, events, read>>
      /\ clock' \in {clock, clock + JournalStep} /\ counter' \in {counter, 0}
  BY DEF Journal!Restart, Journal!Tick, Journal!vars
<1>3. JournalTyped'
  BY <1>1, <1>2 DEF JournalTyped
<1>4. AlertsApart' /\ EventsReferTo'
  BY <1>1, <1>2 DEF AlertsApart, EventsReferTo, Journal!Stored
<1>5. EventsDated'
  <2>1. \A i \in DOMAIN events : events[i].at \in Nat
    BY <1>1, EventTyped
  <2> QED
    BY <1>1, <1>2, <2>1 DEF EventsDated
<1>6. GoesOn
  BY <1>1, <1>2 DEF GoesOn
<1> QED
  BY <1>1, <1>3, <1>4, <1>5, <1>6, ReaderGoesOn DEF JournalTypes

LEMMA JournalStarts ==
  ASSUME Journal!Init
  PROVE  JournalTypes /\ ReaderTrue
<1>1. JournalTyped
  <2>1. Journal!NoAlert \in Journal!Alert
    BY JournalConstants DEF Journal!NoAlert, Journal!Alert
  <2> QED
    BY <2>1 DEF Journal!Init, JournalTyped
<1>2. AlertsApart /\ EventsDated /\ EventsReferTo
  BY DEF Journal!Init, AlertsApart, EventsDated, EventsReferTo, Journal!NoAlert
<1>3. read = [pc |-> "idle", query |-> Journal!NoQuery, offset |-> 0, seen |-> {}, expected |-> {},
              past |-> FALSE, disturbed |-> FALSE, repeated |-> FALSE]
  BY DEF Journal!Init, Journal!NoRead
<1>4. ReaderTrue
  BY <1>3 DEF ReaderTrue, ReadTyped, AheadOfReader, BehindReader, Journal!ReadsWhole
<1> QED
  BY <1>1, <1>2, <1>4 DEF JournalTypes

LEMMA JournalKept ==
  ASSUME JournalTypes, ReaderTrue, [Journal!Next]_(Journal!vars)
  PROVE  JournalTypes' /\ ReaderTrue'
<1>1. ASSUME NEW key \in JournalKeys, NEW alert \in Journal!Alert, Journal!Save(key, alert)
      PROVE  JournalTypes' /\ ReaderTrue'
  BY <1>1, SaveKeeps
<1>2. ASSUME NEW alert \in Journal!Copies, NEW type \in NotificationTypes, Journal!Dispatched(alert, type)
      PROVE  JournalTypes' /\ ReaderTrue'
  BY <1>2, DispatchKeeps
<1>3. CASE Journal!Restart \/ Journal!Tick \/ UNCHANGED Journal!vars
  BY <1>3, TimeKeeps
<1>4. ASSUME NEW query \in JournalQueries, Journal!BeginRead(query)
      PROVE  JournalTypes' /\ ReaderTrue'
  <2>1. UNCHANGED <<service, alerts, ids, events, counter, clock>>
    BY <1>4 DEF Journal!BeginRead
  <2>2. JournalTypes'
    BY <2>1 DEF JournalTypes, JournalTyped, AlertsApart, EventsDated, EventsReferTo, Journal!Stored
  <2> QED
    BY <1>4, <2>2, ReadBegins DEF JournalTypes
<1>5. CASE Journal!ReadPage
  <2>1. UNCHANGED <<service, alerts, ids, events, counter, clock>>
    BY <1>5 DEF Journal!ReadPage
  <2>2. JournalTypes'
    BY <2>1 DEF JournalTypes, JournalTyped, AlertsApart, EventsDated, EventsReferTo, Journal!Stored
  <2> QED
    BY <1>5, <2>2, PageRead DEF JournalTypes
<1> QED
  BY <1>1, <1>2, <1>3, <1>4, <1>5, Zenon DEF Journal!Next

-----------------------------------------------------------------------------
(* The two stores *)

LEMMA NatGreatest ==
  ASSUME NEW T, T \subseteq Nat, T # {}, NEW bound \in Nat, \A x \in T : x <= bound
  PROVE  \E x \in T : \A y \in T : y <= x
<1> DEFINE rest == {bound - x : x \in T}
<1>1. rest \subseteq Nat /\ rest # {}
  <2>1. ASSUME NEW x \in T
        PROVE  bound - x \in Nat
    OBVIOUS
  <2>2. rest \subseteq Nat
    BY <2>1
  <2>3. rest # {}
    BY Zenon
  <2> QED
    BY <2>2, <2>3
<1> HIDE DEF rest
<1>2. PICK least \in rest : \A y \in rest : least <= y
  BY <1>1, NatLeast
<1>3. PICK x \in T : least = bound - x
  BY DEF rest
<1>4. ASSUME NEW y \in T
      PROVE  y <= x
  <2>1. bound - y \in rest
    BY DEF rest
  <2>2. bound - x <= bound - y
    BY <1>2, <1>3, <2>1
  <2>3. x \in Nat /\ y \in Nat
    OBVIOUS
  <2> QED
    BY <2>2, <2>3
<1> QED
  BY <1>4

LEMMA LatestTyped ==
  ASSUME JournalTypes, NEW rows, rows \subseteq DOMAIN events
  PROVE  Journal!Latest(rows) \in Int
<1>1. CASE rows = {}
  BY <1>1 DEF Journal!Latest, Journal!Default
<1>2. CASE rows # {}
  <2> DEFINE times == {events[i].at : i \in rows}
  <2>1. times \subseteq Nat /\ times # {}
    BY <1>2, EventTyped DEF JournalTypes
  <2>2. clock + Len(events) \in Nat /\ \A x \in times : x <= clock + Len(events)
    BY DEF JournalTypes, JournalTyped, EventsDated
  <2> HIDE DEF times
  <2>3. PICK x \in times : \A y \in times : y <= x
    BY <2>1, <2>2, NatGreatest
  <2>4. x \in times /\ \A y \in times : x >= y
    BY <2>1, <2>3
  <2>5. Journal!Max(times) \in times
    BY <2>4 DEF Journal!Max
  <2>6. Journal!Latest(rows) = Journal!Max(times)
    BY <1>2 DEF Journal!Latest, times
  <2>7. Journal!Latest(rows) \in Nat
    BY <2>1, <2>5, <2>6
  <2> QED
    BY <2>7
<1> QED
  BY <1>1, <1>2

(* Every notification names its destination. *)
Named == \A i \in DOMAIN events : events[i].scope = "external" => events[i].destination # "none"

LEMMA RowsAgree ==
  ASSUME Named, NEW f
  PROVE  Journal!MemoryRows(f) = Journal!PostgresRows(f)
<1>1. \A i \in Journal!MemoryRows(f) : i \in Journal!PostgresRows(f)
  BY Zenon DEF Journal!MemoryRows, Journal!PostgresRows
<1>2. \A i \in Journal!PostgresRows(f) : i \in Journal!MemoryRows(f)
  BY Zenon DEF Journal!MemoryRows, Journal!PostgresRows, Named
<1> QED
  BY <1>1, <1>2

LEMMA PagesAgree ==
  ASSUME JournalTyped, Named, NEW f, NEW limit, NEW offset, offset < Cardinality(Journal!MemoryRows(f))
  PROVE  Journal!MemoryPage(f, limit, offset) = Journal!PostgresPage(f, limit, offset)
<1>1. PICK rows : rows = Journal!MemoryRows(f) /\ rows = Journal!PostgresRows(f)
  BY RowsAgree
<1>2. offset < Journal!Cardinality(rows)
  BY <1>1, SameCardinality
<1> QED
  BY <1>1, <1>2, Zenon DEF Journal!MemoryPage, Journal!PostgresPage

LEMMA GroupsApart ==
  /\ Len(Journal!Groups) \in Nat /\ DOMAIN Journal!Groups = 1..Len(Journal!Groups)
  /\ \A m, n \in 1..Len(Journal!Groups) : Journal!Groups[m] = Journal!Groups[n] => m = n
  /\ \A name \in Journal!Destination \cup {"none"} :
       \E n \in 1..Len(Journal!Groups) : Journal!Groups[n] = name
<1> DEFINE L == Len(DestinationNames)
           G == Journal!Groups
<1>1. /\ DestinationNames \in Seq(STRING) /\ L \in Nat /\ DOMAIN DestinationNames = 1..L
      /\ \A m, n \in 1..L : DestinationNames[m] = DestinationNames[n] => m = n
      /\ \A n \in 1..L : DestinationNames[n] # "none"
  BY JournalConstants
<1>2. /\ Len(G) = L + 1 /\ DOMAIN G = 1..L + 1 /\ G[L + 1] = "none"
      /\ \A n \in 1..L : G[n] = DestinationNames[n]
  BY <1>1 DEF Journal!Groups
<1> HIDE DEF L, G
<1>3. ASSUME NEW name \in Journal!Destination
      PROVE  \E n \in 1..L : DestinationNames[n] = name
  BY <1>1 DEF Journal!Destination, Journal!ToSet
<1>4. \A m, n \in 1..L + 1 : G[m] = G[n] => m = n
  <2> SUFFICES ASSUME NEW m \in 1..L + 1, NEW n \in 1..L + 1, G[m] = G[n]
               PROVE  m = n
    OBVIOUS
  <2>1. CASE m \in 1..L /\ n \in 1..L
    BY <1>1, <1>2, <2>1
  <2>2. CASE m = L + 1 \/ n = L + 1
    BY <1>1, <1>2, <2>2
  <2> QED
    BY <1>1, <2>1, <2>2
<1>5. \A name \in Journal!Destination \cup {"none"} : \E n \in 1..L + 1 : G[n] = name
  BY <1>1, <1>2, <1>3
<1> QED
  BY <1>1, <1>2, <1>4, <1>5 DEF G

(* The groups' totals add up. *)
LEMMA GroupsCounted ==
  ASSUME JournalTyped, NEW rows, rows \subseteq DOMAIN events
  PROVE  Journal!SumOfGroups(rows) = Cardinality(rows)
<1> DEFINE G == Journal!Groups
           L == Len(G)
           group(n) == Journal!ForDestination(rows, G[n])
           upTo(n) == {i \in rows : \E m \in 1..n : events[i].destination = G[m]}
           size == [n \in 0..L |-> Cardinality(upTo(n))]
           Sums(f) == f = [n \in 0..L |-> IF n = 0 THEN 0 ELSE f[n - 1] + Journal!Cardinality(group(n))]
<1>1. L \in Nat /\ IsFiniteSet(rows)
  BY GroupsApart, Places
<1>2. \A n : IsFiniteSet(upTo(n)) /\ Cardinality(upTo(n)) \in Nat
  BY <1>1, FS_Subset, FS_CardinalityType
<1>3. upTo(L) = rows
  BY EventTyped, GroupsApart
<1>4. upTo(0) = {}
  OBVIOUS
<1>5. ASSUME NEW n \in 1..L
      PROVE  Cardinality(upTo(n)) = Cardinality(upTo(n - 1)) + Journal!Cardinality(group(n))
  <2>1. upTo(n) = upTo(n - 1) \cup group(n)
    BY <1>1, GroupsApart DEF Journal!ForDestination
  <2>2. upTo(n - 1) \cap group(n) = {}
    BY <1>1, GroupsApart DEF Journal!ForDestination
  <2>3. IsFiniteSet(group(n)) /\ Cardinality(group(n)) \in Nat
    BY <1>1, FS_Subset, FS_CardinalityType DEF Journal!ForDestination
  <2> HIDE DEF upTo, group
  <2>4. Cardinality(upTo(n)) = Cardinality(upTo(n - 1)) + Cardinality(group(n)) - Cardinality({})
    BY <1>2, <2>1, <2>2, <2>3, FS_Union
  <2> QED
    BY <1>2, <2>3, <2>4, FS_EmptySet, SameCardinality
<1> HIDE DEF G, L, group, upTo
<1>6. \A n \in 1..L : n - 1 \in 0..L
  BY <1>1
<1>7. Sums(size)
  <2>1. ASSUME NEW n \in 0..L
        PROVE  size[n] = IF n = 0 THEN 0 ELSE size[n - 1] + Journal!Cardinality(group(n))
    <3>1. CASE n = 0
      BY <1>4, <3>1, FS_EmptySet
    <3>2. CASE n # 0
      BY <1>1, <1>5, <1>6, <3>2
    <3> QED
      BY <3>1, <3>2
  <2> QED
    BY <2>1
<1>8. ASSUME NEW f, Sums(f)
      PROVE  f[L] = size[L]
  <2> DEFINE Wrong == {n \in 0..L : f[n] # size[n]}
  <2>1. \A n \in 0..L : f[n] = IF n = 0 THEN 0 ELSE f[n - 1] + Journal!Cardinality(group(n))
    BY <1>8
  <2>2. \A n \in 0..L : size[n] = IF n = 0 THEN 0 ELSE size[n - 1] + Journal!Cardinality(group(n))
    BY <1>7
  <2> HIDE DEF size
  <2>3. CASE Wrong = {}
    BY <1>1, <2>3
  <2>4. CASE Wrong # {}
    <3>1. Wrong \subseteq Nat
      BY <1>1
    <3> HIDE DEF Wrong
    <3>2. PICK n \in Wrong : \A m \in Wrong : n <= m
      BY <2>4, <3>1, NatLeast
    <3>3. n \in 0..L /\ f[n] # size[n]
      BY DEF Wrong
    <3>4. n # 0
      BY <1>1, <2>1, <2>2, <3>3
    <3>5. n - 1 \in 0..L /\ n - 1 \notin Wrong
      BY <1>1, <3>1, <3>2, <3>3, <3>4
    <3>6. f[n - 1] = size[n - 1]
      BY <3>5 DEF Wrong
    <3> QED
      BY <2>1, <2>2, <3>3, <3>4, <3>6
  <2> QED
    BY <2>3, <2>4
<1>9. Journal!SumOfGroups(rows) = (CHOOSE f : Sums(f))[L]
  BY DEF Journal!SumOfGroups, G, L, group
<1>10. Sums(CHOOSE f : Sums(f))
  BY <1>7, Zenon
<1> HIDE DEF Sums
<1>11. (CHOOSE f : Sums(f))[L] = size[L]
  BY <1>8, <1>10
<1>12. size[L] = Cardinality(rows)
  BY <1>1, <1>3
<1> QED
  BY <1>9, <1>11, <1>12

LEMMA TrendRowIs ==
  ASSUME JournalTypes, NEW rows, rows \subseteq DOMAIN events, NEW end, NEW name, NEW weekly
  PROVE  /\ Journal!TrendRow(rows, end, name, weekly).name = name
         /\ Journal!TrendRow(rows, end, name, weekly).order \in Int
         /\ [Journal!TrendRow(rows, end, name, FALSE) EXCEPT !.order = 0]
              = [Journal!TrendRow(rows, end, name, TRUE) EXCEPT !.order = 0]
<1> DEFINE comparison == Journal!ForDestination(rows, name)
           current == Journal!CurrentOf(comparison, end)
           hint == Journal!TrendHint(current, comparison)
           today == Journal!HealthHint(current)
           week == Journal!HealthHint(comparison)
           failures == Journal!Delta(current, comparison, "failed")
           volume == Journal!Cardinality(current) - Journal!Daily(Journal!Cardinality(comparison))
           Order(w) == IF w THEN Journal!LatestAtAll(current, comparison) ELSE Journal!LatestToday(current)
<1>1. comparison \subseteq DOMAIN events /\ current \subseteq DOMAIN events
  BY DEF Journal!ForDestination, Journal!CurrentOf
<1>2. \A w : Order(w) \in Int
  BY <1>1, LatestTyped DEF Journal!LatestAtAll, Journal!LatestToday
<1>3. \A w : Journal!TrendRow(rows, end, name, w) =
        [name |-> name, order |-> Order(w), hint |-> hint, current |-> today, comparison |-> week,
         failures |-> failures, volume |-> volume]
  BY DEF Journal!TrendRow
<1> HIDE DEF comparison, current, hint, today, week, failures, volume, Order
<1>4. ASSUME NEW w
      PROVE  /\ Journal!TrendRow(rows, end, name, w).name = name
             /\ Journal!TrendRow(rows, end, name, w).order \in Int
             /\ [Journal!TrendRow(rows, end, name, w) EXCEPT !.order = 0]
                  = [name |-> name, order |-> 0, hint |-> hint, current |-> today, comparison |-> week,
                     failures |-> failures, volume |-> volume]
  <2>1. PICK order \in Int : order = Order(w)
    BY <1>2
  <2>2. PICK row : row = Journal!TrendRow(rows, end, name, w)
    OBVIOUS
  <2>3. row = [name |-> name, order |-> order, hint |-> hint, current |-> today, comparison |-> week,
               failures |-> failures, volume |-> volume]
    BY <1>3, <2>1, <2>2
  <2>4. row.name = name /\ row.order = order
    BY <2>3
  <2>5. [row EXCEPT !.order = 0]
          = [name |-> name, order |-> 0, hint |-> hint, current |-> today, comparison |-> week,
             failures |-> failures, volume |-> volume]
    BY <2>3
  <2> QED
    BY <2>1, <2>2, <2>4, <2>5
<1> QED
  BY <1>4

(* All of the destinations fit into an answer. *)
LEMMA TrendsWhole ==
  ASSUME JournalTypes, NEW rows, rows \subseteq DOMAIN events, NEW end, NEW weekly,
         Journal!DestinationsOf(rows) \subseteq Journal!Destination
  PROVE  Journal!Limited(Journal!TrendRows(rows, end, weekly), Len(DestinationNames)).destinations
           = Journal!TrendRows(rows, end, weekly)
<1> DEFINE T == Journal!TrendRows(rows, end, weekly)
           Row(name) == Journal!TrendRow(rows, end, name, weekly)
           L == Len(DestinationNames)
           D == Journal!DestinationsOf(rows)
           used == {n \in 1..L : DestinationNames[n] \in D}
           f == [n \in used |-> Row(DestinationNames[n])]
           ahead(row) == {other \in T : Journal!Before(other, row)}
<1>1. /\ L \in Nat /\ DOMAIN DestinationNames = 1..L
      /\ \A n \in 1..L : DestinationNames[n] # "none"
  BY JournalConstants
<1>2. T = {Row(name) : name \in D}
  BY DEF Journal!TrendRows
<1>3. \A row \in T : row.order \in Int /\ row.name \in Journal!Destination
  <2>1. ASSUME NEW name
        PROVE  /\ Row(name).name = name
               /\ Row(name).order \in Int
               /\ [Journal!TrendRow(rows, end, name, FALSE) EXCEPT !.order = 0]
                    = [Journal!TrendRow(rows, end, name, TRUE) EXCEPT !.order = 0]
    BY TrendRowIs
  <2> HIDE DEF T, Row
  <2> QED
    BY <1>2, <2>1
<1>4. \A name \in Journal!Destination : Journal!Rank(name) \in Int
  BY <1>1 DEF Journal!Rank, Journal!Destination, Journal!ToSet
<1>5. \A row \in T : row \notin ahead(row)
  BY <1>3, <1>4 DEF Journal!Before
<1>6. IsFiniteSet(1..L) /\ Cardinality(1..L) = L
  <2>1. 1 \in Int /\ L \in Int
    BY <1>1
  <2>2. IsFiniteSet(1..L) /\ Cardinality(1..L) = IF 1 > L THEN 0 ELSE L - 1 + 1
    BY <2>1, FS_Interval, Zenon
  <2> QED
    BY <1>1, <2>2
<1>7. IsFiniteSet(used) /\ Cardinality(used) <= L /\ Cardinality(used) \in Nat
  BY <1>6, FS_Subset, FS_CardinalityType
<1>8. \A name \in D : \E n \in used : DestinationNames[n] = name
  BY <1>1 DEF Journal!Destination, Journal!ToSet
<1> HIDE DEF T, Row, L, D, used
<1>9. f \in Surjection(used, T)
  <2>1. f \in [used -> T]
    BY <1>2 DEF used
  <2>2. \A row \in T : \E n \in used : f[n] = row
    BY <1>2, <1>8
  <2> QED
    BY <2>1, <2>2 DEF Surjection
<1>10. IsFiniteSet(T) /\ Cardinality(T) <= Cardinality(used) /\ Cardinality(T) \in Nat
  BY <1>7, <1>9, FS_Surjection, FS_CardinalityType DEF ExistsSurjection
<1>11. ASSUME NEW row \in T
       PROVE  1 + Journal!Cardinality(ahead(row)) \in 1..L
  <2>1. ahead(row) \in SUBSET T /\ ahead(row) # T
    BY <1>5
  <2>2. /\ IsFiniteSet(ahead(row)) /\ Cardinality(ahead(row)) <= Cardinality(T)
        /\ Cardinality(ahead(row)) # Cardinality(T)
    BY <1>10, <2>1, FS_Subset
  <2>3. Cardinality(ahead(row)) \in Nat
    BY <2>2, FS_CardinalityType
  <2> HIDE DEF ahead
  <2>4. Journal!Cardinality(ahead(row)) = Cardinality(ahead(row))
    BY SameCardinality
  <2> QED
    BY <1>1, <1>7, <1>10, <2>2, <2>3, <2>4
<1>12. Journal!Limited(T, L).destinations = {row \in T : 1 + Journal!Cardinality(ahead(row)) \in 1..L}
  BY DEF Journal!Limited, Journal!Slice, Journal!Place
<1>13. Journal!Limited(T, L).destinations = T
  BY <1>11, <1>12
<1> QED
  BY <1>13 DEF T, L

Content(trends) == {[row EXCEPT !.order = 0] : row \in trends.destinations}

LEMMA TrendsAgree ==
  ASSUME JournalTypes, Named, NEW end
  PROVE  Content(Journal!MemoryTrends(end, Len(DestinationNames)))
           = Content(Journal!PostgresTrends(end, Len(DestinationNames)))
<1> DEFINE L == Len(DestinationNames)
<1>1. PICK rows : /\ rows = Journal!MemoryRows(Journal!TrendFilters(end))
                  /\ rows = Journal!PostgresRows(Journal!TrendFilters(end))
  BY RowsAgree
<1>2. rows \subseteq DOMAIN events
  BY <1>1 DEF Journal!MemoryRows
<1>3. Journal!DestinationsOf(rows) \subseteq Journal!Destination
  <2>1. \A i \in rows : i \in DOMAIN events /\ events[i].destination # "none"
    BY <1>1, Zenon DEF Journal!MemoryRows
  <2> QED
    BY <2>1, EventTyped DEF Journal!DestinationsOf, JournalTypes
<1>4. /\ Journal!MemoryTrends(end, L).destinations = Journal!TrendRows(rows, end, FALSE)
      /\ Journal!PostgresTrends(end, L).destinations = Journal!TrendRows(rows, end, TRUE)
  BY <1>1, <1>2, <1>3, TrendsWhole DEF Journal!MemoryTrends, Journal!PostgresTrends
<1>5. \A name : [Journal!TrendRow(rows, end, name, FALSE) EXCEPT !.order = 0]
                  = [Journal!TrendRow(rows, end, name, TRUE) EXCEPT !.order = 0]
  BY <1>2, TrendRowIs
<1>6. {[row EXCEPT !.order = 0] : row \in Journal!TrendRows(rows, end, FALSE)}
        = {[row EXCEPT !.order = 0] : row \in Journal!TrendRows(rows, end, TRUE)}
  <2> DEFINE Day(name) == Journal!TrendRow(rows, end, name, FALSE)
             Days(name) == Journal!TrendRow(rows, end, name, TRUE)
             D == Journal!DestinationsOf(rows)
  <2>1. /\ Journal!TrendRows(rows, end, FALSE) = {Day(name) : name \in D}
        /\ Journal!TrendRows(rows, end, TRUE) = {Days(name) : name \in D}
    BY DEF Journal!TrendRows
  <2>2. \A name : [Day(name) EXCEPT !.order = 0] = [Days(name) EXCEPT !.order = 0]
    BY <1>5
  <2> HIDE DEF Day, Days, D
  <2>3. {[row EXCEPT !.order = 0] : row \in {Day(name) : name \in D}}
          = {[Day(name) EXCEPT !.order = 0] : name \in D}
    OBVIOUS
  <2>4. {[row EXCEPT !.order = 0] : row \in {Days(name) : name \in D}}
          = {[Days(name) EXCEPT !.order = 0] : name \in D}
    OBVIOUS
  <2>5. {[Day(name) EXCEPT !.order = 0] : name \in D} = {[Days(name) EXCEPT !.order = 0] : name \in D}
    BY <2>2
  <2> QED
    BY <2>1, <2>3, <2>4, <2>5, Zenon
<1> QED
  BY <1>4, <1>6 DEF Content

LEMMA StoresAgreeAlways ==
  ASSUME JournalTypes
  PROVE  Journal!StoresAgree
<1> SUFFICES ASSUME Named, NEW f
             PROVE  /\ \A offset \in 0..(Journal!Cardinality(Journal!MemoryRows(f)) - 1) :
                         Journal!MemoryPage(f, JournalPageSize, offset)
                           = Journal!PostgresPage(f, JournalPageSize, offset)
                    /\ Journal!MemorySummary(f) = Journal!PostgresSummary(f)
                    /\ Content(Journal!MemoryTrends(clock, Len(DestinationNames)))
                         = Content(Journal!PostgresTrends(clock, Len(DestinationNames)))
  BY SMT DEF Journal!StoresAgree, Named, Content
<1>1. JournalTyped /\ Journal!MemoryRows(f) \subseteq DOMAIN events
  BY DEF JournalTypes, Journal!MemoryRows
<1>2. Cardinality(Journal!MemoryRows(f)) \in Nat
  BY <1>1, Places
<1>3. \A offset \in 0..(Journal!Cardinality(Journal!MemoryRows(f)) - 1) :
         Journal!MemoryPage(f, JournalPageSize, offset) = Journal!PostgresPage(f, JournalPageSize, offset)
  BY <1>1, <1>2, SameCardinality, PagesAgree
<1>4. Journal!MemorySummary(f) = Journal!PostgresSummary(f)
  BY <1>1, RowsAgree, GroupsCounted, SameCardinality DEF Journal!MemorySummary, Journal!PostgresSummary
<1> QED
  BY <1>3, <1>4, TrendsAgree

(* Whoever reads the journal to its last page misses nothing of what was    *)
(* recorded when the reading began, whatever is recorded meanwhile and      *)
(* however the window moves, and memory and Postgres answer alike: for any  *)
(* page size, any destinations and any number of deliveries.                *)
THEOREM JournalTold == Journal!Spec => []JournalToldTrue
<1>1. Journal!Init => JournalTypes /\ ReaderTrue
  BY JournalStarts
<1>2. (JournalTypes /\ ReaderTrue) /\ [Journal!Next]_(Journal!vars) => (JournalTypes /\ ReaderTrue)'
  BY JournalKept
<1>3. JournalTypes /\ ReaderTrue => JournalToldTrue
  BY StoresAgreeAlways DEF ReaderTrue, JournalToldTrue
<1> QED
  BY <1>1, <1>2, <1>3, PTL DEF Journal!Spec

-----------------------------------------------------------------------------
(* The sidecar's loop *)

KindOf(w) == IF w = "discovery" THEN "candidate" ELSE "observation"

SidecarEntry ==
  [id : Nat, kind : {"candidate", "observation"}, token : Sidecar!Range(SidecarTokens), time : Nat,
   state : {"none", "weak_reclaim", "reclaim_attempt", "structure_shift_possible"},
   active : {TRUE}]

SidecarCandidate ==
  [token : Sidecar!Range(SidecarTokens), level : 70..100, monitored : BOOLEAN,
   updatedAt : Nat, expires : Nat]

SidecarTask ==
  [at : {"idle", "asking", "directory", "writing"}, current : Nat, lines : Seq(SidecarEntry),
   todo : Seq(SidecarCandidate), since : Nat]

SidecarRecord ==
  [directory : BOOLEAN, buffer : Seq(SidecarEntry), entries : Nat,
   task : [Sidecar!Worker -> SidecarTask]]

Apart(lines) == \A i, j \in DOMAIN lines : lines[i].id = lines[j].id => i = j

(* What holds of the loop s, the file f, the lost entries l, the early ones *)
(* e, the reported ones r, and the time t; in between the parts of a step   *)
(* too.  Every entry is in one place.                                       *)
Placed(id, s, f, l) ==
  /\ id \in 1..s.entries <=>
       \/ id \in Sidecar!Ids(s.buffer) \/ id \in Sidecar!Ids(f) \/ id \in l
       \/ \E w \in Sidecar!Worker : id \in Sidecar!Ids(s.task[w].lines)
  /\ id \in Sidecar!Ids(s.buffer) => id \notin Sidecar!Ids(f) /\ id \notin l
  /\ id \in Sidecar!Ids(f) => id \notin l
  /\ \A w \in Sidecar!Worker : id \in Sidecar!Ids(s.task[w].lines) =>
       /\ id \notin Sidecar!Ids(s.buffer) /\ id \notin Sidecar!Ids(f) /\ id \notin l
       /\ \A v \in Sidecar!Worker : v # w => id \notin Sidecar!Ids(s.task[v].lines)
InOnePlace(s, f, l) ==
  /\ Apart(s.buffer) /\ Apart(f) /\ \A w \in Sidecar!Worker : Apart(s.task[w].lines)
  /\ \A id \in Nat : Placed(id, s, f, l)

(* An entry whose append will succeed is among the lines being written, or  *)
(* is an early one.                                                         *)
WillBeOnFile(s, f, e, r) ==
  /\ r \subseteq Sidecar!Ids(f) \cup e
  /\ Sidecar!Ids(s.buffer) \subseteq e
  /\ \A w \in Sidecar!Worker :
       /\ s.task[w].at = "directory" => s.task[w].current \in e
       /\ s.task[w].at = "writing" =>
            s.directory /\ s.task[w].current \in Sidecar!Ids(s.task[w].lines) \cup e
       /\ s.task[w].at # "writing" => s.task[w].lines = <<>>

(* Not earlier than what is on file of the kind *)
NotBefore(time, f, e, kind) ==
  \A k \in DOMAIN f : f[k].kind = kind /\ f[k].id \notin e => f[k].time <= time

(* Of the lines a tick writes only the last is not early, and it is its own *)
OwnLast(lines, f, e, w) ==
  \A i \in DOMAIN lines : lines[i].id \notin e =>
    /\ i = Len(lines) /\ lines[i].kind = KindOf(w)
    /\ NotBefore(lines[i].time, f, e, lines[i].kind)

Ordered(f, e) ==
  \A i, j \in DOMAIN f :
    i < j /\ f[i].kind = f[j].kind /\ f[i].id \notin e /\ f[j].id \notin e => f[i].time <= f[j].time

(* What discovery has still to ingest is of one time, which is not earlier  *)
(* than what it wrote; what the monitor has still to observe was active.    *)
YetToIngest(todo, lines, f, e, t) ==
  \A i \in DOMAIN todo :
    /\ todo[i].updatedAt <= t
    /\ \A j \in DOMAIN todo : todo[i].updatedAt = todo[j].updatedAt
    /\ NotBefore(todo[i].updatedAt, f, e, "candidate")
    /\ NotBefore(todo[i].updatedAt, lines, e, "candidate")
YetToObserve(todo, since) == \A i \in DOMAIN todo : todo[i].expires > since

NotAfter(lines, t) == \A i \in DOMAIN lines : lines[i].time <= t

InTimeOrder(s, f, e, t) ==
  /\ Ordered(f, e) /\ NotAfter(f, t) /\ NotAfter(s.buffer, t)
  /\ \A w \in Sidecar!Worker :
       OwnLast(s.task[w].lines, f, e, w) /\ NotAfter(s.task[w].lines, t)
  /\ YetToIngest(s.task["discovery"].todo, s.task["discovery"].lines, f, e, t)
  /\ YetToObserve(s.task["monitor"].todo, s.task["monitor"].since)

LoopHolds(s, f, l, e, r, t) ==
  /\ s \in SidecarRecord /\ f \in Seq(SidecarEntry) /\ t \in Nat
  /\ InOnePlace(s, f, l) /\ WillBeOnFile(s, f, e, r) /\ InTimeOrder(s, f, e, t)

RegistryTyped(reg) == \A token \in DOMAIN reg : reg[token] \in SidecarCandidate

SidecarInv ==
  /\ LoopHolds(loop, sidecarFile, lost, early, reported, sidecarClock)
  /\ RegistryTyped(registry)

LEMMA IdsAre ==
  ASSUME NEW lines, NEW id
  PROVE  id \in Sidecar!Ids(lines) <=> \E i \in DOMAIN lines : lines[i].id = id
  BY DEF Sidecar!Ids, Sidecar!Range

LEMMA IdsJoined ==
  ASSUME NEW p \in Seq(SidecarEntry), NEW q \in Seq(SidecarEntry)
  PROVE  /\ p \o q \in Seq(SidecarEntry)
         /\ Sidecar!Ids(p \o q) = Sidecar!Ids(p) \cup Sidecar!Ids(q)
<1>1. p \o q \in Seq(SidecarEntry) /\ Len(p \o q) = Len(p) + Len(q)
  OBVIOUS
<1>2. ASSUME NEW id
      PROVE  id \in Sidecar!Ids(p \o q) <=> id \in Sidecar!Ids(p) \/ id \in Sidecar!Ids(q)
  <2>1. ASSUME NEW i \in DOMAIN (p \o q)
        PROVE  \/ i \in DOMAIN p /\ (p \o q)[i] = p[i]
               \/ i - Len(p) \in DOMAIN q /\ (p \o q)[i] = q[i - Len(p)]
    OBVIOUS
  <2>2. ASSUME NEW i \in DOMAIN p PROVE i \in DOMAIN (p \o q) /\ (p \o q)[i] = p[i]
    OBVIOUS
  <2>3. ASSUME NEW i \in DOMAIN q
        PROVE  i + Len(p) \in DOMAIN (p \o q) /\ (p \o q)[i + Len(p)] = q[i]
    OBVIOUS
  <2>4. /\ id \in Sidecar!Ids(p \o q) <=> \E i \in DOMAIN (p \o q) : (p \o q)[i].id = id
        /\ id \in Sidecar!Ids(p) <=> \E i \in DOMAIN p : p[i].id = id
        /\ id \in Sidecar!Ids(q) <=> \E i \in DOMAIN q : q[i].id = id
    BY IdsAre, Zenon
  <2> QED
    BY <2>1, <2>2, <2>3, <2>4, Zenon
<1> QED
  BY <1>1, <1>2

LEMMA IdsAppended ==
  ASSUME NEW p \in Seq(SidecarEntry), NEW entry \in SidecarEntry
  PROVE  /\ Append(p, entry) \in Seq(SidecarEntry)
         /\ Sidecar!Ids(Append(p, entry)) = Sidecar!Ids(p) \cup {entry.id}
<1>1. Append(p, entry) \in Seq(SidecarEntry) /\ Len(Append(p, entry)) = Len(p) + 1
  OBVIOUS
<1>2. ASSUME NEW id
      PROVE  id \in Sidecar!Ids(Append(p, entry)) <=> id \in Sidecar!Ids(p) \/ id = entry.id
  <2>1. \A i \in DOMAIN Append(p, entry) :
          \/ i \in DOMAIN p /\ Append(p, entry)[i] = p[i]
          \/ Append(p, entry)[i] = entry
    OBVIOUS
  <2>2. /\ \A i \in DOMAIN p : i \in DOMAIN Append(p, entry) /\ Append(p, entry)[i] = p[i]
        /\ Len(p) + 1 \in DOMAIN Append(p, entry) /\ Append(p, entry)[Len(p) + 1] = entry
    OBVIOUS
  <2>3. /\ id \in Sidecar!Ids(Append(p, entry)) <=>
             \E i \in DOMAIN Append(p, entry) : Append(p, entry)[i].id = id
        /\ id \in Sidecar!Ids(p) <=> \E i \in DOMAIN p : p[i].id = id
    BY IdsAre, Zenon
  <2> QED
    BY <2>1, <2>2, <2>3, Zenon
<1> QED
  BY <1>1, <1>2

LEMMA NoIds == Sidecar!Ids(<<>>) = {} /\ Apart(<<>>) /\ <<>> \in Seq(SidecarEntry)
<1>1. \A id : id \notin Sidecar!Ids(<<>>)
  BY IdsAre
<1> QED
  BY <1>1 DEF Apart

LEMMA ApartJoined ==
  ASSUME NEW p \in Seq(SidecarEntry), NEW q \in Seq(SidecarEntry), Apart(p), Apart(q),
         \A id \in Nat : id \in Sidecar!Ids(p) => id \notin Sidecar!Ids(q)
  PROVE  Apart(p \o q)
<1> SUFFICES ASSUME NEW i \in DOMAIN (p \o q), NEW j \in DOMAIN (p \o q),
                    (p \o q)[i].id = (p \o q)[j].id
             PROVE  i = j
  BY DEF Apart
<1>1. ASSUME NEW k \in DOMAIN (p \o q)
      PROVE  \/ k \in DOMAIN p /\ (p \o q)[k] = p[k] /\ p[k].id \in Nat
             \/ k - Len(p) \in DOMAIN q /\ (p \o q)[k] = q[k - Len(p)] /\ q[k - Len(p)].id \in Nat
  <2>1. (\A n \in DOMAIN p : p[n] \in SidecarEntry) /\ \A n \in DOMAIN q : q[n] \in SidecarEntry
    OBVIOUS
  <2>2. \A entry \in SidecarEntry : entry.id \in Nat
    BY DEF SidecarEntry
  <2>3. \/ k \in DOMAIN p /\ (p \o q)[k] = p[k]
        \/ k - Len(p) \in DOMAIN q /\ (p \o q)[k] = q[k - Len(p)]
    OBVIOUS
  <2> QED
    BY <2>1, <2>2, <2>3, Zenon
<1>2. \A a \in DOMAIN p, b \in DOMAIN q : p[a].id \in Nat => p[a].id # q[b].id
  BY IdsAre
<1>3. \A a, b \in DOMAIN p : p[a].id = p[b].id => a = b
  BY DEF Apart
<1>4. \A a, b \in DOMAIN q : q[a].id = q[b].id => a = b
  BY DEF Apart
<1>5. i \in Int /\ j \in Int /\ Len(p) \in Int
  OBVIOUS
<1>6. CASE i \in DOMAIN p /\ (p \o q)[i] = p[i] /\ p[i].id \in Nat
  BY <1>1, <1>2, <1>3, <1>6
<1>7. CASE i - Len(p) \in DOMAIN q /\ (p \o q)[i] = q[i - Len(p)] /\ q[i - Len(p)].id \in Nat
  <2>1. j \notin DOMAIN p \/ (p \o q)[j] # p[j]
    BY <1>2, <1>7
  <2>2. j - Len(p) \in DOMAIN q /\ (p \o q)[j] = q[j - Len(p)]
    BY <1>1, <1>2, <1>7
  <2>3. i - Len(p) = j - Len(p)
    BY <1>4, <1>7, <2>2
  <2> QED
    BY <1>5, <2>3
<1> QED
  BY <1>1, <1>6, <1>7

LEMMA ApartAppended ==
  ASSUME NEW p \in Seq(SidecarEntry), NEW entry \in SidecarEntry, Apart(p),
         entry.id \notin Sidecar!Ids(p)
  PROVE  Apart(Append(p, entry))
<1>1. \A i \in DOMAIN Append(p, entry) :
        \/ i \in DOMAIN p /\ Append(p, entry)[i] = p[i]
        \/ i = Len(p) + 1 /\ Append(p, entry)[i] = entry
  OBVIOUS
<1>2. \A i \in DOMAIN p : p[i].id # entry.id
  BY IdsAre
<1> QED
  BY <1>1, <1>2 DEF Apart

IsEnded(ended, s, w) ==
  /\ ended \in SidecarRecord
  /\ ended.directory = s.directory /\ ended.buffer = s.buffer /\ ended.entries = s.entries
  /\ ended.task[w] = Sidecar!Idle
  /\ \A v \in Sidecar!Worker : v # w => ended.task[v] = s.task[v]

LEMMA EndedIs ==
  ASSUME NEW s \in SidecarRecord, NEW w \in Sidecar!Worker
  PROVE  IsEnded(Sidecar!Ended(s, w), s, w)
<1>1. Sidecar!Idle \in SidecarTask
  BY DEF Sidecar!Idle, SidecarTask
<1>2. PICK ended : ended = Sidecar!Ended(s, w)
  OBVIOUS
<1>3. /\ ended.directory = s.directory /\ ended.buffer = s.buffer /\ ended.entries = s.entries
      /\ ended.task = [s.task EXCEPT ![w] = Sidecar!Idle]
      /\ ended \in SidecarRecord
  BY <1>1, <1>2 DEF Sidecar!Ended, SidecarRecord
<1>4. s.task \in [Sidecar!Worker -> SidecarTask]
  BY DEF SidecarRecord
<1>5. /\ ended.task[w] = Sidecar!Idle
      /\ \A v \in Sidecar!Worker : v # w => ended.task[v] = s.task[v]
  BY <1>3, <1>4
<1> QED
  BY <1>2, <1>3, <1>5 DEF IsEnded

IsPushed(pushed, s, w, entry, todo, since) ==
  /\ pushed \in SidecarRecord
  /\ pushed.directory = s.directory /\ pushed.entries = s.entries + 1
  /\ \A v \in Sidecar!Worker : v # w => pushed.task[v] = s.task[v]
  /\ pushed.task[w].current = entry.id
  /\ pushed.task[w].todo = todo /\ pushed.task[w].since = since
  /\ s.directory => /\ pushed.buffer = <<>> /\ pushed.task[w].at = "writing"
                    /\ pushed.task[w].lines = Append(s.buffer, entry)
  /\ ~s.directory => /\ pushed.buffer = Append(s.buffer, entry)
                     /\ pushed.task[w].at = "directory" /\ pushed.task[w].lines = <<>>

LEMMA PushIs ==
  ASSUME NEW s \in SidecarRecord, NEW w \in Sidecar!Worker, NEW entry \in SidecarEntry,
         NEW todo \in Seq(SidecarCandidate), NEW since \in Nat
  PROVE  IsPushed(Sidecar!Push(s, w, entry, todo, since), s, w, entry, todo, since)
<1>1. PICK pushed : pushed = Sidecar!Push(s, w, entry, todo, since)
  OBVIOUS
<1>2. PICK lines : lines = Append(s.buffer, entry)
  OBVIOUS
<1>3. PICK waiting : waiting = [at |-> "directory", current |-> entry.id, lines |-> <<>>,
                                todo |-> todo, since |-> since]
  OBVIOUS
<1>4. PICK writing : writing = [waiting EXCEPT !.at = "writing", !.lines = lines]
  OBVIOUS
<1>5. /\ entry.id \in Nat /\ s.buffer \in Seq(SidecarEntry) /\ s.entries \in Nat
      /\ s.task \in [Sidecar!Worker -> SidecarTask] /\ s.directory \in BOOLEAN
  BY DEF SidecarEntry, SidecarRecord
<1>6. lines \in Seq(SidecarEntry) /\ <<>> \in Seq(SidecarEntry)
  BY <1>2, <1>5
<1>7. /\ writing = [at |-> "writing", current |-> entry.id, lines |-> lines, todo |-> todo,
                    since |-> since]
      /\ waiting \in SidecarTask
  BY <1>3, <1>4, <1>5, <1>6 DEF SidecarTask
<1>8. writing \in SidecarTask
  BY <1>5, <1>6, <1>7 DEF SidecarTask
<1>9. CASE s.directory
  <2>1. pushed = [[[s EXCEPT !.entries = @ + 1] EXCEPT !.task[w] = writing] EXCEPT !.buffer = <<>>]
    BY <1>1, <1>2, <1>3, <1>4, <1>9 DEF Sidecar!Push, Sidecar!Flushed
  <2>2. /\ pushed.directory = s.directory /\ pushed.entries = s.entries + 1
        /\ pushed.buffer = <<>> /\ pushed.task = [s.task EXCEPT ![w] = writing]
        /\ pushed = [directory |-> s.directory, buffer |-> <<>>, entries |-> s.entries + 1,
                     task |-> [s.task EXCEPT ![w] = writing]]
    BY <2>1 DEF SidecarRecord
  <2>3. pushed.task \in [Sidecar!Worker -> SidecarTask]
    BY <2>2, <1>5, <1>8
  <2>4. pushed \in SidecarRecord
    BY <2>2, <2>3, <1>5, <1>6 DEF SidecarRecord
  <2>5. pushed.task[w] = writing /\ \A v \in Sidecar!Worker : v # w => pushed.task[v] = s.task[v]
    BY <2>2, <1>5
  <2>6. IsPushed(pushed, s, w, entry, todo, since)
    BY <2>2, <2>4, <2>5, <1>2, <1>7, <1>9 DEF IsPushed
  <2> QED
    BY <2>6, <1>1
<1>10. CASE ~s.directory
  <2>1. pushed = [[s EXCEPT !.entries = @ + 1] EXCEPT !.buffer = lines, !.task[w] = waiting]
    BY <1>1, <1>2, <1>3, <1>10 DEF Sidecar!Push
  <2>2. /\ pushed.directory = s.directory /\ pushed.entries = s.entries + 1
        /\ pushed.buffer = lines /\ pushed.task = [s.task EXCEPT ![w] = waiting]
        /\ pushed = [directory |-> s.directory, buffer |-> lines, entries |-> s.entries + 1,
                     task |-> [s.task EXCEPT ![w] = waiting]]
    BY <2>1 DEF SidecarRecord
  <2>3. pushed.task \in [Sidecar!Worker -> SidecarTask]
    BY <2>2, <1>5, <1>7
  <2>4. pushed \in SidecarRecord
    BY <2>2, <2>3, <1>5, <1>6 DEF SidecarRecord
  <2>5. pushed.task[w] = waiting /\ \A v \in Sidecar!Worker : v # w => pushed.task[v] = s.task[v]
    BY <2>2, <1>5
  <2>6. IsPushed(pushed, s, w, entry, todo, since)
    BY <2>2, <2>4, <2>5, <1>2, <1>3, <1>10 DEF IsPushed
  <2> QED
    BY <2>6, <1>1
<1> QED
  BY <1>9, <1>10

LEMMA NothingWritten ==
  ASSUME NEW s, NEW f, NEW l, NEW e, NEW r, NEW t, LoopHolds(s, f, l, e, r, t),
         NEW w \in Sidecar!Worker, s.task[w].at # "writing",
         NEW ended, IsEnded(ended, s, w)
  PROVE  LoopHolds(ended, f, l, e, r, t)
<1>1. /\ \A v \in Sidecar!Worker : ended.task[v].lines = s.task[v].lines
      /\ ended.buffer = s.buffer /\ ended.entries = s.entries /\ ended.directory = s.directory
      /\ ended \in SidecarRecord
  BY DEF LoopHolds, WillBeOnFile, IsEnded, Sidecar!Idle
<1>2. InOnePlace(ended, f, l)
  BY <1>1 DEF LoopHolds, InOnePlace, Placed
<1>3. WillBeOnFile(ended, f, e, r)
  BY <1>1 DEF LoopHolds, WillBeOnFile, IsEnded, Sidecar!Idle
<1>4. InTimeOrder(ended, f, e, t)
  <2>1. \A v \in Sidecar!Worker :
          \/ ended.task[v].todo = s.task[v].todo /\ ended.task[v].since = s.task[v].since
          \/ ended.task[v].todo = <<>>
    BY DEF IsEnded, Sidecar!Idle
  <2>2. "discovery" \in Sidecar!Worker /\ "monitor" \in Sidecar!Worker
    BY DEF Sidecar!Worker
  <2>3. YetToIngest(ended.task["discovery"].todo, ended.task["discovery"].lines, f, e, t)
    BY <1>1, <2>1, <2>2 DEF LoopHolds, InTimeOrder, YetToIngest
  <2>4. YetToObserve(ended.task["monitor"].todo, ended.task["monitor"].since)
    BY <2>1, <2>2 DEF LoopHolds, InTimeOrder, YetToObserve
  <2> QED
    BY <1>1, <2>3, <2>4 DEF LoopHolds, InTimeOrder
<1> QED
  BY <1>1, <1>2, <1>3, <1>4 DEF LoopHolds

(* The lines of a tick go, to the file or nowhere. *)
LEMMA LinesGo ==
  ASSUME NEW s, NEW f, NEW l, NEW e, NEW r, NEW t, LoopHolds(s, f, l, e, r, t),
         NEW w \in Sidecar!Worker, NEW ended, IsEnded(ended, s, w)
  PROVE  /\ InOnePlace(ended, f \o s.task[w].lines, l)
         /\ InOnePlace(ended, f, l \cup Sidecar!Ids(s.task[w].lines))
<1> DEFINE lines == s.task[w].lines
<1>1. /\ lines \in Seq(SidecarEntry) /\ f \in Seq(SidecarEntry)
      /\ Apart(lines) /\ Apart(f)
  BY DEF LoopHolds, SidecarRecord, SidecarTask, InOnePlace
<1>2. \A id \in Nat : id \in Sidecar!Ids(f) => id \notin Sidecar!Ids(lines)
  BY DEF LoopHolds, InOnePlace, Placed
<1>3. /\ f \o lines \in Seq(SidecarEntry)
      /\ Sidecar!Ids(f \o lines) = Sidecar!Ids(f) \cup Sidecar!Ids(lines)
      /\ Apart(f \o lines)
  BY <1>1, <1>2, IdsJoined, ApartJoined
<1>4. /\ ended.buffer = s.buffer /\ ended.entries = s.entries
      /\ ended.task[w].lines = <<>> /\ Sidecar!Ids(ended.task[w].lines) = {}
      /\ Apart(ended.task[w].lines)
      /\ \A v \in Sidecar!Worker : v # w => ended.task[v].lines = s.task[v].lines
  BY NoIds DEF IsEnded, Sidecar!Idle
<1>5. \A v \in Sidecar!Worker : Apart(ended.task[v].lines)
  BY <1>4 DEF LoopHolds, InOnePlace, Placed
<1> HIDE DEF lines
<1>6. InOnePlace(s, f, l) /\ lines = s.task[w].lines
  BY DEF LoopHolds, lines
<1>7. InOnePlace(ended, f \o lines, l)
  BY <1>3, <1>4, <1>5, <1>6 DEF InOnePlace, Placed
<1>8. InOnePlace(ended, f, l \cup Sidecar!Ids(lines))
  BY <1>1, <1>4, <1>5, <1>6 DEF InOnePlace, Placed
<1> QED
  BY <1>6, <1>7, <1>8

LEMMA NotBeforeJoined ==
  ASSUME NEW f \in Seq(SidecarEntry), NEW lines \in Seq(SidecarEntry), NEW time, NEW e, NEW kind,
         NotBefore(time, f, e, kind), NotBefore(time, lines, e, kind)
  PROVE  NotBefore(time, f \o lines, e, kind)
<1>1. \A k \in DOMAIN (f \o lines) :
        \/ k \in DOMAIN f /\ (f \o lines)[k] = f[k]
        \/ k - Len(f) \in DOMAIN lines /\ (f \o lines)[k] = lines[k - Len(f)]
  OBVIOUS
<1> QED
  BY <1>1, Zenon DEF NotBefore

LEMMA OrderedJoined ==
  ASSUME NEW f \in Seq(SidecarEntry), NEW e, NEW w \in Sidecar!Worker,
         NEW lines \in Seq(SidecarEntry), Ordered(f, e), OwnLast(lines, f, e, w)
  PROVE  Ordered(f \o lines, e)
<1> DEFINE joined == f \o lines
<1> SUFFICES ASSUME NEW i \in DOMAIN joined, NEW j \in DOMAIN joined, i < j,
                    joined[i].kind = joined[j].kind, joined[i].id \notin e, joined[j].id \notin e
             PROVE  joined[i].time <= joined[j].time
  BY DEF Ordered
<1>1. \A k \in DOMAIN joined :
        \/ k \in DOMAIN f /\ joined[k] = f[k]
        \/ k - Len(f) \in DOMAIN lines /\ joined[k] = lines[k - Len(f)] /\ k \notin DOMAIN f
  OBVIOUS
<1>2. /\ i \in Nat /\ j \in Nat /\ Len(f) \in Nat /\ Len(lines) \in Nat
      /\ DOMAIN f = 1..Len(f) /\ DOMAIN lines = 1..Len(lines)
  OBVIOUS
<1>3. \A k \in DOMAIN lines : lines[k].id \notin e =>
        k = Len(lines) /\ NotBefore(lines[k].time, f, e, lines[k].kind)
  BY DEF OwnLast
<1> HIDE DEF joined
<1>4. CASE j \in DOMAIN f /\ joined[j] = f[j]
  <2>1. i \in DOMAIN f
    BY <1>2, <1>4
  <2>2. joined[i] = f[i]
    BY <1>1, <1>2, <2>1
  <2> QED
    BY <1>4, <2>1, <2>2 DEF Ordered
<1>5. CASE j - Len(f) \in DOMAIN lines /\ joined[j] = lines[j - Len(f)] /\ j \notin DOMAIN f
  <2>1. j - Len(f) = Len(lines) /\ NotBefore(joined[j].time, f, e, joined[j].kind)
    BY <1>3, <1>5, Zenon
  <2>2. CASE i \in DOMAIN f /\ joined[i] = f[i]
    BY <2>1, <2>2 DEF NotBefore
  <2>3. CASE i - Len(f) \in DOMAIN lines /\ joined[i] = lines[i - Len(f)]
    <3>1. i - Len(f) = Len(lines)
      BY <1>3, <2>3, Zenon
    <3> QED
      BY <1>2, <2>1, <3>1
  <2> QED
    BY <1>1, <2>2, <2>3
<1> QED
  BY <1>1, <1>4, <1>5

LEMMA NotAfterJoined ==
  ASSUME NEW f \in Seq(SidecarEntry), NEW lines \in Seq(SidecarEntry), NEW t,
         NotAfter(f, t), NotAfter(lines, t)
  PROVE  NotAfter(f \o lines, t)
<1>1. \A k \in DOMAIN (f \o lines) :
        \/ k \in DOMAIN f /\ (f \o lines)[k] = f[k]
        \/ k - Len(f) \in DOMAIN lines /\ (f \o lines)[k] = lines[k - Len(f)]
  OBVIOUS
<1> QED
  BY <1>1, Zenon DEF NotAfter

(* What a tick writes is not of the other one's kind. *)
LEMMA OtherKind ==
  ASSUME NEW f, NEW e, NEW w, NEW v \in Sidecar!Worker,
         NEW lines, OwnLast(lines, f, e, v), w \in Sidecar!Worker, w # v, NEW time
  PROVE  NotBefore(time, lines, e, KindOf(w))
  BY DEF OwnLast, NotBefore, KindOf, Sidecar!Worker

LEMMA LinesWrittenOrdered ==
  ASSUME NEW s, NEW f, NEW l, NEW e, NEW r, NEW t, LoopHolds(s, f, l, e, r, t),
         NEW w \in Sidecar!Worker, NEW ended, IsEnded(ended, s, w)
  PROVE  InTimeOrder(ended, f \o s.task[w].lines, e, t)
<1>1. PICK lines : lines = s.task[w].lines
  OBVIOUS
<1>2. PICK joined : joined = f \o lines
  OBVIOUS
<1>3. /\ lines \in Seq(SidecarEntry) /\ f \in Seq(SidecarEntry)
      /\ Ordered(f, e) /\ NotAfter(f, t) /\ NotAfter(s.buffer, t) /\ NotAfter(lines, t)
      /\ \A v \in Sidecar!Worker :
           OwnLast(s.task[v].lines, f, e, v) /\ NotAfter(s.task[v].lines, t)
      /\ YetToIngest(s.task["discovery"].todo, s.task["discovery"].lines, f, e, t)
      /\ YetToObserve(s.task["monitor"].todo, s.task["monitor"].since)
  BY <1>1 DEF LoopHolds, SidecarRecord, SidecarTask, InTimeOrder
<1>4. /\ ended.buffer = s.buffer /\ ended.task[w] = Sidecar!Idle
      /\ \A v \in Sidecar!Worker : v # w => ended.task[v] = s.task[v]
  BY DEF IsEnded
<1>5. Ordered(joined, e) /\ NotAfter(joined, t)
  BY <1>1, <1>2, <1>3, OrderedJoined, NotAfterJoined
<1>6. ASSUME NEW v \in Sidecar!Worker
      PROVE  OwnLast(ended.task[v].lines, joined, e, v) /\ NotAfter(ended.task[v].lines, t)
  <2>1. CASE v = w
    <3>1. ended.task[v].lines = <<>>
      BY <1>4, <2>1 DEF Sidecar!Idle
    <3> QED
      BY <3>1 DEF OwnLast, NotAfter
  <2>2. CASE v # w
    <3>1. ended.task[v].lines = s.task[v].lines
      BY <1>4, <2>2
    <3>2. \A time : NotBefore(time, lines, e, KindOf(v))
      BY <1>1, <1>3, <2>2, OtherKind
    <3>3. ASSUME NEW i \in DOMAIN s.task[v].lines, s.task[v].lines[i].id \notin e
          PROVE  /\ i = Len(s.task[v].lines) /\ s.task[v].lines[i].kind = KindOf(v)
                 /\ NotBefore(s.task[v].lines[i].time, joined, e, s.task[v].lines[i].kind)
      <4>1. /\ i = Len(s.task[v].lines) /\ s.task[v].lines[i].kind = KindOf(v)
            /\ NotBefore(s.task[v].lines[i].time, f, e, s.task[v].lines[i].kind)
        BY <1>3, <3>3 DEF OwnLast
      <4> QED
        BY <1>2, <1>3, <3>2, <4>1, NotBeforeJoined
    <3>4. OwnLast(s.task[v].lines, joined, e, v)
      BY <3>3 DEF OwnLast
    <3> QED
      BY <1>3, <3>1, <3>4
  <2> QED
    BY <2>1, <2>2
<1>7. YetToIngest(ended.task["discovery"].todo, ended.task["discovery"].lines, joined, e, t)
  <2>1. CASE w = "discovery"
    <3>1. ended.task["discovery"].todo = <<>>
      BY <1>4, <2>1 DEF Sidecar!Idle
    <3> QED
      BY <3>1 DEF YetToIngest
  <2>2. CASE w = "monitor"
    <3>1. ended.task["discovery"] = s.task["discovery"]
      BY <1>4, <2>2 DEF Sidecar!Worker
    <3>2. \A time : NotBefore(time, lines, e, "candidate")
      BY <1>1, <1>3, <2>2 DEF OwnLast, NotBefore, KindOf
    <3>3. \A time : NotBefore(time, f, e, "candidate") => NotBefore(time, joined, e, "candidate")
      BY <1>2, <1>3, <3>2, NotBeforeJoined
    <3> QED
      BY <1>3, <3>1, <3>3 DEF YetToIngest
  <2> QED
    BY <2>1, <2>2 DEF Sidecar!Worker
<1>8. YetToObserve(ended.task["monitor"].todo, ended.task["monitor"].since)
  <2>1. CASE w = "monitor"
    <3>1. ended.task["monitor"].todo = <<>>
      BY <1>4, <2>1 DEF Sidecar!Idle
    <3> QED
      BY <3>1 DEF YetToObserve
  <2>2. CASE w = "discovery"
    BY <1>3, <1>4, <2>2 DEF Sidecar!Worker
  <2> QED
    BY <2>1, <2>2 DEF Sidecar!Worker
<1>9. InTimeOrder(ended, joined, e, t)
  BY <1>3, <1>4, <1>5, <1>6, <1>7, <1>8 DEF InTimeOrder
<1> QED
  BY <1>1, <1>2, <1>9

LEMMA LinesTyped ==
  ASSUME NEW s, NEW f, NEW l, NEW e, NEW r, NEW t, LoopHolds(s, f, l, e, r, t),
         NEW w \in Sidecar!Worker
  PROVE  /\ s \in SidecarRecord /\ f \in Seq(SidecarEntry) /\ t \in Nat
         /\ s.task[w] \in SidecarTask /\ s.task[w].lines \in Seq(SidecarEntry)
         /\ s.buffer \in Seq(SidecarEntry) /\ s.entries \in Nat /\ s.directory \in BOOLEAN
  BY DEF LoopHolds, SidecarRecord, SidecarTask

LEMMA WriteHolds ==
  ASSUME NEW s, NEW f, NEW l, NEW e, NEW r, NEW t, LoopHolds(s, f, l, e, r, t),
         NEW w \in Sidecar!Worker, s.task[w].at = "writing",
         NEW ended, IsEnded(ended, s, w)
  PROVE  LoopHolds(ended, f \o s.task[w].lines, l, e, r \cup {s.task[w].current}, t)
<1>1. PICK joined : joined = f \o s.task[w].lines
  OBVIOUS
<1>2. /\ joined \in Seq(SidecarEntry)
      /\ Sidecar!Ids(joined) = Sidecar!Ids(f) \cup Sidecar!Ids(s.task[w].lines)
  BY <1>1, LinesTyped, IdsJoined
<1>3. InOnePlace(ended, joined, l) /\ InTimeOrder(ended, joined, e, t)
  BY <1>1, LinesGo, LinesWrittenOrdered
<1>4. WillBeOnFile(ended, joined, e, r \cup {s.task[w].current})
  <2>1. WillBeOnFile(s, f, e, r)
    BY DEF LoopHolds
  <2>2. /\ ended.buffer = s.buffer /\ ended.directory = s.directory
        /\ ended.task[w].at = "idle" /\ ended.task[w].lines = <<>>
        /\ \A v \in Sidecar!Worker : v # w => ended.task[v] = s.task[v]
    BY DEF IsEnded, Sidecar!Idle
  <2>3. r \cup {s.task[w].current} \subseteq Sidecar!Ids(joined) \cup e
    BY <1>2, <2>1 DEF WillBeOnFile
  <2> QED
    BY <2>1, <2>2, <2>3 DEF WillBeOnFile
<1>5. ended \in SidecarRecord /\ t \in Nat
  BY DEF IsEnded, LoopHolds
<1> QED
  BY <1>1, <1>2, <1>3, <1>4, <1>5 DEF LoopHolds

LEMMA LoseHolds ==
  ASSUME NEW s, NEW f, NEW l, NEW e, NEW r, NEW t, LoopHolds(s, f, l, e, r, t),
         NEW w \in Sidecar!Worker, NEW ended, IsEnded(ended, s, w)
  PROVE  LoopHolds(ended, f, l \cup Sidecar!Ids(s.task[w].lines), e, r, t)
<1>1. InOnePlace(ended, f, l \cup Sidecar!Ids(s.task[w].lines))
  BY LinesGo
<1>2. /\ ended \in SidecarRecord /\ t \in Nat /\ f \in Seq(SidecarEntry)
      /\ ended.buffer = s.buffer /\ ended.directory = s.directory
      /\ ended.task[w].at = "idle" /\ ended.task[w].lines = <<>> /\ ended.task[w].todo = <<>>
      /\ \A v \in Sidecar!Worker : v # w => ended.task[v] = s.task[v]
  BY DEF IsEnded, Sidecar!Idle, LoopHolds
<1>3. WillBeOnFile(ended, f, e, r)
  BY <1>2 DEF LoopHolds, WillBeOnFile
<1>4. InTimeOrder(ended, f, e, t)
  <2>1. \A v \in Sidecar!Worker :
          \/ ended.task[v] = s.task[v]
          \/ ended.task[v].lines = <<>> /\ ended.task[v].todo = <<>>
    BY <1>2
  <2>2. ASSUME NEW v \in Sidecar!Worker
        PROVE  OwnLast(ended.task[v].lines, f, e, v) /\ NotAfter(ended.task[v].lines, t)
    BY <2>1 DEF LoopHolds, InTimeOrder, OwnLast, NotAfter
  <2>3. YetToIngest(ended.task["discovery"].todo, ended.task["discovery"].lines, f, e, t)
    BY <2>1 DEF LoopHolds, InTimeOrder, YetToIngest, Sidecar!Worker
  <2>4. YetToObserve(ended.task["monitor"].todo, ended.task["monitor"].since)
    BY <2>1 DEF LoopHolds, InTimeOrder, YetToObserve, Sidecar!Worker
  <2> QED
    BY <1>2, <2>2, <2>3, <2>4 DEF LoopHolds, InTimeOrder
<1> QED
  BY <1>1, <1>2, <1>3, <1>4 DEF LoopHolds

(* The entry that a tick pushes is numbered next, of its own kind, of now   *)
(* or of the discovery's time, and so is what it has left to do.            *)
MayPush(s, w, entry, todo, since, f, e, t) ==
  /\ entry \in SidecarEntry /\ todo \in Seq(SidecarCandidate) /\ since \in Nat
  /\ entry.id = s.entries + 1 /\ entry.kind = KindOf(w)
  /\ entry.time <= t /\ NotBefore(entry.time, f, e, entry.kind)
  /\ w = "discovery" => /\ YetToIngest(todo, <<>>, f, e, t)
                       /\ \A i \in DOMAIN todo : entry.time <= todo[i].updatedAt
  /\ w = "monitor" => YetToObserve(todo, since)

(* The next number is nowhere yet. *)
LEMMA NextIsNew ==
  ASSUME NEW s, NEW f, NEW l, NEW e, NEW r, NEW t, LoopHolds(s, f, l, e, r, t)
  PROVE  /\ s.entries + 1 \in Nat
         /\ s.entries + 1 \notin Sidecar!Ids(s.buffer) /\ s.entries + 1 \notin Sidecar!Ids(f)
         /\ s.entries + 1 \notin l
         /\ \A w \in Sidecar!Worker : s.entries + 1 \notin Sidecar!Ids(s.task[w].lines)
<1>1. s.entries \in Nat
  BY DEF LoopHolds, SidecarRecord
<1>2. s.entries + 1 \in Nat /\ s.entries + 1 \notin 1..s.entries
  BY <1>1
<1> QED
  BY <1>2, Zenon DEF LoopHolds, InOnePlace, Placed

LEMMA PushedInPlace ==
  ASSUME NEW s, NEW ended, NEW f, NEW l, NEW e, NEW r, NEW t, NEW w \in Sidecar!Worker,
         NEW pushed, NEW entry, NEW todo, NEW since,
         LoopHolds(ended, f, l, e, r, t), IsEnded(ended, s, w),
         MayPush(s, w, entry, todo, since, f, e, t), IsPushed(pushed, s, w, entry, todo, since)
  PROVE  InOnePlace(pushed, f, l)
<1>1. /\ ended.buffer \in Seq(SidecarEntry) /\ ended.entries \in Nat
      /\ entry \in SidecarEntry /\ entry.id = ended.entries + 1
      /\ ended.buffer = s.buffer /\ ended.entries = s.entries /\ ended.directory = s.directory
      /\ ended.task[w].lines = <<>>
      /\ \A v \in Sidecar!Worker : v # w => ended.task[v] = s.task[v]
  BY LinesTyped DEF MayPush, IsEnded, Sidecar!Idle
<1>2. PICK grown : grown = Append(ended.buffer, entry)
  OBVIOUS
<1>3. PICK next : next = ended.entries + 1
  OBVIOUS
<1>4. /\ next \in Nat /\ next \notin Sidecar!Ids(ended.buffer) /\ next \notin Sidecar!Ids(f)
      /\ next \notin l
      /\ \A v \in Sidecar!Worker : next \notin Sidecar!Ids(ended.task[v].lines)
  BY <1>3, NextIsNew
<1>5. /\ Sidecar!Ids(grown) = Sidecar!Ids(ended.buffer) \cup {next}
      /\ Apart(grown)
  BY <1>1, <1>2, <1>3, <1>4, IdsAppended, ApartAppended DEF LoopHolds, InOnePlace
<1>6. \A id \in Nat : id \in 1..pushed.entries <=> id \in 1..ended.entries \/ id = next
  BY <1>1, <1>3 DEF IsPushed
<1>7. InOnePlace(ended, f, l)
  BY DEF LoopHolds
<1>8. /\ Sidecar!Ids(<<>>) = {} /\ Apart(<<>>) /\ Sidecar!Ids(ended.task[w].lines) = {}
  BY <1>1, NoIds
<1>9. CASE s.directory
  <2>1. /\ pushed.buffer = <<>> /\ pushed.task[w].lines = grown
        /\ \A v \in Sidecar!Worker : v # w => pushed.task[v].lines = ended.task[v].lines
    BY <1>1, <1>2, <1>9 DEF IsPushed
  <2>2. \A v \in Sidecar!Worker : Apart(pushed.task[v].lines)
    BY <1>5, <1>7, <2>1 DEF InOnePlace
  <2>3. Apart(pushed.buffer) /\ Apart(f)
    BY <1>7, <1>8, <2>1 DEF InOnePlace
  <2>4. ASSUME NEW id \in Nat
        PROVE  Placed(id, pushed, f, l)
    <3>1. /\ id \in Sidecar!Ids(pushed.task[w].lines) <=>
               id \in Sidecar!Ids(ended.buffer) \/ id = next
          /\ id \notin Sidecar!Ids(pushed.buffer) /\ id \notin Sidecar!Ids(ended.task[w].lines)
          /\ \A v \in Sidecar!Worker : v # w =>
               (id \in Sidecar!Ids(pushed.task[v].lines)
                  <=> id \in Sidecar!Ids(ended.task[v].lines))
      BY <1>5, <1>8, <2>1
    <3>2. id \in 1..pushed.entries <=> id \in 1..ended.entries \/ id = next
      BY <1>6
    <3>3. Placed(id, ended, f, l)
      BY <1>7 DEF InOnePlace
    <3>4. CASE id = next
      BY <1>4, <3>1, <3>2, <3>4 DEF Placed
    <3>5. CASE id # next
      BY <3>1, <3>2, <3>3, <3>5 DEF Placed
    <3> QED
      BY <3>4, <3>5
  <2> QED
    BY <2>2, <2>3, <2>4 DEF InOnePlace
<1>10. CASE ~s.directory
  <2>1. /\ pushed.buffer = grown
        /\ \A v \in Sidecar!Worker : pushed.task[v].lines = ended.task[v].lines
    BY <1>1, <1>2, <1>10 DEF IsPushed
  <2>2. \A v \in Sidecar!Worker : Apart(pushed.task[v].lines)
    BY <1>7, <2>1 DEF InOnePlace
  <2>3. Apart(pushed.buffer) /\ Apart(f)
    BY <1>5, <1>7, <2>1 DEF InOnePlace
  <2>4. ASSUME NEW id \in Nat
        PROVE  Placed(id, pushed, f, l)
    <3>1. /\ id \in Sidecar!Ids(pushed.buffer) <=>
               id \in Sidecar!Ids(ended.buffer) \/ id = next
          /\ \A v \in Sidecar!Worker : id \in Sidecar!Ids(pushed.task[v].lines)
                                         <=> id \in Sidecar!Ids(ended.task[v].lines)
      BY <1>5, <2>1
    <3>2. id \in 1..pushed.entries <=> id \in 1..ended.entries \/ id = next
      BY <1>6
    <3>3. Placed(id, ended, f, l)
      BY <1>7 DEF InOnePlace
    <3>4. CASE id = next
      BY <1>4, <3>1, <3>2, <3>4 DEF Placed
    <3>5. CASE id # next
      BY <3>1, <3>2, <3>3, <3>5 DEF Placed
    <3> QED
      BY <3>4, <3>5
  <2> QED
    BY <2>2, <2>3, <2>4 DEF InOnePlace
<1> QED
  BY <1>9, <1>10

LEMMA PushedWillBe ==
  ASSUME NEW s, NEW ended, NEW f, NEW l, NEW e, NEW r, NEW t, NEW w \in Sidecar!Worker,
         NEW pushed, NEW entry, NEW todo, NEW since, NEW e2,
         LoopHolds(ended, f, l, e, r, t), IsEnded(ended, s, w),
         MayPush(s, w, entry, todo, since, f, e, t), IsPushed(pushed, s, w, entry, todo, since),
         e \subseteq e2, s.directory \/ entry.id \in e2
  PROVE  WillBeOnFile(pushed, f, e2, r)
<1>1. /\ ended.buffer \in Seq(SidecarEntry) /\ entry \in SidecarEntry
      /\ ended.buffer = s.buffer /\ ended.directory = s.directory
      /\ \A v \in Sidecar!Worker : v # w => pushed.task[v] = ended.task[v]
      /\ pushed.directory = ended.directory /\ pushed.task[w].current = entry.id
  BY LinesTyped DEF MayPush, IsEnded, IsPushed
<1>2. PICK grown : grown = Append(ended.buffer, entry)
  OBVIOUS
<1>3. Sidecar!Ids(grown) = Sidecar!Ids(ended.buffer) \cup {entry.id}
  BY <1>1, <1>2, IdsAppended
<1>4. WillBeOnFile(ended, f, e, r)
  BY DEF LoopHolds
<1>5. CASE s.directory
  <2>1. /\ pushed.buffer = <<>> /\ pushed.task[w].lines = grown /\ pushed.task[w].at = "writing"
        /\ pushed.directory
    BY <1>1, <1>2, <1>5 DEF IsPushed
  <2>2. Sidecar!Ids(pushed.buffer) = {}
    BY <2>1, NoIds
  <2> QED
    BY <1>1, <1>3, <1>4, <2>1, <2>2 DEF WillBeOnFile
<1>6. CASE ~s.directory
  <2>1. /\ pushed.buffer = grown /\ pushed.task[w].lines = <<>>
        /\ pushed.task[w].at = "directory" /\ entry.id \in e2
    BY <1>1, <1>2, <1>6 DEF IsPushed
  <2> QED
    BY <1>1, <1>3, <1>4, <2>1 DEF WillBeOnFile
<1> QED
  BY <1>5, <1>6

LEMMA NotBeforeMore ==
  ASSUME NEW e, NEW e2, e \subseteq e2, NEW time, NEW f, NEW kind, NotBefore(time, f, e, kind)
  PROVE  NotBefore(time, f, e2, kind)
  BY DEF NotBefore

LEMMA PushedOrdered ==
  ASSUME NEW s, NEW ended, NEW f, NEW l, NEW e, NEW r, NEW t, NEW w \in Sidecar!Worker,
         NEW pushed, NEW entry, NEW todo, NEW since, NEW e2,
         LoopHolds(ended, f, l, e, r, t), IsEnded(ended, s, w),
         MayPush(s, w, entry, todo, since, f, e, t), IsPushed(pushed, s, w, entry, todo, since),
         e \subseteq e2, s.directory \/ entry.id \in e2
  PROVE  InTimeOrder(pushed, f, e2, t)
<1>1. PICK grown : grown = Append(ended.buffer, entry)
  OBVIOUS
<1>2. /\ ended.buffer \in Seq(SidecarEntry) /\ entry \in SidecarEntry /\ ended.buffer = s.buffer
      /\ \A v \in Sidecar!Worker : v # w => pushed.task[v] = ended.task[v]
      /\ pushed.task[w].todo = todo /\ pushed.task[w].since = since
  BY LinesTyped DEF MayPush, IsEnded, IsPushed
<1>3. /\ Len(grown) = Len(ended.buffer) + 1 /\ grown[Len(grown)] = entry
      /\ \A i \in DOMAIN grown : \/ i \in DOMAIN ended.buffer /\ grown[i] = ended.buffer[i]
                                 \/ i = Len(grown) /\ grown[i] = entry
  BY <1>1, <1>2
<1>4. /\ Ordered(f, e) /\ NotAfter(f, t) /\ NotAfter(ended.buffer, t)
      /\ \A v \in Sidecar!Worker :
           OwnLast(ended.task[v].lines, f, e, v) /\ NotAfter(ended.task[v].lines, t)
      /\ YetToIngest(ended.task["discovery"].todo, ended.task["discovery"].lines, f, e, t)
      /\ YetToObserve(ended.task["monitor"].todo, ended.task["monitor"].since)
      /\ Sidecar!Ids(ended.buffer) \subseteq e
  BY DEF LoopHolds, InTimeOrder, WillBeOnFile
<1>5. /\ entry.kind = KindOf(w) /\ entry.time <= t /\ NotBefore(entry.time, f, e, entry.kind)
      /\ w = "discovery" => /\ YetToIngest(todo, <<>>, f, e, t)
                           /\ \A i \in DOMAIN todo : entry.time <= todo[i].updatedAt
      /\ w = "monitor" => YetToObserve(todo, since)
  BY DEF MayPush
<1>6. NotAfter(grown, t)
  BY <1>3, <1>4, <1>5 DEF NotAfter
<1>7. \A i \in DOMAIN grown : grown[i].id \notin e => i = Len(grown) /\ grown[i] = entry
  <2>1. \A i \in DOMAIN ended.buffer : ended.buffer[i].id \in e
    BY <1>4, IdsAre
  <2> QED
    BY <1>3, <2>1
<1>8. OwnLast(grown, f, e2, w)
  BY <1>5, <1>7, NotBeforeMore DEF OwnLast
<1>9. OwnLast(<<>>, f, e2, w) /\ NotAfter(<<>>, t)
  BY DEF OwnLast, NotAfter
<1>10. \/ pushed.buffer = <<>> /\ pushed.task[w].lines = grown
       \/ pushed.buffer = grown /\ pushed.task[w].lines = <<>>
  <2>1. CASE s.directory
    BY <1>1, <1>2, <2>1 DEF IsPushed
  <2>2. CASE ~s.directory
    BY <1>1, <1>2, <2>2 DEF IsPushed
  <2> QED
    BY <2>1, <2>2
<1>11. Ordered(f, e2) /\ NotAfter(f, t) /\ NotAfter(pushed.buffer, t)
  BY <1>4, <1>6, <1>9, <1>10 DEF Ordered
<1>12. ASSUME NEW v \in Sidecar!Worker
       PROVE  OwnLast(pushed.task[v].lines, f, e2, v) /\ NotAfter(pushed.task[v].lines, t)
  <2>1. CASE v = w
    BY <1>6, <1>8, <1>9, <1>10, <2>1
  <2>2. CASE v # w
    BY <1>2, <1>4, <2>2, NotBeforeMore DEF OwnLast
  <2> QED
    BY <2>1, <2>2
<1>13. YetToIngest(pushed.task["discovery"].todo, pushed.task["discovery"].lines, f, e2, t)
  <2>1. CASE w = "discovery"
    <3>1. \A i \in DOMAIN todo : NotBefore(todo[i].updatedAt, pushed.task[w].lines, e2, "candidate")
      <4>1. \A i \in DOMAIN todo : NotBefore(todo[i].updatedAt, grown, e2, "candidate")
        BY <1>5, <1>7, <2>1 DEF NotBefore
      <4>2. \A i \in DOMAIN todo : NotBefore(todo[i].updatedAt, <<>>, e2, "candidate")
        BY DEF NotBefore
      <4> QED
        BY <1>10, <4>1, <4>2
    <3>2. YetToIngest(todo, <<>>, f, e, t)
      BY <1>5, <2>1
    <3> QED
      BY <1>2, <2>1, <3>1, <3>2, NotBeforeMore DEF YetToIngest
  <2>2. CASE w = "monitor"
    <3>1. pushed.task["discovery"] = ended.task["discovery"]
      BY <1>2, <2>2 DEF Sidecar!Worker
    <3> QED
      BY <1>4, <3>1, NotBeforeMore DEF YetToIngest
  <2> QED
    BY <2>1, <2>2 DEF Sidecar!Worker
<1>14. YetToObserve(pushed.task["monitor"].todo, pushed.task["monitor"].since)
  <2>1. CASE w = "monitor"
    BY <1>2, <1>5, <2>1
  <2>2. CASE w = "discovery"
    BY <1>2, <1>4, <2>2 DEF Sidecar!Worker
  <2> QED
    BY <2>1, <2>2 DEF Sidecar!Worker
<1> QED
  BY <1>11, <1>12, <1>13, <1>14 DEF InTimeOrder

LEMMA PushHolds ==
  ASSUME NEW s, NEW ended, NEW f, NEW l, NEW e, NEW r, NEW t, NEW w \in Sidecar!Worker,
         NEW pushed, NEW entry, NEW todo, NEW since, NEW e2,
         LoopHolds(ended, f, l, e, r, t), IsEnded(ended, s, w),
         MayPush(s, w, entry, todo, since, f, e, t), IsPushed(pushed, s, w, entry, todo, since),
         e \subseteq e2, s.directory \/ entry.id \in e2
  PROVE  LoopHolds(pushed, f, l, e2, r, t)
<1>1. InOnePlace(pushed, f, l)
  BY PushedInPlace
<1>2. WillBeOnFile(pushed, f, e2, r)
  BY PushedWillBe
<1>3. InTimeOrder(pushed, f, e2, t)
  BY PushedOrdered
<1>4. pushed \in SidecarRecord /\ f \in Seq(SidecarEntry) /\ t \in Nat
  BY DEF IsPushed, LoopHolds
<1> QED
  BY <1>1, <1>2, <1>3, <1>4 DEF LoopHolds

LEMMA TimePasses ==
  ASSUME NEW s, NEW f, NEW l, NEW e, NEW r, NEW t, LoopHolds(s, f, l, e, r, t)
  PROVE  LoopHolds(s, f, l, e, r, t + 1)
<1>1. /\ s.buffer \in Seq(SidecarEntry) /\ f \in Seq(SidecarEntry) /\ t \in Nat
      /\ \A v \in Sidecar!Worker :
           s.task[v].lines \in Seq(SidecarEntry) /\ s.task[v].todo \in Seq(SidecarCandidate)
  BY DEF LoopHolds, SidecarRecord, SidecarTask
<1>2. ASSUME NEW lines \in Seq(SidecarEntry), NotAfter(lines, t)
      PROVE  NotAfter(lines, t + 1)
  <2>1. \A i \in DOMAIN lines : lines[i].time \in Nat
    <3>1. \A i \in DOMAIN lines : lines[i] \in SidecarEntry
      OBVIOUS
    <3> QED
      BY <3>1 DEF SidecarEntry
  <2> QED
    BY <1>1, <1>2, <2>1 DEF NotAfter
<1>3. ASSUME NEW todo \in Seq(SidecarCandidate), NEW lines, YetToIngest(todo, lines, f, e, t)
      PROVE  YetToIngest(todo, lines, f, e, t + 1)
  <2>1. \A i \in DOMAIN todo : todo[i].updatedAt \in Nat
    <3>1. \A i \in DOMAIN todo : todo[i] \in SidecarCandidate
      OBVIOUS
    <3> QED
      BY <3>1 DEF SidecarCandidate
  <2>2. \A i \in DOMAIN todo : todo[i].updatedAt <= t + 1
    BY <1>1, <1>3, <2>1 DEF YetToIngest
  <2> QED
    BY <1>3, <2>2 DEF YetToIngest
<1>4. InTimeOrder(s, f, e, t)
  BY DEF LoopHolds
<1>5. InTimeOrder(s, f, e, t + 1)
  <2>1. NotAfter(f, t + 1) /\ NotAfter(s.buffer, t + 1)
    BY <1>1, <1>2, <1>4 DEF InTimeOrder
  <2>2. \A v \in Sidecar!Worker : NotAfter(s.task[v].lines, t + 1)
    BY <1>1, <1>2, <1>4 DEF InTimeOrder
  <2>3. YetToIngest(s.task["discovery"].todo, s.task["discovery"].lines, f, e, t + 1)
    BY <1>1, <1>3, <1>4 DEF InTimeOrder, Sidecar!Worker
  <2> QED
    BY <1>4, <2>1, <2>2, <2>3 DEF InTimeOrder
<1> QED
  BY <1>1, <1>5 DEF LoopHolds

(* A tick begins to write the buffer. *)
IsMade(made, s, w) ==
  /\ made \in SidecarRecord
  /\ made.directory /\ made.buffer = <<>> /\ made.entries = s.entries
  /\ \A v \in Sidecar!Worker : v # w => made.task[v] = s.task[v]
  /\ made.task[w].at = "writing" /\ made.task[w].lines = s.buffer
  /\ made.task[w].current = s.task[w].current
  /\ made.task[w].todo = s.task[w].todo /\ made.task[w].since = s.task[w].since

LEMMA MadeIs ==
  ASSUME NEW s \in SidecarRecord, NEW w \in Sidecar!Worker
  PROVE  IsMade(Sidecar!Flushed([s EXCEPT !.directory = TRUE, !.task[w].at = "writing",
                                         !.task[w].lines = s.buffer], s.buffer), s, w)
<1>1. /\ s.task \in [Sidecar!Worker -> SidecarTask] /\ s.buffer \in Seq(SidecarEntry)
      /\ s.task[w] \in SidecarTask /\ s.entries \in Nat
  BY DEF SidecarRecord
<1>2. PICK writing : writing = [[s.task[w] EXCEPT !.at = "writing"] EXCEPT !.lines = s.buffer]
  OBVIOUS
<1>3. /\ writing \in SidecarTask /\ writing.at = "writing" /\ writing.lines = s.buffer
      /\ writing.current = s.task[w].current /\ writing.todo = s.task[w].todo
      /\ writing.since = s.task[w].since
  BY <1>1, <1>2 DEF SidecarTask
<1>4. PICK made :
        made = Sidecar!Flushed([s EXCEPT !.directory = TRUE, !.task[w].at = "writing",
                                         !.task[w].lines = s.buffer], s.buffer)
  OBVIOUS
<1>5. /\ made = [directory |-> TRUE, buffer |-> <<>>, entries |-> s.entries,
                 task |-> [s.task EXCEPT ![w] = writing]]
  BY <1>1, <1>2, <1>4 DEF Sidecar!Flushed, SidecarRecord
<1>6. /\ made.directory /\ made.buffer = <<>> /\ made.entries = s.entries
      /\ made.task = [s.task EXCEPT ![w] = writing]
  BY <1>5
<1>7. /\ made.task \in [Sidecar!Worker -> SidecarTask] /\ made.task[w] = writing
      /\ \A v \in Sidecar!Worker : v # w => made.task[v] = s.task[v]
  BY <1>1, <1>3, <1>6
<1>8. made \in SidecarRecord
  BY <1>1, <1>5, <1>6, <1>7 DEF SidecarRecord
<1>9. IsMade(made, s, w)
  BY <1>3, <1>6, <1>7, <1>8 DEF IsMade
<1> QED
  BY <1>4, <1>9

LEMMA MadeHolds ==
  ASSUME NEW s, NEW f, NEW l, NEW e, NEW r, NEW t, LoopHolds(s, f, l, e, r, t),
         NEW w \in Sidecar!Worker, s.task[w].at = "directory", NEW made, IsMade(made, s, w)
  PROVE  LoopHolds(made, f, l, e, r, t)
<1>1. /\ made.buffer = <<>> /\ Sidecar!Ids(made.buffer) = {} /\ Apart(made.buffer)
      /\ made.entries = s.entries /\ made.task[w].lines = s.buffer
      /\ s.task[w].lines = <<>> /\ Sidecar!Ids(s.task[w].lines) = {}
      /\ Sidecar!Ids(s.buffer) \subseteq e
      /\ \A v \in Sidecar!Worker : v # w => made.task[v] = s.task[v]
      /\ \A v \in Sidecar!Worker : made.task[v].todo = s.task[v].todo
                                   /\ made.task[v].since = s.task[v].since
  BY NoIds DEF IsMade, LoopHolds, WillBeOnFile
<1>2. InOnePlace(made, f, l)
  <2>1. \A v \in Sidecar!Worker : Apart(made.task[v].lines)
    BY <1>1 DEF LoopHolds, InOnePlace
  <2>2. ASSUME NEW id \in Nat PROVE Placed(id, made, f, l)
    <3>1. Placed(id, s, f, l)
      BY DEF LoopHolds, InOnePlace
    <3> QED
      BY <1>1, <3>1 DEF Placed
  <2> QED
    BY <1>1, <2>1, <2>2 DEF LoopHolds, InOnePlace
<1>3. WillBeOnFile(made, f, e, r)
  BY <1>1 DEF LoopHolds, WillBeOnFile, IsMade
<1>4. InTimeOrder(made, f, e, t)
  <2>1. InTimeOrder(s, f, e, t)
    BY DEF LoopHolds
  <2>2. \A i \in DOMAIN s.buffer : s.buffer[i].id \in e
    BY <1>1, IdsAre
  <2>3. ASSUME NEW v \in Sidecar!Worker
        PROVE  OwnLast(made.task[v].lines, f, e, v) /\ NotAfter(made.task[v].lines, t)
    <3>1. CASE v = w
      BY <1>1, <2>1, <2>2, <3>1 DEF InTimeOrder, OwnLast
    <3>2. CASE v # w
      BY <1>1, <2>1, <3>2 DEF InTimeOrder
    <3> QED
      BY <3>1, <3>2
  <2>4. YetToIngest(made.task["discovery"].todo, made.task["discovery"].lines, f, e, t)
    <3>1. NotAfter(<<>>, t) /\ \A time : NotBefore(time, s.buffer, e, "candidate")
      BY <2>2 DEF NotAfter, NotBefore
    <3>2. \/ made.task["discovery"].lines = s.task["discovery"].lines
          \/ made.task["discovery"].lines = s.buffer
      BY <1>1 DEF Sidecar!Worker
    <3>3. made.task["discovery"].todo = s.task["discovery"].todo
      BY <1>1 DEF Sidecar!Worker
    <3> QED
      BY <2>1, <3>1, <3>2, <3>3 DEF InTimeOrder, YetToIngest
  <2>5. YetToObserve(made.task["monitor"].todo, made.task["monitor"].since)
    BY <1>1, <2>1 DEF InTimeOrder, Sidecar!Worker
  <2>6. NotAfter(made.buffer, t)
    BY <1>1 DEF NotAfter
  <2> QED
    BY <2>1, <2>3, <2>4, <2>5, <2>6 DEF InTimeOrder
<1>5. made \in SidecarRecord
  BY DEF IsMade
<1> QED
  BY <1>2, <1>3, <1>4, <1>5 DEF LoopHolds

LEMMA AskingIs ==
  /\ Sidecar!Asking \in SidecarTask /\ Sidecar!Asking.at = "asking"
  /\ Sidecar!Asking.lines = <<>> /\ Sidecar!Asking.todo = <<>>
<1>1. Sidecar!Asking = [at |-> "asking", current |-> 0, lines |-> <<>>, todo |-> <<>>, since |-> 0]
  BY DEF Sidecar!Asking, Sidecar!Idle
<1>2. <<>> \in Seq(SidecarEntry) /\ <<>> \in Seq(SidecarCandidate)
  OBVIOUS
<1>3. Sidecar!Asking \in SidecarTask
  BY <1>1, <1>2 DEF SidecarTask
<1> QED
  BY <1>1, <1>3

(* Discovery asks its worker. *)
LEMMA AskHolds ==
  ASSUME NEW s, NEW f, NEW l, NEW e, NEW r, NEW t, LoopHolds(s, f, l, e, r, t),
         s.task["discovery"].at # "writing"
  PROVE  LoopHolds([s EXCEPT !.task["discovery"] = Sidecar!Asking], f, l, e, r, t)
<1>1. PICK asks : asks = [s EXCEPT !.task["discovery"] = Sidecar!Asking]
  OBVIOUS
<1>2. /\ s.task \in [Sidecar!Worker -> SidecarTask] /\ s \in SidecarRecord
      /\ "discovery" \in Sidecar!Worker /\ "monitor" \in Sidecar!Worker
  BY DEF LoopHolds, SidecarRecord, Sidecar!Worker
<1>3. /\ Sidecar!Asking \in SidecarTask /\ Sidecar!Asking.at = "asking"
      /\ Sidecar!Asking.lines = <<>> /\ Sidecar!Asking.todo = <<>>
  BY AskingIs
<1>4. /\ asks.buffer = s.buffer /\ asks.entries = s.entries /\ asks.directory = s.directory
      /\ asks.task = [s.task EXCEPT !["discovery"] = Sidecar!Asking] /\ asks \in SidecarRecord
  BY <1>1, <1>2, <1>3 DEF SidecarRecord
<1>5. /\ asks.task["discovery"] = Sidecar!Asking /\ asks.task["monitor"] = s.task["monitor"]
      /\ \A v \in Sidecar!Worker : v # "discovery" => asks.task[v] = s.task[v]
  BY <1>2, <1>4 DEF Sidecar!Worker
<1>6. /\ s.task["discovery"].lines = <<>>
      /\ \A v \in Sidecar!Worker : asks.task[v].lines = s.task[v].lines
  BY <1>2, <1>3, <1>5 DEF LoopHolds, WillBeOnFile
<1>7. InOnePlace(asks, f, l)
  BY <1>4, <1>6 DEF LoopHolds, InOnePlace, Placed
<1>8. WillBeOnFile(asks, f, e, r)
  BY <1>3, <1>4, <1>5 DEF LoopHolds, WillBeOnFile
<1>9. InTimeOrder(asks, f, e, t)
  <2>1. YetToIngest(asks.task["discovery"].todo, asks.task["discovery"].lines, f, e, t)
    BY <1>3, <1>5 DEF YetToIngest
  <2> QED
    BY <1>4, <1>5, <1>6, <2>1 DEF LoopHolds, InTimeOrder
<1>10. LoopHolds(asks, f, l, e, r, t)
  BY <1>4, <1>7, <1>8, <1>9 DEF LoopHolds
<1> QED
  BY <1>1, <1>10

-----------------------------------------------------------------------------
(* What a tick takes up *)

(* The members of a sequence that are in a set are a sequence over both. *)
LEMMA KeptFrom ==
  ASSUME NEW S, NEW s \in Seq(S), NEW T
  PROVE  Sidecar!Kept(s, T) \in Seq(S \cap T)
<1> DEFINE N == Len(s)
           Is(f, n) == f = [m \in 0..n |-> IF m = 0 THEN <<>>
                                           ELSE IF s[m] \in T THEN Append(f[m - 1], s[m])
                                           ELSE f[m - 1]]
           Failing == {n \in 0..N : ~ \E f : Is(f, n)}
<1>1. N \in Nat /\ \A m \in 1..N : s[m] \in S
  OBVIOUS
<1>2. Failing = {}
  <2> SUFFICES ASSUME Failing # {} PROVE FALSE
    OBVIOUS
  <2>1. Failing \subseteq Nat
    BY <1>1
  <2>2. PICK n \in Failing : \A m \in Failing : n <= m
    BY <2>1, NatLeast
  <2>3. n # 0
    <3>1. PICK f : f = [m \in 0..0 |-> <<>>]
      OBVIOUS
    <3>2. Is(f, 0)
      BY <3>1
    <3> QED
      BY <3>2
  <2>4. n \in 1..N /\ n - 1 \in 0..N /\ n - 1 \notin Failing
    <3>1. n \in 0..N
      OBVIOUS
    <3> HIDE DEF Failing
    <3>2. n - 1 \notin Failing
      BY <1>1, <2>1, <2>2, <3>1
    <3> QED
      BY <1>1, <2>3, <3>1, <3>2
  <2>5. PICK f : Is(f, n - 1)
    <3> HIDE DEF Is
    <3> QED
      BY <2>4
  <2>6. PICK g : g = [m \in 0..n |-> IF m = n
                                      THEN IF s[n] \in T THEN Append(f[n - 1], s[n]) ELSE f[n - 1]
                                      ELSE f[m]]
    OBVIOUS
  <2>7. ASSUME NEW m \in 0..n
        PROVE  g[m] = IF m = 0 THEN <<>>
                      ELSE IF s[m] \in T THEN Append(g[m - 1], s[m]) ELSE g[m - 1]
    <3>1. CASE m = n
      BY <2>3, <2>4, <2>6, <3>1
    <3>2. CASE m # n
      <4>1. m \in 0..(n - 1) /\ m - 1 # n
        BY <2>4, <3>2
      <4>2. g[m] = f[m] /\ (m # 0 => g[m - 1] = f[m - 1])
        BY <2>4, <2>6, <3>2, <4>1
      <4> QED
        BY <2>5, <4>1, <4>2
    <3> QED
      BY <3>1, <3>2
  <2>8. Is(g, n)
    BY <2>6, <2>7
  <2> QED
    BY <2>2, <2>8
<1>3. PICK kept : Is(kept, N) /\ Sidecar!Kept(s, T) = kept[N]
  <2>1. \E f : Is(f, N)
    <3> HIDE DEF Is
    <3>1. N \in 0..N
      BY <1>1
    <3> QED
      BY <1>2, <3>1
  <2>2. PICK kept : kept = CHOOSE f : Is(f, N)
    OBVIOUS
  <2>3. Is(kept, N)
    BY <2>1, <2>2
  <2>4. Sidecar!Kept(s, T) = kept[N]
    BY <2>2 DEF Sidecar!Kept
  <2> QED
    BY <2>3, <2>4
<1> DEFINE Wrong == {n \in 0..N : kept[n] \notin Seq(S \cap T)}
<1>4. Wrong = {}
  <2> SUFFICES ASSUME Wrong # {} PROVE FALSE
    OBVIOUS
  <2>1. Wrong \subseteq Nat
    BY <1>1
  <2>2. PICK n \in Wrong : \A m \in Wrong : n <= m
    BY <2>1, NatLeast
  <2>3. kept[n] = IF n = 0 THEN <<>>
                  ELSE IF s[n] \in T THEN Append(kept[n - 1], s[n]) ELSE kept[n - 1]
    BY <1>3
  <2>4. n # 0
    <3>1. <<>> \in Seq(S \cap T)
      OBVIOUS
    <3> QED
      BY <2>3, <3>1, Zenon
  <2>5. n \in 1..N /\ n - 1 \in 0..N /\ n - 1 \notin Wrong
    <3>1. n \in 0..N
      OBVIOUS
    <3> HIDE DEF Wrong
    <3>2. n - 1 \notin Wrong
      BY <1>1, <2>1, <2>2, <3>1
    <3> QED
      BY <1>1, <2>4, <3>1, <3>2
  <2>6. kept[n - 1] \in Seq(S \cap T)
    BY <2>5
  <2>7. kept[n] \in Seq(S \cap T)
    BY <1>1, <2>3, <2>4, <2>5, <2>6
  <2> QED
    BY <2>2, <2>7
<1>5. N \in 0..N
  BY <1>1
<1>6. kept[N] \in Seq(S \cap T)
  BY <1>4, <1>5, Zenon
<1> QED
  BY <1>3, <1>6, Zenon

LEMMA PrunedTyped ==
  ASSUME NEW reg, RegistryTyped(reg)
  PROVE  /\ RegistryTyped(Sidecar!Pruned(reg))
         /\ \A token \in DOMAIN Sidecar!Pruned(reg) :
              token \in DOMAIN reg /\ reg[token].expires > sidecarClock
  BY DEF RegistryTyped, Sidecar!Pruned

LEMMA UpsertedTyped ==
  ASSUME RegistryTyped(registry), NEW c \in SidecarCandidate
  PROVE  Sidecar!Upserted(c) \in SidecarCandidate /\ Sidecar!Upserted(c).updatedAt = c.updatedAt
<1>1. CASE c.token \in DOMAIN registry /\ registry[c.token].expires > c.expires
  <2>1. Sidecar!Upserted(c) = [c EXCEPT !.expires = registry[c.token].expires]
    BY <1>1 DEF Sidecar!Upserted
  <2>2. registry[c.token].expires \in Nat
    BY <1>1 DEF RegistryTyped, SidecarCandidate
  <2> QED
    BY <2>1, <2>2 DEF SidecarCandidate
<1>2. CASE ~(c.token \in DOMAIN registry /\ registry[c.token].expires > c.expires)
  BY <1>2 DEF Sidecar!Upserted
<1> QED
  BY <1>1, <1>2

LEMMA StoredTyped ==
  ASSUME RegistryTyped(registry), NEW c \in SidecarCandidate
  PROVE  RegistryTyped(Sidecar!Stored(c))
  BY UpsertedTyped DEF RegistryTyped, Sidecar!Stored

(* What the monitor takes is active. *)
LEMMA ActiveTyped ==
  ASSUME NEW reg, RegistryTyped(reg)
  PROVE  /\ Sidecar!Active(reg) \in Seq(SidecarCandidate)
         /\ YetToObserve(Sidecar!Active(reg), sidecarClock)
<1>1. PICK tokens : tokens = Sidecar!Kept(SidecarTokens, DOMAIN Sidecar!Pruned(reg))
  OBVIOUS
<1>2. SidecarTokens \in Seq(STRING)
  BY SidecarConstants
<1>3. tokens \in Seq(STRING \cap DOMAIN Sidecar!Pruned(reg))
  BY <1>1, <1>2, KeptFrom
<1>4. PICK active : active = [i \in DOMAIN tokens |-> reg[tokens[i]]]
  OBVIOUS
<1>5. Len(tokens) \in Nat /\ DOMAIN tokens = 1..Len(tokens)
      /\ \A i \in DOMAIN tokens : tokens[i] \in DOMAIN Sidecar!Pruned(reg)
  BY <1>3
<1>6. \A i \in DOMAIN tokens : active[i] \in SidecarCandidate /\ active[i].expires > sidecarClock
  BY <1>4, <1>5, PrunedTyped DEF RegistryTyped
<1>7. active \in Seq(SidecarCandidate) /\ DOMAIN active = DOMAIN tokens
  BY <1>4, <1>5, <1>6
<1>8. YetToObserve(active, sidecarClock)
  BY <1>6, <1>7 DEF YetToObserve
<1>9. Sidecar!Active(reg) = active
  BY <1>1, <1>4 DEF Sidecar!Active
<1> QED
  BY <1>7, <1>8, <1>9

(* What discovery accepts is of now. *)
LEMMA AcceptingTyped ==
  ASSUME NEW answer \in SidecarAnswers, sidecarClock \in Nat
  PROVE  /\ Sidecar!Accepting(answer) \in Seq(SidecarCandidate)
         /\ \A i \in DOMAIN Sidecar!Accepting(answer) :
              Sidecar!Accepting(answer)[i].updatedAt = sidecarClock
<1> DEFINE ParsedNow == [token : Sidecar!Range(SidecarTokens), level : 0..100, monitored : BOOLEAN,
                         updatedAt : {sidecarClock}, expires : Nat]
           AcceptedNow == {c \in SidecarCandidate : c.updatedAt = sidecarClock}
<1>1. answer \in Seq(Sidecar!RawCandidate)
  BY SidecarConstants
<1>2. \A raw \in Sidecar!RawCandidate : Sidecar!Parsed(raw) \in ParsedNow
  BY DEF Sidecar!RawCandidate, Sidecar!Parsed
<1>3. PICK parsed : parsed = [i \in DOMAIN answer |-> Sidecar!Parsed(answer[i])]
  OBVIOUS
<1>4. Len(answer) \in Nat /\ DOMAIN answer = 1..Len(answer)
      /\ \A i \in DOMAIN answer : answer[i] \in Sidecar!RawCandidate
  BY <1>1
<1>5. \A i \in DOMAIN answer : parsed[i] \in ParsedNow
  BY <1>2, <1>3, <1>4, Zenon
<1> HIDE DEF ParsedNow
<1>6. parsed \in Seq(ParsedNow)
  BY <1>3, <1>4, <1>5
<1>7. PICK T : T = {c \in Sidecar!Range(parsed) : Sidecar!Accepted(c)}
  OBVIOUS
<1>8. Sidecar!Kept(parsed, T) \in Seq(ParsedNow \cap T)
  BY <1>6, KeptFrom
<1>9. ParsedNow \cap T \subseteq AcceptedNow
  <2>1. \A c \in T : Sidecar!Accepted(c)
    BY <1>7
  <2>2. \A c \in ParsedNow : Sidecar!Accepted(c) => c \in AcceptedNow
    BY DEF ParsedNow, Sidecar!Accepted, SidecarCandidate
  <2> QED
    BY <2>1, <2>2
<1>10. PICK kept : kept = Sidecar!Kept(parsed, T)
  OBVIOUS
<1>11. Sidecar!Accepting(answer) = kept
  BY <1>3, <1>7, <1>10 DEF Sidecar!Accepting
<1>12. Len(kept) \in Nat /\ DOMAIN kept = 1..Len(kept) /\ kept \in [1..Len(kept) -> ParsedNow \cap T]
  BY <1>8, <1>10
<1>13. \A i \in DOMAIN kept : kept[i] \in SidecarCandidate /\ kept[i].updatedAt = sidecarClock
  BY <1>9, <1>12
<1>14. kept \in Seq(SidecarCandidate)
  BY <1>12, <1>13
<1> QED
  BY <1>11, <1>13, <1>14

LEMMA ObservationTyped ==
  ASSUME NEW c \in SidecarCandidate, NEW since, c.expires > since, NEW id \in Nat,
         sidecarClock \in Nat
  PROVE  /\ Sidecar!Observation(c, since, id) \in SidecarEntry
         /\ Sidecar!Observation(c, since, id).id = id
         /\ Sidecar!Observation(c, since, id).kind = "observation"
         /\ Sidecar!Observation(c, since, id).time = sidecarClock
<1>1. /\ c.level \in 70..100 /\ c.token \in Sidecar!Range(SidecarTokens)
  BY DEF SidecarCandidate
<1>2. Sidecar!DeriveState(c) \in {"weak_reclaim", "reclaim_attempt", "structure_shift_possible"}
  BY <1>1 DEF Sidecar!DeriveState
<1>3. (c.expires > since) = TRUE
  OBVIOUS
<1> QED
  BY <1>1, <1>2, <1>3 DEF Sidecar!Observation, SidecarEntry

LEMMA IngestionTyped ==
  ASSUME NEW c \in SidecarCandidate, NEW id \in Nat
  PROVE  /\ Sidecar!Ingestion(c, id) \in SidecarEntry
         /\ Sidecar!Ingestion(c, id).id = id
         /\ Sidecar!Ingestion(c, id).kind = "candidate"
         /\ Sidecar!Ingestion(c, id).time = c.updatedAt
  BY DEF Sidecar!Ingestion, SidecarEntry, SidecarCandidate

LEMMA EarlyGrows ==
  ASSUME NEW s, NEW f, NEW l, NEW e, NEW r, NEW t, LoopHolds(s, f, l, e, r, t),
         NEW e2, e \subseteq e2
  PROVE  LoopHolds(s, f, l, e2, r, t)
<1>1. WillBeOnFile(s, f, e2, r)
  BY DEF LoopHolds, WillBeOnFile
<1>2. InTimeOrder(s, f, e, t)
  BY DEF LoopHolds
<1>3. Ordered(f, e2)
  BY <1>2 DEF InTimeOrder, Ordered
<1>4. \A v \in Sidecar!Worker : OwnLast(s.task[v].lines, f, e2, v)
  BY <1>2, NotBeforeMore DEF InTimeOrder, OwnLast
<1>5. YetToIngest(s.task["discovery"].todo, s.task["discovery"].lines, f, e2, t)
  BY <1>2, NotBeforeMore DEF InTimeOrder, YetToIngest
<1>6. InTimeOrder(s, f, e2, t)
  BY <1>2, <1>3, <1>4, <1>5 DEF InTimeOrder
<1> QED
  BY <1>1, <1>6 DEF LoopHolds

(* What a step that leads from s to s2 makes early *)
EarlyWith(s, s2, e, e2) ==
  e \subseteq e2 /\ (s.directory \/ \A id \in s.entries + 1 .. s2.entries : id \in e2)

LEMMA HeadAndTail ==
  ASSUME NEW todo \in Seq(SidecarCandidate), todo # <<>>
  PROVE  /\ Head(todo) \in SidecarCandidate /\ Head(todo) = todo[1] /\ 1 \in DOMAIN todo
         /\ Tail(todo) \in Seq(SidecarCandidate)
         /\ \A i \in DOMAIN Tail(todo) : i + 1 \in DOMAIN todo /\ Tail(todo)[i] = todo[i + 1]
  OBVIOUS

LEMMA ObservingHolds ==
  ASSUME NEW s \in SidecarRecord, NEW f, NEW l, NEW e, NEW r, NEW t,
         LoopHolds(Sidecar!Ended(s, "monitor"), f, l, e, r, t), t = sidecarClock,
         NEW todo \in Seq(SidecarCandidate), NEW since \in Nat, YetToObserve(todo, since),
         NEW s2, s2 = Sidecar!Observing(s, todo, since), NEW e2, EarlyWith(s, s2, e, e2)
  PROVE  LoopHolds(s2, f, l, e2, r, t) /\ s2.directory = s.directory
<1>1. PICK ended : ended = Sidecar!Ended(s, "monitor")
  OBVIOUS
<1>2. /\ "monitor" \in Sidecar!Worker /\ IsEnded(ended, s, "monitor")
      /\ LoopHolds(ended, f, l, e, r, t)
  BY <1>1, EndedIs DEF Sidecar!Worker
<1>3. CASE todo = <<>>
  <2>1. s2 = ended
    BY <1>1, <1>3 DEF Sidecar!Observing
  <2>2. s2.directory = s.directory
    BY <1>2, <2>1 DEF IsEnded
  <2> QED
    BY <1>2, <2>1, <2>2, EarlyGrows DEF EarlyWith
<1>4. CASE todo # <<>>
  <2>1. /\ s.entries \in Nat /\ t \in Nat /\ s.directory \in BOOLEAN
        /\ f \in Seq(SidecarEntry)
    BY <1>2 DEF SidecarRecord, LoopHolds
  <2>2. PICK entry : entry = Sidecar!Observation(Head(todo), since, s.entries + 1)
    OBVIOUS
  <2>3. PICK left : left = Tail(todo)
    OBVIOUS
  <2>4. s2 = Sidecar!Push(s, "monitor", entry, left, since)
    BY <1>4, <2>2, <2>3 DEF Sidecar!Observing
  <2>5. /\ Head(todo) \in SidecarCandidate /\ Head(todo).expires > since
        /\ left \in Seq(SidecarCandidate) /\ YetToObserve(left, since)
    BY <1>4, <2>3, HeadAndTail DEF YetToObserve
  <2>6. /\ entry \in SidecarEntry /\ entry.id = s.entries + 1
        /\ entry.kind = "observation" /\ entry.time = t
    BY <2>1, <2>2, <2>5, ObservationTyped
  <2>7. NotBefore(entry.time, f, e, entry.kind)
    BY <1>2, <2>6 DEF LoopHolds, InTimeOrder, NotAfter, NotBefore
  <2>8. MayPush(s, "monitor", entry, left, since, f, e, t)
    BY <2>1, <2>5, <2>6, <2>7 DEF MayPush, KindOf
  <2>9. IsPushed(s2, s, "monitor", entry, left, since)
    BY <1>2, <2>4, <2>5, <2>6, PushIs
  <2>10. s2.entries = s.entries + 1 /\ s2.directory = s.directory
    BY <2>9 DEF IsPushed
  <2>11. e \subseteq e2 /\ (s.directory \/ entry.id \in e2)
    BY <2>1, <2>6, <2>10 DEF EarlyWith
  <2> QED
    BY <1>2, <2>8, <2>9, <2>10, <2>11, PushHolds
<1> QED
  BY <1>3, <1>4

LEMMA IngestingHolds ==
  ASSUME NEW s \in SidecarRecord, NEW f, NEW l, NEW e, NEW r, NEW t,
         LoopHolds(Sidecar!Ended(s, "discovery"), f, l, e, r, t), RegistryTyped(registry),
         NEW todo \in Seq(SidecarCandidate), todo # <<>>, YetToIngest(todo, <<>>, f, e, t),
         NEW s2, s2 = Sidecar!Ingesting(s, todo), NEW e2, EarlyWith(s, s2, e, e2)
  PROVE  LoopHolds(s2, f, l, e2, r, t) /\ s2.directory = s.directory
<1>1. PICK ended : ended = Sidecar!Ended(s, "discovery")
  OBVIOUS
<1>2. /\ "discovery" \in Sidecar!Worker /\ IsEnded(ended, s, "discovery")
      /\ LoopHolds(ended, f, l, e, r, t)
  BY <1>1, EndedIs DEF Sidecar!Worker
<1>3. /\ s.entries \in Nat /\ t \in Nat /\ s.directory \in BOOLEAN
  BY <1>2 DEF SidecarRecord, LoopHolds
<1>4. PICK entry : entry = Sidecar!Ingestion(Sidecar!Upserted(Head(todo)), s.entries + 1)
  OBVIOUS
<1>5. PICK left : left = Tail(todo)
  OBVIOUS
<1>6. s2 = Sidecar!Push(s, "discovery", entry, left, 0)
  BY <1>4, <1>5 DEF Sidecar!Ingesting
<1>7. /\ Head(todo) \in SidecarCandidate /\ Head(todo) = todo[1] /\ 1 \in DOMAIN todo
      /\ left \in Seq(SidecarCandidate)
      /\ \A i \in DOMAIN left : i + 1 \in DOMAIN todo /\ left[i] = todo[i + 1]
  BY <1>5, HeadAndTail
<1>8. /\ entry \in SidecarEntry /\ entry.id = s.entries + 1
      /\ entry.kind = "candidate" /\ entry.time = todo[1].updatedAt
  <2>1. /\ Sidecar!Upserted(Head(todo)) \in SidecarCandidate
        /\ Sidecar!Upserted(Head(todo)).updatedAt = todo[1].updatedAt
    BY <1>7, UpsertedTyped
  <2> QED
    BY <1>3, <1>4, <2>1, IngestionTyped
<1>9. /\ entry.time <= t /\ NotBefore(entry.time, f, e, entry.kind)
      /\ \A j \in DOMAIN todo : todo[j].updatedAt = entry.time
  BY <1>7, <1>8 DEF YetToIngest
<1>10. YetToIngest(left, <<>>, f, e, t) /\ \A i \in DOMAIN left : entry.time <= left[i].updatedAt
  <2>1. entry.time \in Nat
    BY <1>8 DEF SidecarEntry
  <2>2. \A i \in DOMAIN left : left[i].updatedAt = entry.time
    BY <1>7, <1>9
  <2>3. NotBefore(entry.time, <<>>, e, "candidate")
    BY DEF NotBefore
  <2>4. NotBefore(entry.time, f, e, "candidate")
    BY <1>8, <1>9
  <2> QED
    BY <1>9, <2>1, <2>2, <2>3, <2>4 DEF YetToIngest
<1>11. MayPush(s, "discovery", entry, left, 0, f, e, t)
  BY <1>7, <1>8, <1>9, <1>10 DEF MayPush, KindOf
<1>12. IsPushed(s2, s, "discovery", entry, left, 0)
  BY <1>2, <1>6, <1>7, <1>8, PushIs
<1>13. s2.entries = s.entries + 1 /\ s2.directory = s.directory
  BY <1>12 DEF IsPushed
<1>14. e \subseteq e2 /\ (s.directory \/ entry.id \in e2)
  BY <1>3, <1>8, <1>13 DEF EarlyWith
<1> QED
  BY <1>2, <1>11, <1>12, <1>13, <1>14, PushHolds

LEMMA AfterDiscoveryHolds ==
  ASSUME NEW s \in SidecarRecord, NEW f, NEW l, NEW e, NEW r, LoopHolds(s, f, l, e, r, sidecarClock),
         NEW reg, RegistryTyped(reg), Sidecar!AfterDiscovery(s, reg),
         NEW e2, EarlyWith(s, loop', e, e2)
  PROVE  LoopHolds(loop', f, l, e2, r, sidecarClock) /\ RegistryTyped(registry')
<1>1. CASE loop' = s
  <2>1. LoopHolds(s, f, l, e2, r, sidecarClock)
    BY EarlyGrows DEF EarlyWith
  <2>2. registry' = reg \/ registry' = Sidecar!Pruned(reg)
    BY DEF Sidecar!AfterDiscovery
  <2> QED
    BY <1>1, <2>1, <2>2, PrunedTyped
<1>2. CASE /\ s.task["monitor"] = Sidecar!Idle
           /\ loop' = Sidecar!Observing(s, Sidecar!Active(reg), sidecarClock)
           /\ registry' = Sidecar!Pruned(reg)
  <2>1. "monitor" \in Sidecar!Worker /\ s.task["monitor"].at # "writing"
    BY <1>2 DEF Sidecar!Worker, Sidecar!Idle
  <2>2. PICK ended : ended = Sidecar!Ended(s, "monitor")
    OBVIOUS
  <2>3. IsEnded(ended, s, "monitor")
    BY <2>1, <2>2, EndedIs
  <2>4. LoopHolds(ended, f, l, e, r, sidecarClock)
    BY <2>1, <2>3, NothingWritten
  <2>5. sidecarClock \in Nat
    BY DEF LoopHolds
  <2>6. PICK active : active = Sidecar!Active(reg)
    OBVIOUS
  <2>7. active \in Seq(SidecarCandidate) /\ YetToObserve(active, sidecarClock)
    BY <2>6, ActiveTyped
  <2>8. LoopHolds(loop', f, l, e2, r, sidecarClock)
    BY <1>2, <2>2, <2>4, <2>5, <2>6, <2>7, ObservingHolds
  <2> QED
    BY <1>2, <2>8, PrunedTyped
<1> QED
  BY <1>1, <1>2 DEF Sidecar!AfterDiscovery

LEMMA IngestHolds ==
  ASSUME NEW s \in SidecarRecord, NEW f, NEW l, NEW e, NEW r,
         LoopHolds(Sidecar!Ended(s, "discovery"), f, l, e, r, sidecarClock),
         RegistryTyped(registry), NEW todo \in Seq(SidecarCandidate),
         YetToIngest(todo, <<>>, f, e, sidecarClock), Sidecar!Ingest(s, todo),
         NEW e2, EarlyWith(s, loop', e, e2)
  PROVE  LoopHolds(loop', f, l, e2, r, sidecarClock) /\ RegistryTyped(registry')
<1>1. CASE todo = <<>>
  <2>1. PICK ended : ended = Sidecar!Ended(s, "discovery")
    OBVIOUS
  <2>2. IsEnded(ended, s, "discovery")
    BY <2>1, EndedIs DEF Sidecar!Worker
  <2>3. EarlyWith(ended, loop', e, e2) /\ ended \in SidecarRecord
    BY <2>2 DEF EarlyWith, IsEnded
  <2>4. Sidecar!AfterDiscovery(ended, Sidecar!Pruned(registry))
    BY <1>1, <2>1 DEF Sidecar!Ingest
  <2>5. RegistryTyped(Sidecar!Pruned(registry))
    BY PrunedTyped
  <2>6. LoopHolds(ended, f, l, e, r, sidecarClock)
    BY <2>1
  <2> QED
    BY <2>3, <2>4, <2>5, <2>6, AfterDiscoveryHolds
<1>2. CASE todo # <<>>
  <2>1. loop' = Sidecar!Ingesting(s, todo) /\ registry' = Sidecar!Stored(Head(todo))
    BY <1>2 DEF Sidecar!Ingest
  <2>2. LoopHolds(loop', f, l, e2, r, sidecarClock)
    BY <1>2, <2>1, IngestingHolds
  <2>3. RegistryTyped(registry')
    BY <1>2, <2>1, StoredTyped, HeadAndTail
  <2> QED
    BY <2>2, <2>3
<1> QED
  BY <1>1, <1>2

LEMMA AbortHolds ==
  ASSUME NEW s \in SidecarRecord, NEW w \in Sidecar!Worker, NEW f, NEW l, NEW e, NEW r,
         LoopHolds(Sidecar!Ended(s, w), f, l, e, r, sidecarClock),
         RegistryTyped(registry), Sidecar!Abort(w, s), NEW e2, EarlyWith(s, loop', e, e2)
  PROVE  LoopHolds(loop', f, l, e2, r, sidecarClock) /\ RegistryTyped(registry')
<1>1. PICK ended : ended = Sidecar!Ended(s, w)
  OBVIOUS
<1>2. EarlyWith(ended, loop', e, e2) /\ ended \in SidecarRecord
  BY <1>1, EndedIs DEF EarlyWith, IsEnded
<1>3. LoopHolds(ended, f, l, e, r, sidecarClock)
  BY <1>1
<1>4. CASE w = "discovery"
  <2>1. Sidecar!AfterDiscovery(ended, registry)
    BY <1>1, <1>4 DEF Sidecar!Abort
  <2> QED
    BY <1>2, <1>3, <2>1, AfterDiscoveryHolds
<1>5. CASE w # "discovery"
  <2>1. loop' = ended /\ registry' = registry
    BY <1>1, <1>5 DEF Sidecar!Abort
  <2> QED
    BY <1>2, <1>3, <2>1, EarlyGrows DEF EarlyWith
<1> QED
  BY <1>4, <1>5

(* What a tick has left to do it has after it wrote its lines, too. *)
LEMMA StillToIngest ==
  ASSUME NEW todo, NEW lines \in Seq(SidecarEntry), NEW f \in Seq(SidecarEntry), NEW e, NEW t,
         YetToIngest(todo, lines, f, e, t)
  PROVE  YetToIngest(todo, <<>>, f \o lines, e, t)
<1>1. \A time : NotBefore(time, <<>>, e, "candidate")
  BY DEF NotBefore
<1>2. \A i \in DOMAIN todo : NotBefore(todo[i].updatedAt, f \o lines, e, "candidate")
  BY NotBeforeJoined DEF YetToIngest
<1> QED
  BY <1>1, <1>2 DEF YetToIngest

LEMMA ContinueHolds ==
  ASSUME NEW s, NEW w \in Sidecar!Worker, NEW f, NEW l, NEW e, NEW r,
         LoopHolds(s, f, l, e, r, sidecarClock), s.task[w].at = "writing",
         RegistryTyped(registry), Sidecar!Continue(w, s), NEW e2, EarlyWith(s, loop', e, e2)
  PROVE  /\ LoopHolds(loop', f \o s.task[w].lines, l, e2, r \cup {s.task[w].current}, sidecarClock)
         /\ RegistryTyped(registry')
<1>1. /\ s \in SidecarRecord /\ s.task[w] \in SidecarTask /\ f \in Seq(SidecarEntry)
      /\ s.task[w].lines \in Seq(SidecarEntry) /\ sidecarClock \in Nat
      /\ s.task[w].todo \in Seq(SidecarCandidate) /\ s.task[w].since \in Nat
  BY LinesTyped DEF SidecarTask
<1>2. PICK ended : ended = Sidecar!Ended(s, w)
  OBVIOUS
<1>3. PICK joined : joined = f \o s.task[w].lines
  OBVIOUS
<1>4. PICK written : written = r \cup {s.task[w].current}
  OBVIOUS
<1>5. LoopHolds(ended, joined, l, e, written, sidecarClock)
  BY <1>1, <1>2, <1>3, <1>4, EndedIs, WriteHolds
<1>6. InTimeOrder(s, f, e, sidecarClock)
  BY DEF LoopHolds
<1>7. CASE w = "discovery"
  <2>1. Sidecar!Ingest(s, s.task[w].todo)
    BY <1>7 DEF Sidecar!Continue
  <2>2. YetToIngest(s.task[w].todo, <<>>, joined, e, sidecarClock)
    BY <1>1, <1>3, <1>6, <1>7, StillToIngest DEF InTimeOrder
  <2>3. LoopHolds(loop', joined, l, e2, written, sidecarClock) /\ RegistryTyped(registry')
    BY <1>1, <1>2, <1>5, <1>7, <2>1, <2>2, IngestHolds
  <2> QED
    BY <1>3, <1>4, <2>3
<1>8. CASE w = "monitor"
  <2>1. /\ loop' = Sidecar!Observing(s, s.task[w].todo, s.task[w].since) /\ registry' = registry
    BY <1>8 DEF Sidecar!Continue
  <2>2. YetToObserve(s.task[w].todo, s.task[w].since)
    BY <1>6, <1>8 DEF InTimeOrder
  <2>3. LoopHolds(loop', joined, l, e2, written, sidecarClock)
    BY <1>1, <1>2, <1>5, <1>8, <2>1, <2>2, ObservingHolds
  <2> QED
    BY <1>3, <1>4, <2>1, <2>3
<1> QED
  BY <1>7, <1>8 DEF Sidecar!Worker

-----------------------------------------------------------------------------
(* The steps of the loop *)

(* A process begins with what is on file. *)
LEMMA FreshHolds ==
  ASSUME NEW directory \in BOOLEAN, NEW n \in Nat, NEW f \in Seq(SidecarEntry), NEW e, NEW r,
         NEW t \in Nat, Apart(f), \A id \in Nat : id \in Sidecar!Ids(f) => id \in 1..n,
         Ordered(f, e), NotAfter(f, t), r \subseteq Sidecar!Ids(f) \cup e
  PROVE  LoopHolds(Sidecar!Loop(directory, n), f, (1..n) \ Sidecar!Ids(f), e, r, t)
<1>1. PICK s : s = Sidecar!Loop(directory, n)
  OBVIOUS
<1>2. PICK task : task = [w \in Sidecar!Worker |-> IF w = "discovery" THEN Sidecar!Asking
                                                   ELSE Sidecar!Idle]
  OBVIOUS
<1>3. s.directory = directory /\ s.buffer = <<>> /\ s.entries = n /\ s.task = task
  BY <1>1, <1>2 DEF Sidecar!Loop
<1>4. /\ Sidecar!Idle \in SidecarTask /\ Sidecar!Idle.at = "idle"
      /\ Sidecar!Idle.lines = <<>> /\ Sidecar!Idle.todo = <<>>
  BY DEF Sidecar!Idle, SidecarTask
<1>5. /\ task \in [Sidecar!Worker -> SidecarTask]
      /\ \A w \in Sidecar!Worker :
           /\ task[w].lines = <<>> /\ task[w].todo = <<>>
           /\ task[w].at # "writing" /\ task[w].at # "directory"
  BY <1>2, <1>4, AskingIs
<1>6. s \in SidecarRecord
  <2>1. s = [directory |-> directory, buffer |-> <<>>, entries |-> n, task |-> task]
    BY <1>1, <1>2 DEF Sidecar!Loop
  <2>2. <<>> \in Seq(SidecarEntry)
    OBVIOUS
  <2> QED
    BY <1>5, <2>1, <2>2 DEF SidecarRecord
<1>7. InOnePlace(s, f, (1..n) \ Sidecar!Ids(f))
  <2>1. /\ Sidecar!Ids(s.buffer) = {} /\ Apart(s.buffer)
        /\ \A w \in Sidecar!Worker : Sidecar!Ids(s.task[w].lines) = {} /\ Apart(s.task[w].lines)
    BY <1>3, <1>5, NoIds
  <2>2. ASSUME NEW id \in Nat PROVE Placed(id, s, f, (1..n) \ Sidecar!Ids(f))
    BY <1>3, <2>1 DEF Placed
  <2> QED
    BY <2>1, <2>2 DEF InOnePlace
<1>8. WillBeOnFile(s, f, e, r)
  BY <1>3, <1>5, NoIds DEF WillBeOnFile
<1>9. InTimeOrder(s, f, e, t)
  <2>1. NotAfter(<<>>, t) /\ \A w : OwnLast(<<>>, f, e, w)
    BY DEF NotAfter, OwnLast
  <2>2. /\ \A lines : YetToIngest(<<>>, lines, f, e, t)
        /\ \A since : YetToObserve(<<>>, since)
    BY DEF YetToIngest, YetToObserve
  <2>3. "discovery" \in Sidecar!Worker /\ "monitor" \in Sidecar!Worker
    BY DEF Sidecar!Worker
  <2> QED
    BY <1>3, <1>5, <2>1, <2>2, <2>3 DEF InTimeOrder
<1>10. LoopHolds(s, f, (1..n) \ Sidecar!Ids(f), e, r, t)
  BY <1>6, <1>7, <1>8, <1>9 DEF LoopHolds
<1> QED
  BY <1>1, <1>10

(* Lines may be on file whether or not their tick knows. *)
LEMMA MayBeWritten ==
  ASSUME NEW s, NEW f, NEW l, NEW e, NEW r, NEW t, LoopHolds(s, f, l, e, r, t),
         NEW w \in Sidecar!Worker
  PROVE  \E ended : /\ LoopHolds(ended, f \o s.task[w].lines, l, e, r, t)
                    /\ ended.entries = s.entries
                    /\ \A v \in Sidecar!Worker : v # w => ended.task[v] = s.task[v]
<1>1. PICK ended : ended = Sidecar!Ended(s, w)
  OBVIOUS
<1>2. IsEnded(ended, s, w)
  BY <1>1, LinesTyped, EndedIs
<1>3. PICK joined : joined = f \o s.task[w].lines
  OBVIOUS
<1>4. /\ joined \in Seq(SidecarEntry) /\ ended \in SidecarRecord /\ t \in Nat
      /\ Sidecar!Ids(joined) = Sidecar!Ids(f) \cup Sidecar!Ids(s.task[w].lines)
  BY <1>2, <1>3, LinesTyped, IdsJoined DEF IsEnded
<1>5. InOnePlace(ended, joined, l) /\ InTimeOrder(ended, joined, e, t)
  BY <1>2, <1>3, LinesGo, LinesWrittenOrdered
<1>6. WillBeOnFile(ended, joined, e, r)
  <2>1. WillBeOnFile(s, f, e, r)
    BY DEF LoopHolds
  <2>2. /\ ended.buffer = s.buffer /\ ended.directory = s.directory
        /\ ended.task[w].at = "idle" /\ ended.task[w].lines = <<>>
        /\ \A v \in Sidecar!Worker : v # w => ended.task[v] = s.task[v]
    BY <1>2 DEF IsEnded, Sidecar!Idle
  <2> QED
    BY <1>4, <2>1, <2>2 DEF WillBeOnFile
<1>7. LoopHolds(ended, joined, l, e, r, t)
  BY <1>4, <1>5, <1>6 DEF LoopHolds
<1>8. /\ ended.entries = s.entries
      /\ \A v \in Sidecar!Worker : v # w => ended.task[v] = s.task[v]
  BY <1>2 DEF IsEnded
<1> QED
  BY <1>3, <1>7, <1>8

LEMMA RestartKeeps == SidecarInv /\ Sidecar!Restart => SidecarInv'
<1> SUFFICES ASSUME SidecarInv, Sidecar!Restart PROVE SidecarInv'
  OBVIOUS
<1> DEFINE Was(f) == \E s : /\ LoopHolds(s, f, lost, early, reported, sidecarClock)
                            /\ s.entries = loop.entries
<1>1. PICK d : d = loop.task["discovery"].lines
  OBVIOUS
<1>2. PICK m : m = loop.task["monitor"].lines
  OBVIOUS
<1>3. LoopHolds(loop, sidecarFile, lost, early, reported, sidecarClock)
  BY DEF SidecarInv
<1>4. "discovery" \in Sidecar!Worker /\ "monitor" \in Sidecar!Worker
  BY DEF Sidecar!Worker
<1>5. Was(sidecarFile)
  BY <1>3
<1>6. PICK s : /\ LoopHolds(s, sidecarFile \o d, lost, early, reported, sidecarClock)
               /\ s.entries = loop.entries /\ s.task["monitor"].lines = m
  BY <1>1, <1>2, <1>3, <1>4, MayBeWritten
<1>7. Was(sidecarFile \o d) /\ Was(sidecarFile \o d \o m)
  <2>1. PICK joined : joined = sidecarFile \o d
    OBVIOUS
  <2>2. \E ended : /\ LoopHolds(ended, joined \o m, lost, early, reported, sidecarClock)
                   /\ ended.entries = s.entries
    BY <1>4, <1>6, <2>1, MayBeWritten
  <2> QED
    BY <1>6, <2>1, <2>2
<1>8. PICK o : /\ LoopHolds(o, sidecarFile \o m, lost, early, reported, sidecarClock)
               /\ o.entries = loop.entries /\ o.task["discovery"].lines = d
  BY <1>1, <1>2, <1>3, <1>4, MayBeWritten
<1>9. Was(sidecarFile \o m) /\ Was(sidecarFile \o m \o d)
  <2>1. PICK joined : joined = sidecarFile \o m
    OBVIOUS
  <2>2. \E ended : /\ LoopHolds(ended, joined \o d, lost, early, reported, sidecarClock)
                   /\ ended.entries = o.entries
    BY <1>4, <1>8, <2>1, MayBeWritten
  <2> QED
    BY <1>8, <2>1, <2>2
<1>10. Was(sidecarFile')
  <2> HIDE DEF Was
  <2> QED
    BY <1>1, <1>2, <1>5, <1>7, <1>9 DEF Sidecar!Restart
<1>11. PICK f : f = sidecarFile'
  OBVIOUS
<1>12. PICK was : LoopHolds(was, f, lost, early, reported, sidecarClock)
                  /\ was.entries = loop.entries
  BY <1>10, <1>11
<1>13. /\ f \in Seq(SidecarEntry) /\ Apart(f) /\ Ordered(f, early) /\ NotAfter(f, sidecarClock)
       /\ reported \subseteq Sidecar!Ids(f) \cup early
       /\ \A id \in Nat : id \in Sidecar!Ids(f) => id \in 1..loop.entries
       /\ sidecarClock \in Nat
  BY <1>12 DEF LoopHolds, InOnePlace, Placed, WillBeOnFile, InTimeOrder
<1>14. loop.directory \in BOOLEAN /\ loop.entries \in Nat
  BY <1>3 DEF LoopHolds, SidecarRecord
<1>15. LoopHolds(Sidecar!Loop(loop.directory, loop.entries), f,
                 (1..loop.entries) \ Sidecar!Ids(f), early, reported, sidecarClock)
  BY <1>13, <1>14, FreshHolds
<1>16. /\ loop' = Sidecar!Loop(loop.directory, loop.entries)
       /\ lost' = (1..loop.entries) \ Sidecar!Ids(f)
       /\ early' = early /\ reported' = reported /\ sidecarClock' = sidecarClock
       /\ registry' = <<>>
  BY <1>11 DEF Sidecar!Restart, Sidecar!Ids, Sidecar!Range
<1>17. RegistryTyped(<<>>)
  BY DEF RegistryTyped
<1> QED
  BY <1>11, <1>15, <1>16, <1>17 DEF SidecarInv

LEMMA EarlyIs == Sidecar!Early => EarlyWith(loop, loop', early, early')
<1> SUFFICES ASSUME Sidecar!Early PROVE EarlyWith(loop, loop', early, early')
  OBVIOUS
<1>1. early' = early \cup (IF loop.directory THEN {} ELSE loop.entries + 1 .. loop'.entries)
  BY DEF Sidecar!Early
<1> QED
  BY <1>1 DEF EarlyWith

LEMMA SidecarStarts == Sidecar!Init => SidecarInv
<1> SUFFICES ASSUME Sidecar!Init PROVE SidecarInv
  OBVIOUS
<1>1. PICK directory \in BOOLEAN : loop = Sidecar!Loop(directory, 0)
  BY DEF Sidecar!Init
<1>2. /\ sidecarFile = <<>> /\ lost = {} /\ early = {} /\ reported = {} /\ sidecarClock = 0
      /\ registry = <<>>
  BY DEF Sidecar!Init
<1>3. Apart(<<>>) /\ Sidecar!Ids(<<>>) = {} /\ <<>> \in Seq(SidecarEntry)
  BY NoIds
<1>4. Ordered(<<>>, {}) /\ NotAfter(<<>>, 0)
  BY DEF Ordered, NotAfter
<1>5. LoopHolds(Sidecar!Loop(directory, 0), <<>>, (1..0) \ Sidecar!Ids(<<>>), {}, {}, 0)
  BY <1>3, <1>4, FreshHolds
<1>6. (1..0) \ Sidecar!Ids(<<>>) = {}
  BY <1>3
<1>7. RegistryTyped(<<>>)
  BY DEF RegistryTyped
<1> QED
  BY <1>1, <1>2, <1>5, <1>6, <1>7 DEF SidecarInv

LEMMA DiscoveryTimerKeeps == SidecarInv /\ Sidecar!DiscoveryTimer => SidecarInv'
<1> SUFFICES ASSUME SidecarInv, Sidecar!DiscoveryTimer PROVE SidecarInv'
  OBVIOUS
<1>1. loop.task["discovery"].at # "writing"
  BY DEF Sidecar!DiscoveryTimer, Sidecar!At
<1>2. LoopHolds([loop EXCEPT !.task["discovery"] = Sidecar!Asking],
                sidecarFile, lost, early, reported, sidecarClock)
  BY <1>1, AskHolds DEF SidecarInv
<1> QED
  BY <1>2 DEF Sidecar!DiscoveryTimer, SidecarInv, RegistryTyped

LEMMA MonitorTimerKeeps == SidecarInv /\ Sidecar!MonitorTimer => SidecarInv'
<1> SUFFICES ASSUME SidecarInv, Sidecar!MonitorTimer PROVE SidecarInv'
  OBVIOUS
<1>1. /\ LoopHolds(loop, sidecarFile, lost, early, reported, sidecarClock)
      /\ RegistryTyped(registry) /\ "monitor" \in Sidecar!Worker
      /\ loop \in SidecarRecord /\ sidecarClock \in Nat
  BY DEF SidecarInv, LoopHolds, Sidecar!Worker
<1>2. PICK ended : ended = Sidecar!Ended(loop, "monitor")
  OBVIOUS
<1>3. loop.task["monitor"].at # "writing"
  BY DEF Sidecar!MonitorTimer, Sidecar!At
<1>4. LoopHolds(ended, sidecarFile, lost, early, reported, sidecarClock)
  BY <1>1, <1>2, <1>3, EndedIs, NothingWritten
<1>5. PICK active : active = Sidecar!Active(registry)
  OBVIOUS
<1>6. active \in Seq(SidecarCandidate) /\ YetToObserve(active, sidecarClock)
  BY <1>1, <1>5, ActiveTyped
<1>7. /\ loop' = Sidecar!Observing(loop, active, sidecarClock)
      /\ EarlyWith(loop, loop', early, early')
      /\ sidecarFile' = sidecarFile /\ lost' = lost /\ reported' = reported
      /\ sidecarClock' = sidecarClock /\ registry' = Sidecar!Pruned(registry)
  BY <1>5, EarlyIs DEF Sidecar!MonitorTimer
<1>8. LoopHolds(loop', sidecarFile, lost, early', reported, sidecarClock)
  BY <1>1, <1>2, <1>4, <1>6, <1>7, ObservingHolds
<1>9. RegistryTyped(registry')
  BY <1>1, <1>7, PrunedTyped
<1> QED
  BY <1>7, <1>8, <1>9 DEF SidecarInv, RegistryTyped

LEMMA DiscoveryAnswersKeeps == SidecarInv /\ Sidecar!DiscoveryAnswers => SidecarInv'
<1> SUFFICES ASSUME SidecarInv, Sidecar!DiscoveryAnswers PROVE SidecarInv'
  OBVIOUS
<1>1. /\ LoopHolds(loop, sidecarFile, lost, early, reported, sidecarClock)
      /\ RegistryTyped(registry) /\ "discovery" \in Sidecar!Worker
      /\ loop \in SidecarRecord /\ sidecarClock \in Nat
      /\ InTimeOrder(loop, sidecarFile, early, sidecarClock)
  BY DEF SidecarInv, LoopHolds, Sidecar!Worker
<1>2. PICK ended : ended = Sidecar!Ended(loop, "discovery")
  OBVIOUS
<1>3. loop.task["discovery"].at # "writing"
  BY DEF Sidecar!DiscoveryAnswers, Sidecar!At
<1>4. LoopHolds(ended, sidecarFile, lost, early, reported, sidecarClock)
  BY <1>1, <1>2, <1>3, EndedIs, NothingWritten
<1>5. PICK answer \in SidecarAnswers : Sidecar!Ingest(loop, Sidecar!Accepting(answer))
  BY DEF Sidecar!DiscoveryAnswers
<1>6. PICK todo : todo = Sidecar!Accepting(answer)
  OBVIOUS
<1>7. /\ todo \in Seq(SidecarCandidate)
      /\ \A i \in DOMAIN todo : todo[i].updatedAt = sidecarClock
  BY <1>1, <1>5, <1>6, AcceptingTyped
<1>8. YetToIngest(todo, <<>>, sidecarFile, early, sidecarClock)
  <2>1. NotBefore(sidecarClock, sidecarFile, early, "candidate")
    BY <1>1 DEF InTimeOrder, NotAfter, NotBefore
  <2>2. NotBefore(sidecarClock, <<>>, early, "candidate")
    BY DEF NotBefore
  <2> QED
    BY <1>1, <1>7, <2>1, <2>2 DEF YetToIngest
<1>9. /\ Sidecar!Ingest(loop, todo) /\ EarlyWith(loop, loop', early, early')
      /\ sidecarFile' = sidecarFile /\ lost' = lost /\ reported' = reported
      /\ sidecarClock' = sidecarClock
  BY <1>5, <1>6, EarlyIs DEF Sidecar!DiscoveryAnswers
<1>10. /\ LoopHolds(loop', sidecarFile, lost, early', reported, sidecarClock)
       /\ RegistryTyped(registry')
  BY <1>1, <1>2, <1>4, <1>7, <1>8, <1>9, IngestHolds
<1> QED
  BY <1>9, <1>10 DEF SidecarInv, RegistryTyped

LEMMA DiscoveryFailsKeeps == SidecarInv /\ Sidecar!DiscoveryFails => SidecarInv'
<1> SUFFICES ASSUME SidecarInv, Sidecar!DiscoveryFails PROVE SidecarInv'
  OBVIOUS
<1>1. /\ LoopHolds(loop, sidecarFile, lost, early, reported, sidecarClock)
      /\ RegistryTyped(registry) /\ "discovery" \in Sidecar!Worker
      /\ loop \in SidecarRecord
  BY DEF SidecarInv, LoopHolds, Sidecar!Worker
<1>2. PICK ended : ended = Sidecar!Ended(loop, "discovery")
  OBVIOUS
<1>3. loop.task["discovery"].at # "writing"
  BY DEF Sidecar!DiscoveryFails, Sidecar!At
<1>4. LoopHolds(ended, sidecarFile, lost, early, reported, sidecarClock)
  BY <1>1, <1>2, <1>3, EndedIs, NothingWritten
<1>5. /\ Sidecar!Abort("discovery", loop) /\ EarlyWith(loop, loop', early, early')
      /\ sidecarFile' = sidecarFile /\ lost' = lost /\ reported' = reported
      /\ sidecarClock' = sidecarClock
  BY EarlyIs DEF Sidecar!DiscoveryFails
<1>6. /\ LoopHolds(loop', sidecarFile, lost, early', reported, sidecarClock)
      /\ RegistryTyped(registry')
  BY <1>1, <1>2, <1>4, <1>5, AbortHolds
<1> QED
  BY <1>5, <1>6 DEF SidecarInv, RegistryTyped

LEMMA DirectoryMadeKeeps ==
  ASSUME NEW w \in Sidecar!Worker, SidecarInv, Sidecar!DirectoryMade(w)
  PROVE  SidecarInv'
<1>1. /\ LoopHolds(loop, sidecarFile, lost, early, reported, sidecarClock)
      /\ RegistryTyped(registry) /\ loop \in SidecarRecord
  BY DEF SidecarInv, LoopHolds
<1>2. loop.task[w].at = "directory"
  BY DEF Sidecar!DirectoryMade, Sidecar!At
<1>3. IsMade(loop', loop, w)
  BY <1>1, MadeIs DEF Sidecar!DirectoryMade
<1>4. LoopHolds(loop', sidecarFile, lost, early, reported, sidecarClock)
  BY <1>1, <1>2, <1>3, MadeHolds
<1> QED
  BY <1>1, <1>4 DEF Sidecar!DirectoryMade, SidecarInv, RegistryTyped

LEMMA LinesWrittenKeeps ==
  ASSUME NEW w \in Sidecar!Worker, SidecarInv, Sidecar!LinesWritten(w)
  PROVE  SidecarInv'
<1>1. /\ LoopHolds(loop, sidecarFile, lost, early, reported, sidecarClock)
      /\ RegistryTyped(registry)
  BY DEF SidecarInv
<1>2. /\ loop.task[w].at = "writing" /\ Sidecar!Continue(w, loop)
      /\ EarlyWith(loop, loop', early, early')
      /\ sidecarFile' = sidecarFile \o loop.task[w].lines
      /\ reported' = reported \cup {loop.task[w].current}
      /\ lost' = lost /\ sidecarClock' = sidecarClock
  BY EarlyIs DEF Sidecar!LinesWritten, Sidecar!At
<1>3. /\ LoopHolds(loop', sidecarFile \o loop.task[w].lines, lost, early',
                   reported \cup {loop.task[w].current}, sidecarClock)
      /\ RegistryTyped(registry')
  BY <1>1, <1>2, ContinueHolds
<1> QED
  BY <1>2, <1>3 DEF SidecarInv, RegistryTyped

LEMMA AppendFailsKeeps ==
  ASSUME NEW w \in Sidecar!Worker, SidecarInv, Sidecar!AppendFails(w)
  PROVE  SidecarInv'
<1>1. /\ LoopHolds(loop, sidecarFile, lost, early, reported, sidecarClock)
      /\ RegistryTyped(registry) /\ loop \in SidecarRecord
  BY DEF SidecarInv, LoopHolds
<1>2. /\ Sidecar!Abort(w, loop) /\ EarlyWith(loop, loop', early, early')
      /\ sidecarFile' = sidecarFile /\ reported' = reported
      /\ lost' = lost \cup Sidecar!Ids(loop.task[w].lines) /\ sidecarClock' = sidecarClock
  BY EarlyIs DEF Sidecar!AppendFails
<1>3. LoopHolds(Sidecar!Ended(loop, w), sidecarFile, lost', early, reported, sidecarClock)
  BY <1>1, <1>2, EndedIs, LoseHolds
<1>4. /\ LoopHolds(loop', sidecarFile, lost', early', reported, sidecarClock)
      /\ RegistryTyped(registry')
  BY <1>1, <1>2, <1>3, AbortHolds
<1> QED
  BY <1>2, <1>4 DEF SidecarInv, RegistryTyped

LEMMA SidecarKept == SidecarInv /\ [Sidecar!Next]_(Sidecar!vars) => SidecarInv'
<1> SUFFICES ASSUME SidecarInv, [Sidecar!Next]_(Sidecar!vars) PROVE SidecarInv'
  OBVIOUS
<1>1. CASE Sidecar!DiscoveryTimer
  BY <1>1, DiscoveryTimerKeeps
<1>2. CASE Sidecar!MonitorTimer
  BY <1>2, MonitorTimerKeeps
<1>3. CASE Sidecar!DiscoveryAnswers
  BY <1>3, DiscoveryAnswersKeeps
<1>4. CASE Sidecar!DiscoveryFails
  BY <1>4, DiscoveryFailsKeeps
<1>5. CASE \E w \in Sidecar!Worker :
             Sidecar!DirectoryMade(w) \/ Sidecar!LinesWritten(w) \/ Sidecar!AppendFails(w)
  BY <1>5, DirectoryMadeKeeps, LinesWrittenKeeps, AppendFailsKeeps
<1>6. CASE Sidecar!Stop \/ UNCHANGED Sidecar!vars
  BY <1>6 DEF Sidecar!Stop, Sidecar!vars, SidecarInv, RegistryTyped
<1>7. CASE Sidecar!Restart
  BY <1>7, RestartKeeps
<1>8. CASE Sidecar!Tick
  <2>1. LoopHolds(loop, sidecarFile, lost, early, reported, sidecarClock + 1)
    BY TimePasses DEF SidecarInv
  <2> QED
    BY <1>8, <2>1 DEF Sidecar!Tick, SidecarInv, RegistryTyped
<1> QED
  BY <1>1, <1>2, <1>3, <1>4, <1>5, <1>6, <1>7, <1>8, Zenon DEF Sidecar!Next

-----------------------------------------------------------------------------
(* An id that is in a sequence of places is in one of them. *)
LEMMA OnePlaceOf ==
  ASSUME NEW places \in Seq(SidecarEntry), Apart(places), NEW id
  PROVE  Sidecar!Cardinality({i \in DOMAIN places : places[i].id = id})
           = IF id \in Sidecar!Ids(places) THEN 1 ELSE 0
<1>1. PICK at : at = {i \in DOMAIN places : places[i].id = id}
  OBVIOUS
<1>2. Sidecar!Cardinality(at) = Cardinality(at)
  BY Zenon DEF Sidecar!Cardinality, Cardinality
<1>3. CASE id \in Sidecar!Ids(places)
  <2>1. PICK i \in DOMAIN places : places[i].id = id
    BY <1>3, IdsAre
  <2>2. at = {i}
    BY <1>1, <2>1 DEF Apart
  <2> QED
    BY <1>1, <1>2, <1>3, <2>2, FS_Singleton
<1>4. CASE id \notin Sidecar!Ids(places)
  <2>1. at = {}
    BY <1>1, <1>4, IdsAre
  <2> QED
    BY <1>1, <1>2, <1>4, <2>1, FS_EmptySet
<1> QED
  BY <1>3, <1>4

LEMMA SidecarTold == SidecarInv => SidecarJournalTrue
<1> SUFFICES ASSUME SidecarInv PROVE SidecarJournalTrue
  OBVIOUS
<1>1. /\ loop \in SidecarRecord /\ sidecarFile \in Seq(SidecarEntry)
      /\ InOnePlace(loop, sidecarFile, lost)
      /\ WillBeOnFile(loop, sidecarFile, early, reported)
      /\ InTimeOrder(loop, sidecarFile, early, sidecarClock)
  BY DEF SidecarInv, LoopHolds
<1>2. PICK d : d = loop.task["discovery"].lines
  OBVIOUS
<1>3. PICK m : m = loop.task["monitor"].lines
  OBVIOUS
<1>4. PICK b : b = loop.buffer
  OBVIOUS
<1>5. PICK f : f = sidecarFile
  OBVIOUS
<1>6. /\ b \in Seq(SidecarEntry) /\ f \in Seq(SidecarEntry) /\ d \in Seq(SidecarEntry)
      /\ m \in Seq(SidecarEntry) /\ loop.entries \in Nat
  BY <1>1, <1>2, <1>3, <1>4, <1>5 DEF SidecarRecord, SidecarTask, Sidecar!Worker
<1>7. Apart(b) /\ Apart(f) /\ Apart(d) /\ Apart(m)
  BY <1>1, <1>2, <1>3, <1>4, <1>5 DEF InOnePlace, Sidecar!Worker
<1>8. \A id \in Nat :
        /\ id \in 1..loop.entries <=>
             \/ id \in Sidecar!Ids(b) \/ id \in Sidecar!Ids(f) \/ id \in lost
             \/ id \in Sidecar!Ids(d) \/ id \in Sidecar!Ids(m)
        /\ id \in Sidecar!Ids(b) => id \notin Sidecar!Ids(f) /\ id \notin lost
        /\ id \in Sidecar!Ids(f) => id \notin lost
        /\ id \in Sidecar!Ids(d) => /\ id \notin Sidecar!Ids(b) /\ id \notin Sidecar!Ids(f)
                                    /\ id \notin lost /\ id \notin Sidecar!Ids(m)
        /\ id \in Sidecar!Ids(m) => /\ id \notin Sidecar!Ids(b) /\ id \notin Sidecar!Ids(f)
                                    /\ id \notin lost
  BY <1>1, <1>2, <1>3, <1>4, <1>5 DEF InOnePlace, Placed, Sidecar!Worker
<1>9. /\ b \o f \in Seq(SidecarEntry) /\ Apart(b \o f)
      /\ Sidecar!Ids(b \o f) = Sidecar!Ids(b) \cup Sidecar!Ids(f)
  BY <1>6, <1>7, <1>8, IdsJoined, ApartJoined
<1>10. /\ b \o f \o d \in Seq(SidecarEntry) /\ Apart(b \o f \o d)
       /\ Sidecar!Ids(b \o f \o d) = Sidecar!Ids(b) \cup Sidecar!Ids(f) \cup Sidecar!Ids(d)
  <2>1. PICK bf : bf = b \o f
    OBVIOUS
  <2>2. \A id \in Nat : id \in Sidecar!Ids(bf) => id \notin Sidecar!Ids(d)
    BY <1>8, <1>9, <2>1
  <2> QED
    BY <1>6, <1>7, <1>9, <2>1, <2>2, IdsJoined, ApartJoined
<1>11. /\ b \o f \o d \o m \in Seq(SidecarEntry) /\ Apart(b \o f \o d \o m)
       /\ Sidecar!Ids(b \o f \o d \o m)
            = Sidecar!Ids(b) \cup Sidecar!Ids(f) \cup Sidecar!Ids(d) \cup Sidecar!Ids(m)
  <2>1. PICK bfd : bfd = b \o f \o d
    OBVIOUS
  <2>2. \A id \in Nat : id \in Sidecar!Ids(bfd) => id \notin Sidecar!Ids(m)
    BY <1>8, <1>10, <2>1
  <2> QED
    BY <1>6, <1>7, <1>10, <2>1, <2>2, IdsJoined, ApartJoined
<1>12. Sidecar!EachOnce
  <2>1. PICK places : places = b \o f \o d \o m
    OBVIOUS
  <2>2. ASSUME NEW id \in 1..loop.entries
        PROVE  Sidecar!Cardinality({i \in DOMAIN places : places[i].id = id})
                 + (IF id \in lost THEN 1 ELSE 0) = 1
    <3>1. id \in Sidecar!Ids(places) <=> id \notin lost
      BY <1>6, <1>8, <1>11, <2>1
    <3>2. Sidecar!Cardinality({i \in DOMAIN places : places[i].id = id})
            = IF id \in Sidecar!Ids(places) THEN 1 ELSE 0
      <4>1. places \in Seq(SidecarEntry) /\ Apart(places)
        BY <1>11, <2>1
      <4> QED
        BY <4>1, OnePlaceOf, Zenon
    <3> QED
      BY <3>1, <3>2
  <2> QED
    BY <1>2, <1>3, <1>4, <1>5, <2>1, <2>2 DEF Sidecar!EachOnce
<1>13. reported \subseteq Sidecar!Ids(sidecarFile) \cup early
  BY <1>1 DEF WillBeOnFile
<1>14. \A i, j \in DOMAIN sidecarFile :
         i < j /\ sidecarFile[i].kind = sidecarFile[j].kind
           /\ {sidecarFile[i].id, sidecarFile[j].id} \cap early = {}
         => sidecarFile[i].time <= sidecarFile[j].time
  BY <1>1 DEF InTimeOrder, Ordered
<1>15. \A i \in DOMAIN sidecarFile :
         sidecarFile[i].active /\ sidecarFile[i].state # "invalidated"
  <2>1. \A i \in DOMAIN sidecarFile : sidecarFile[i] \in SidecarEntry
    BY <1>1
  <2> QED
    BY <2>1 DEF SidecarEntry
<1> QED
  BY <1>12, <1>13, <1>14, <1>15 DEF SidecarJournalTrue, Sidecar!SidecarJournalTrue

(* The sidecar's journal is true to its ticks: every entry is written once  *)
(* or lost, what an append reported is on file if the directory was there,  *)
(* the entries of a kind are in the order of their times, and what was      *)
(* observed was active and accepted, for any tokens, any answers, any time  *)
(* that passes between two awaits, and any failures and restarts.           *)
THEOREM SidecarTrue == Sidecar!Spec => []SidecarJournalTrue
<1>1. SidecarInv => SidecarJournalTrue
  BY SidecarTold
<1> QED
  BY <1>1, SidecarStarts, SidecarKept, PTL DEF Sidecar!Spec
=============================================================================
