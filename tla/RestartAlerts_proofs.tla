------------------------- MODULE RestartAlerts_proofs -------------------------
(***************************************************************************)
(* The cooldown of a destination spaces its notifications, and an          *)
(* acknowledgement stands against everything but a stale call.             *)
(***************************************************************************)
EXTENDS RestartAlerts, TLAPS

Statuses == {"none", "open", "acknowledged", "resolved"}

(* An alert has its fields, whatever its signature says, and an id when it  *)
(* has been opened.                                                         *)
IsAlert(a) ==
  /\ a = [id |-> a.id, status |-> a.status, severity |-> a.severity,
          signature |-> a.signature, seen |-> a.seen]
  /\ a.status \in Statuses
  /\ a.status # "none" => a.id \in AlertId

(* A table of alerts, the stored one or a call's copy *)
IsTable(table) ==
  /\ table = [key \in DedupeKey |-> table[key]]
  /\ \A key \in DedupeKey : IsAlert(table[key])

(* The attempts for an alert: what was last sent was an attempt, and no     *)
(* later than the last one.                                                 *)
Attempt == [at : Int, sent : BOOLEAN, last : Int]
IsHistory(history) ==
  /\ history \in [Destination -> Attempt]
  /\ \A d \in Destination : history[d].last <= history[d].at

(* At most the request's evaluation and the repeated failures' *)
Few(evaluations) ==
  /\ \E a, b : evaluations \subseteq {a, b}
  /\ \A e \in evaluations : e.key \in DedupeKey

(* What a call has read and has still to do *)
IsLocal(l) ==
  l = [pc |-> l.pc, snapshot |-> l.snapshot, act |-> l.act, evaluations |-> l.evaluations,
       listed |-> l.listed, clear |-> l.clear, notice |-> l.notice, read |-> l.read,
       then |-> l.then]

Shape(l) ==
  /\ IsLocal(l)
  /\ l.snapshot.key \in DedupeKey
  /\ l.act \in Acts
  /\ Few(l.evaluations)
  /\ IsTable(l.listed)
  /\ IsHistory(l.read)

(* The alerts to be resolved were listed, and are not evaluated. *)
Ready(l) ==
  /\ \A key \in l.clear : key \in DedupeKey /\ l.listed[key].id \in AlertId
  /\ \A e \in l.evaluations : e.key \notin l.clear

(* What the place of the call says of it *)
Placed(l) ==
  /\ l.pc \notin {"list", "again"} => Ready(l)
  /\ l.pc \in {"load", "act"} => l.act # NoAct /\ l.clear = {}
  /\ l.pc = "act" => l.listed[l.act.key].id \in AlertId
  /\ l.pc = "deliver" => l.notice.alert.id \in AlertId

World ==
  /\ clock \in Nat
  /\ requests \in Seq(Request) /\ Len(requests) <= MaxRequests

Stored == IsTable(alerts)

Histories ==
  /\ attempts = [id \in AlertId |-> attempts[id]]
  /\ \A id \in AlertId : IsHistory(attempts[id])

Calls ==
  /\ call = [c \in Call |-> call[c]]
  /\ \A c \in Call : Shape(call[c]) /\ Placed(call[c])

(* Nothing was attempted in the future. *)
Past ==
  /\ \A id \in AlertId, d \in Destination : attempts[id][d].at <= clock
  /\ \A c \in Call, d \in Destination : call[c].read[d].at <= clock

AlertsInv == World /\ Stored /\ Histories /\ Calls /\ Past
-----------------------------------------------------------------------------
(* The calls' copies *)

(* The steps' updates of a call, field by field *)
LEMMA BegunFields ==
  ASSUME NEW l, IsLocal(l), NEW x, NEW y
  PROVE  [l EXCEPT !.snapshot = x, !.act = y] =
           [pc |-> l.pc, snapshot |-> x, act |-> y, evaluations |-> l.evaluations,
            listed |-> l.listed, clear |-> l.clear, notice |-> l.notice, read |-> l.read,
            then |-> l.then]
<1> DEFINE pc == l.pc
           snapshot == l.snapshot
           act == l.act
           evaluations == l.evaluations
           listed == l.listed
           clear == l.clear
           notice == l.notice
           read == l.read
           then == l.then
<1>1. l = [pc |-> pc, snapshot |-> snapshot, act |-> act, evaluations |-> evaluations,
           listed |-> listed, clear |-> clear, notice |-> notice, read |-> read,
           then |-> then]
  BY DEF IsLocal
<1> HIDE DEF pc, snapshot, act, evaluations, listed, clear, notice, read, then
<1>2. PICK r : r = [l EXCEPT !.snapshot = x, !.act = y]
  OBVIOUS
<1>3. r = [pc |-> pc, snapshot |-> x, act |-> y, evaluations |-> evaluations,
           listed |-> listed, clear |-> clear, notice |-> notice, read |-> read,
           then |-> then]
  BY <1>1, <1>2
<1> QED
  BY <1>2, <1>3 DEF pc, snapshot, act, evaluations, listed, clear, notice, read, then

LEMMA ListedFields ==
  ASSUME NEW l, IsLocal(l), NEW x, NEW y
  PROVE  [l EXCEPT !.clear = x, !.listed = y] =
           [pc |-> l.pc, snapshot |-> l.snapshot, act |-> l.act,
            evaluations |-> l.evaluations, listed |-> y, clear |-> x, notice |-> l.notice,
            read |-> l.read, then |-> l.then]
<1> DEFINE pc == l.pc
           snapshot == l.snapshot
           act == l.act
           evaluations == l.evaluations
           listed == l.listed
           clear == l.clear
           notice == l.notice
           read == l.read
           then == l.then
<1>1. l = [pc |-> pc, snapshot |-> snapshot, act |-> act, evaluations |-> evaluations,
           listed |-> listed, clear |-> clear, notice |-> notice, read |-> read,
           then |-> then]
  BY DEF IsLocal
<1> HIDE DEF pc, snapshot, act, evaluations, listed, clear, notice, read, then
<1>2. PICK r : r = [l EXCEPT !.clear = x, !.listed = y]
  OBVIOUS
<1>3. r = [pc |-> pc, snapshot |-> snapshot, act |-> act, evaluations |-> evaluations,
           listed |-> y, clear |-> x, notice |-> notice, read |-> read, then |-> then]
  BY <1>1, <1>2
<1> QED
  BY <1>2, <1>3 DEF pc, snapshot, act, evaluations, listed, clear, notice, read, then

LEMMA LoadedFields ==
  ASSUME NEW l, IsLocal(l), NEW x, NEW y
  PROVE  [l EXCEPT !.pc = "act", !.listed[x] = y] =
           [pc |-> "act", snapshot |-> l.snapshot, act |-> l.act,
            evaluations |-> l.evaluations, listed |-> [l.listed EXCEPT ![x] = y],
            clear |-> l.clear, notice |-> l.notice, read |-> l.read, then |-> l.then]
<1> DEFINE pc == l.pc
           snapshot == l.snapshot
           act == l.act
           evaluations == l.evaluations
           listed == l.listed
           clear == l.clear
           notice == l.notice
           read == l.read
           then == l.then
<1>1. l = [pc |-> pc, snapshot |-> snapshot, act |-> act, evaluations |-> evaluations,
           listed |-> listed, clear |-> clear, notice |-> notice, read |-> read,
           then |-> then]
  BY DEF IsLocal
<1> HIDE DEF pc, snapshot, act, evaluations, listed, clear, notice, read, then
<1>2. PICK r : r = [l EXCEPT !.pc = "act", !.listed[x] = y]
  OBVIOUS
<1>3. r = [pc |-> "act", snapshot |-> snapshot, act |-> act, evaluations |-> evaluations,
           listed |-> [listed EXCEPT ![x] = y], clear |-> clear, notice |-> notice,
           read |-> read, then |-> then]
  BY <1>1, <1>2
<1> QED
  BY <1>2, <1>3 DEF pc, snapshot, act, evaluations, listed, clear, notice, read, then

LEMMA PersistedFields ==
  ASSUME NEW l, IsLocal(l), NEW x, NEW y
  PROVE  [l EXCEPT !.evaluations = x, !.listed[y] = NoAlert] =
           [pc |-> l.pc, snapshot |-> l.snapshot, act |-> l.act, evaluations |-> x,
            listed |-> [l.listed EXCEPT ![y] = NoAlert], clear |-> l.clear,
            notice |-> l.notice, read |-> l.read, then |-> l.then]
<1> DEFINE pc == l.pc
           snapshot == l.snapshot
           act == l.act
           evaluations == l.evaluations
           listed == l.listed
           clear == l.clear
           notice == l.notice
           read == l.read
           then == l.then
<1>1. l = [pc |-> pc, snapshot |-> snapshot, act |-> act, evaluations |-> evaluations,
           listed |-> listed, clear |-> clear, notice |-> notice, read |-> read,
           then |-> then]
  BY DEF IsLocal
<1> HIDE DEF pc, snapshot, act, evaluations, listed, clear, notice, read, then
<1>2. PICK r : r = [l EXCEPT !.evaluations = x, !.listed[y] = NoAlert]
  OBVIOUS
<1>3. r = [pc |-> pc, snapshot |-> snapshot, act |-> act, evaluations |-> x,
           listed |-> [listed EXCEPT ![y] = NoAlert], clear |-> clear, notice |-> notice,
           read |-> read, then |-> then]
  BY <1>1, <1>2
<1> QED
  BY <1>2, <1>3 DEF pc, snapshot, act, evaluations, listed, clear, notice, read, then

LEMMA ClearedFields ==
  ASSUME NEW l, IsLocal(l), NEW x, NEW y
  PROVE  [l EXCEPT !.clear = x, !.listed[y] = NoAlert] =
           [pc |-> l.pc, snapshot |-> l.snapshot, act |-> l.act,
            evaluations |-> l.evaluations, listed |-> [l.listed EXCEPT ![y] = NoAlert],
            clear |-> x, notice |-> l.notice, read |-> l.read, then |-> l.then]
<1> DEFINE pc == l.pc
           snapshot == l.snapshot
           act == l.act
           evaluations == l.evaluations
           listed == l.listed
           clear == l.clear
           notice == l.notice
           read == l.read
           then == l.then
<1>1. l = [pc |-> pc, snapshot |-> snapshot, act |-> act, evaluations |-> evaluations,
           listed |-> listed, clear |-> clear, notice |-> notice, read |-> read,
           then |-> then]
  BY DEF IsLocal
<1> HIDE DEF pc, snapshot, act, evaluations, listed, clear, notice, read, then
<1>2. PICK r : r = [l EXCEPT !.clear = x, !.listed[y] = NoAlert]
  OBVIOUS
<1>3. r = [pc |-> pc, snapshot |-> snapshot, act |-> act, evaluations |-> evaluations,
           listed |-> [listed EXCEPT ![y] = NoAlert], clear |-> x, notice |-> notice,
           read |-> read, then |-> then]
  BY <1>1, <1>2
<1> QED
  BY <1>2, <1>3 DEF pc, snapshot, act, evaluations, listed, clear, notice, read, then

LEMMA ActedFields ==
  ASSUME NEW l, IsLocal(l), NEW x, NEW y
  PROVE  [l EXCEPT !.act = x, !.listed[y] = NoAlert] =
           [pc |-> l.pc, snapshot |-> l.snapshot, act |-> x, evaluations |-> l.evaluations,
            listed |-> [l.listed EXCEPT ![y] = NoAlert], clear |-> l.clear,
            notice |-> l.notice, read |-> l.read, then |-> l.then]
<1> DEFINE pc == l.pc
           snapshot == l.snapshot
           act == l.act
           evaluations == l.evaluations
           listed == l.listed
           clear == l.clear
           notice == l.notice
           read == l.read
           then == l.then
<1>1. l = [pc |-> pc, snapshot |-> snapshot, act |-> act, evaluations |-> evaluations,
           listed |-> listed, clear |-> clear, notice |-> notice, read |-> read,
           then |-> then]
  BY DEF IsLocal
<1> HIDE DEF pc, snapshot, act, evaluations, listed, clear, notice, read, then
<1>2. PICK r : r = [l EXCEPT !.act = x, !.listed[y] = NoAlert]
  OBVIOUS
<1>3. r = [pc |-> pc, snapshot |-> snapshot, act |-> x, evaluations |-> evaluations,
           listed |-> [listed EXCEPT ![y] = NoAlert], clear |-> clear, notice |-> notice,
           read |-> read, then |-> then]
  BY <1>1, <1>2
<1> QED
  BY <1>2, <1>3 DEF pc, snapshot, act, evaluations, listed, clear, notice, read, then

LEMMA AnnouncedFields ==
  ASSUME NEW l, IsLocal(l), NEW x, NEW y, NEW z
  PROVE  [l EXCEPT !.pc = "deliver", !.then = x, !.read = y, !.notice = z] =
           [pc |-> "deliver", snapshot |-> l.snapshot, act |-> l.act,
            evaluations |-> l.evaluations, listed |-> l.listed, clear |-> l.clear,
            notice |-> z, read |-> y, then |-> x]
<1> DEFINE pc == l.pc
           snapshot == l.snapshot
           act == l.act
           evaluations == l.evaluations
           listed == l.listed
           clear == l.clear
           notice == l.notice
           read == l.read
           then == l.then
<1>1. l = [pc |-> pc, snapshot |-> snapshot, act |-> act, evaluations |-> evaluations,
           listed |-> listed, clear |-> clear, notice |-> notice, read |-> read,
           then |-> then]
  BY DEF IsLocal
<1> HIDE DEF pc, snapshot, act, evaluations, listed, clear, notice, read, then
<1>2. PICK r : r = [l EXCEPT !.pc = "deliver", !.then = x, !.read = y, !.notice = z]
  OBVIOUS
<1>3. r = [pc |-> "deliver", snapshot |-> snapshot, act |-> act, evaluations |-> evaluations,
           listed |-> listed, clear |-> clear, notice |-> z, read |-> y, then |-> x]
  BY <1>1, <1>2
<1> QED
  BY <1>2, <1>3 DEF pc, snapshot, act, evaluations, listed, clear, notice, read, then

LEMMA DeliveredFields ==
  ASSUME NEW l, IsLocal(l)
  PROVE  [l EXCEPT !.then = "settle", !.notice = NoNotice, !.read = Idle.read] =
           [pc |-> l.pc, snapshot |-> l.snapshot, act |-> l.act,
            evaluations |-> l.evaluations, listed |-> l.listed, clear |-> l.clear,
            notice |-> NoNotice, read |-> Idle.read, then |-> "settle"]
<1> DEFINE pc == l.pc
           snapshot == l.snapshot
           act == l.act
           evaluations == l.evaluations
           listed == l.listed
           clear == l.clear
           notice == l.notice
           read == l.read
           then == l.then
<1>1. l = [pc |-> pc, snapshot |-> snapshot, act |-> act, evaluations |-> evaluations,
           listed |-> listed, clear |-> clear, notice |-> notice, read |-> read,
           then |-> then]
  BY DEF IsLocal
<1> HIDE DEF pc, snapshot, act, evaluations, listed, clear, notice, read, then
<1>2. PICK r : r = [l EXCEPT !.then = "settle", !.notice = NoNotice, !.read = Idle.read]
  OBVIOUS
<1>3. r = [pc |-> pc, snapshot |-> snapshot, act |-> act, evaluations |-> evaluations,
           listed |-> listed, clear |-> clear, notice |-> NoNotice, read |-> Idle.read,
           then |-> "settle"]
  BY <1>1, <1>2
<1> QED
  BY <1>2, <1>3 DEF pc, snapshot, act, evaluations, listed, clear, notice, read, then

LEMMA AgainFields ==
  ASSUME NEW l, IsLocal(l)
  PROVE  [l EXCEPT !.pc = "again"] =
           [pc |-> "again", snapshot |-> l.snapshot, act |-> l.act,
            evaluations |-> l.evaluations, listed |-> l.listed, clear |-> l.clear,
            notice |-> l.notice, read |-> l.read, then |-> l.then]
<1> DEFINE pc == l.pc
           snapshot == l.snapshot
           act == l.act
           evaluations == l.evaluations
           listed == l.listed
           clear == l.clear
           notice == l.notice
           read == l.read
           then == l.then
<1>1. l = [pc |-> pc, snapshot |-> snapshot, act |-> act, evaluations |-> evaluations,
           listed |-> listed, clear |-> clear, notice |-> notice, read |-> read,
           then |-> then]
  BY DEF IsLocal
<1> HIDE DEF pc, snapshot, act, evaluations, listed, clear, notice, read, then
<1>2. PICK r : r = [l EXCEPT !.pc = "again"]
  OBVIOUS
<1>3. r = [pc |-> "again", snapshot |-> snapshot, act |-> act, evaluations |-> evaluations,
           listed |-> listed, clear |-> clear, notice |-> notice, read |-> read,
           then |-> then]
  BY <1>1, <1>2
<1> QED
  BY <1>2, <1>3 DEF pc, snapshot, act, evaluations, listed, clear, notice, read, then

LEMMA NoAlertIs == IsAlert(NoAlert)
BY DEF IsAlert, NoAlert, Statuses

LEMMA NoHistoryIs ==
  /\ IsHistory([d \in Destination |-> NoAttempt])
  /\ \A d \in Destination : [e \in Destination |-> NoAttempt][d].at <= 0
BY ModelAssumption DEF IsHistory, NoAttempt, Never, Attempt

LEMMA NoSnapshotIs == NoSnapshot.key \in DedupeKey
BY ModelAssumption DEF NoSnapshot, DedupeKey

LEMMA IdleFits == Shape(Idle) /\ Placed(Idle)
<1>1. IsTable([key \in DedupeKey |-> NoAlert])
  BY NoAlertIs DEF IsTable
<1>2. Few({})
  BY DEF Few
<1>3. NoAct \in Acts
  BY DEF Acts
<1>4. Shape(Idle)
  BY <1>1, <1>2, <1>3, NoHistoryIs, NoSnapshotIs DEF Shape, IsLocal, Idle
<1>5. Placed(Idle)
  BY DEF Placed, Ready, Idle
<1> QED
  BY <1>4, <1>5

(* The later of a few evaluations is one of them. *)
LEMMA FirstIsOne ==
  ASSUME NEW S, Few(S), S # {}
  PROVE  \E e \in S : \A f \in S : f.key <= e.key
<1>1. PICK a, b : S \subseteq {a, b}
  BY DEF Few
<1>2. \A e \in S : e.key \in Int
  BY ModelAssumption DEF Few, DedupeKey
<1>3. CASE a \in S /\ b \in S
  <2>1. a.key \in Int /\ b.key \in Int
    BY <1>2, <1>3
  <2>2. CASE a.key <= b.key
    BY <2>1, <2>2, <1>1, <1>3
  <2>3. CASE b.key <= a.key
    BY <2>1, <2>3, <1>1, <1>3
  <2> QED
    BY <2>1, <2>2, <2>3
<1>4. CASE ~(a \in S /\ b \in S)
  <2>1. PICK e \in S : S = {e}
    BY <1>1, <1>4
  <2> QED
    BY <2>1, <1>2
<1> QED
  BY <1>3, <1>4

LEMMA FewLess ==
  ASSUME NEW S, Few(S), NEW e
  PROVE  Few(S \ {e})
BY DEF Few

(* Where a sync goes on is a place the call may be at. *)
LEMMA SettlingFits ==
  ASSUME NEW l, Shape(l), Ready(l)
  PROVE  /\ Shape(Settling(l)) /\ Placed(Settling(l))
         /\ Settling(l).read \in {l.read, Idle.read}
<1>1. CASE l.evaluations # {} \/ l.clear # {}
  <2>1. Settling(l) = [l EXCEPT !.pc = "settle"]
    BY <1>1 DEF Settling
  <2>2. Settling(l) =
          [pc |-> "settle", snapshot |-> l.snapshot, act |-> l.act, evaluations |-> l.evaluations,
           listed |-> l.listed, clear |-> l.clear, notice |-> l.notice, read |-> l.read,
           then |-> l.then]
    BY <2>1 DEF Shape, IsLocal
  <2>3. Shape(Settling(l))
    BY <2>2 DEF Shape, IsLocal
  <2>4. Placed(Settling(l))
    BY <2>2 DEF Placed, Ready
  <2> QED
    BY <2>2, <2>3, <2>4
<1>2. CASE ~(l.evaluations # {} \/ l.clear # {}) /\ l.act # NoAct
  <2>1. Settling(l) = [l EXCEPT !.pc = "load"]
    BY <1>2 DEF Settling
  <2>2. Settling(l) =
          [pc |-> "load", snapshot |-> l.snapshot, act |-> l.act, evaluations |-> l.evaluations,
           listed |-> l.listed, clear |-> l.clear, notice |-> l.notice, read |-> l.read,
           then |-> l.then]
    BY <2>1 DEF Shape, IsLocal
  <2>3. Shape(Settling(l))
    BY <2>2 DEF Shape, IsLocal
  <2>4. Placed(Settling(l))
    BY <2>2, <1>2 DEF Placed, Ready
  <2> QED
    BY <2>2, <2>3, <2>4
<1>3. CASE ~(l.evaluations # {} \/ l.clear # {}) /\ l.act = NoAct
  <2>1. Settling(l) = Idle
    BY <1>3 DEF Settling
  <2> QED
    BY <2>1, IdleFits
<1> QED
  BY <1>1, <1>2, <1>3

(* The evaluations of a snapshot are few. *)
LEMMA EvaluationsFew ==
  ASSUME World, NEW snapshot, snapshot.key \in DedupeKey
  PROVE  Few(Evaluations(snapshot))
<1> DEFINE key == IF snapshot.key # 0 THEN snapshot.key ELSE Len(requests)
           r == IF snapshot.key # 0 THEN snapshot.request ELSE requests[key]
           category == IF key = 0 THEN "none" ELSE RequestCategory(r, snapshot.worker)
           signature == Signature(category, r.status, snapshot.worker, {})
           own == IF category = "none" THEN {} ELSE {Evaluation(key, signature)}
<1>1. Len(requests) \in DedupeKey /\ RepeatKey \in DedupeKey
  BY ModelAssumption DEF World, DedupeKey, RepeatKey
<1>2. key \in DedupeKey
  BY <1>1
<1>3. Evaluations(snapshot) = RepeatedEvaluation \cup own
  BY DEF Evaluations
<1>4. Evaluation(key, signature).key = key
  BY DEF Evaluation
<1>5. PICK a : RepeatedEvaluation \subseteq {a} /\ \A e \in RepeatedEvaluation : e.key = RepeatKey
  <2> DEFINE s == Signature("repeated_restart_failures", requests[Max(RecentFailures)].status,
                            "any", RecentFailures)
  <2>1. RepeatedEvaluation \subseteq {Evaluation(RepeatKey, s)}
    BY DEF RepeatedEvaluation
  <2>2. Evaluation(RepeatKey, s).key = RepeatKey
    BY DEF Evaluation
  <2> HIDE DEF s
  <2> QED
    BY <2>1, <2>2
<1>6. PICK b : own \subseteq {b} /\ \A e \in own : e.key = key
  <2> HIDE DEF key, signature, category
  <2> QED
    BY <1>4
<1> HIDE DEF own, key
<1>7. Evaluations(snapshot) \subseteq {a, b}
  BY <1>3, <1>5, <1>6
<1>8. \A e \in Evaluations(snapshot) : e.key \in DedupeKey
  BY <1>1, <1>2, <1>3, <1>5, <1>6
<1> QED
  BY <1>7, <1>8 DEF Few

LEMMA EvaluatedFits ==
  ASSUME World, NEW l, Shape(l)
  PROVE  /\ Shape(Evaluated(l)) /\ Placed(Evaluated(l))
         /\ Evaluated(l).read = l.read
<1> DEFINE kept == IF l.act = NoAct THEN NoSnapshot ELSE l.snapshot
<1> DEFINE found == Evaluations(l.snapshot)
<1>0. Evaluated(l) = [l EXCEPT !.pc = "list", !.evaluations = found, !.snapshot = kept]
  BY DEF Evaluated
<1>1. Evaluated(l) =
        [pc |-> "list", snapshot |-> kept, act |-> l.act, evaluations |-> found,
         listed |-> l.listed, clear |-> l.clear, notice |-> l.notice, read |-> l.read,
         then |-> l.then]
  <2> HIDE DEF kept, found
  <2> QED
    BY <1>0 DEF Shape, IsLocal
<1>2. kept.key \in DedupeKey
  BY NoSnapshotIs DEF Shape
<1>3. Few(found)
  BY EvaluationsFew DEF Shape
<1> HIDE DEF kept, found
<1>4. Shape(Evaluated(l))
  BY <1>1, <1>2, <1>3 DEF Shape, IsLocal
<1>5. Placed(Evaluated(l))
  BY <1>1 DEF Placed
<1> QED
  BY <1>1, <1>4, <1>5

LEMMA SnapshotKnown ==
  ASSUME World
  PROVE  Snapshot.key \in DedupeKey
BY ModelAssumption, NoSnapshotIs DEF World, Snapshot, DedupeKey
-----------------------------------------------------------------------------
(* The steps of the calls *)

Fits(l) == Shape(l) /\ Placed(l) /\ \A d \in Destination : l.read[d].at <= clock

(* A call moves on to a sound place, and what it writes is sound. *)
LEMMA CallMoves ==
  ASSUME AlertsInv, NEW c \in Call, NEW l, Fits(l), Goto(c, l), UNCHANGED Environment,
         Stored', Histories',
         \A id \in AlertId, d \in Destination : attempts'[id][d].at <= clock
  PROVE  AlertsInv'
<1>1. clock' = clock /\ requests' = requests
  BY DEF Environment
<1>2. World'
  BY <1>1 DEF AlertsInv, World
<1>3. call' = [call EXCEPT ![c] = l] /\ call = [b \in Call |-> call[b]]
  BY DEF Goto, AlertsInv, Calls
<1>4. /\ call' = [b \in Call |-> call'[b]]
      /\ \A b \in Call : call'[b] = IF b = c THEN l ELSE call[b]
  BY <1>3
<1>5. Calls'
  <2>1. ASSUME NEW b \in Call
        PROVE  Shape(call'[b]) /\ Placed(call'[b])
    <3>1. CASE b = c
      <4>1. call'[b] = l
        BY <3>1, <1>4
      <4> QED
        BY <4>1 DEF Fits
    <3>2. CASE b # c
      <4>1. call'[b] = call[b]
        BY <3>2, <1>4
      <4>2. Shape(call[b]) /\ Placed(call[b])
        BY DEF AlertsInv, Calls
      <4> QED
        BY <4>1, <4>2
    <3> QED
      BY <3>1, <3>2
  <2> QED
    BY <2>1, <1>4 DEF Calls
<1>6. Past'
  <2>1. \A b \in Call, d \in Destination : call'[b].read[d].at <= clock'
    BY <1>1, <1>4 DEF Fits, AlertsInv, Past
  <2>2. \A id \in AlertId, d \in Destination : attempts'[id][d].at <= clock'
    BY <1>1
  <2> QED
    BY <2>1, <2>2 DEF Past
<1> QED
  BY <1>2, <1>5, <1>6 DEF AlertsInv

(* Most steps of the calls write nothing but the call. *)
LEMMA CallReads ==
  ASSUME AlertsInv, NEW c \in Call, NEW l, Fits(l), Goto(c, l), UNCHANGED Environment,
         UNCHANGED <<alerts, attempts>>
  PROVE  AlertsInv'
<1>1. alerts' = alerts /\ attempts' = attempts
  OBVIOUS
<1>2. Stored' /\ Histories'
  BY <1>1 DEF AlertsInv, Stored, Histories
<1>3. \A id \in AlertId, d \in Destination : attempts'[id][d].at <= clock
  BY <1>1 DEF AlertsInv, Past
<1> QED
  BY <1>2, <1>3, CallMoves

LEMMA CallFits ==
  ASSUME AlertsInv, NEW c \in Call
  PROVE  Fits(call[c])
BY DEF AlertsInv, Calls, Past, Fits

LEMMA IdleIsSound ==
  ASSUME World
  PROVE  Fits(Idle) /\ \A d \in Destination : Idle.read[d].at <= clock
<1>1. \A d \in Destination : Idle.read[d].at <= 0 /\ Idle.read[d].at \in Int
  BY ModelAssumption, NoHistoryIs DEF Idle, NoAttempt, Never
<1>2. \A d \in Destination : Idle.read[d].at <= clock
  BY <1>1 DEF World
<1> QED
  BY <1>2, IdleFits DEF Fits

LEMMA SettlingSound ==
  ASSUME World, NEW l, Shape(l), Ready(l), \A d \in Destination : l.read[d].at <= clock
  PROVE  Fits(Settling(l))
BY SettlingFits, IdleIsSound DEF Fits

LEMMA EvaluatedSound ==
  ASSUME World, NEW l, Shape(l), \A d \in Destination : l.read[d].at <= clock
  PROVE  Fits(Evaluated(l))
BY EvaluatedFits DEF Fits

LEMMA BeginStatusStep ==
  ASSUME AlertsInv, BeginStatus
  PROVE  AlertsInv'
<1> DEFINE s == Snapshot
           l == [Idle EXCEPT !.snapshot = s]
<1>1. World
  BY DEF AlertsInv
<1>2. s.key \in DedupeKey
  BY <1>1, SnapshotKnown
<1>3. Goto(Poller, Evaluated(l))
  BY DEF BeginStatus
<1>4. UNCHANGED Environment /\ UNCHANGED <<alerts, attempts>>
  BY DEF BeginStatus
<1> HIDE DEF s
<1>0. IsLocal(Idle)
  BY IdleFits DEF Shape
<1>5. l = [pc |-> Idle.pc, snapshot |-> s, act |-> Idle.act, evaluations |-> Idle.evaluations,
           listed |-> Idle.listed, clear |-> Idle.clear, notice |-> Idle.notice,
           read |-> Idle.read, then |-> Idle.then]
  BY <1>0 DEF IsLocal
<1> HIDE DEF l
<1>6. Shape(l) /\ l.read = Idle.read
  BY <1>2, <1>5, IdleFits DEF Shape, IsLocal
<1>7. Fits(Evaluated(l))
  BY <1>1, <1>6, EvaluatedSound, IdleIsSound
<1>8. Poller \in Call
  BY DEF Call
<1> QED
  BY <1>3, <1>4, <1>7, <1>8, CallReads

LEMMA BeginActStep ==
  ASSUME AlertsInv, NEW c \in Operator, NEW act \in Acts, BeginAct(c, act)
  PROVE  AlertsInv'
<1> DEFINE s == Snapshot
           l == [Idle EXCEPT !.snapshot = s, !.act = act]
<1>1. World
  BY DEF AlertsInv
<1>2. s.key \in DedupeKey
  BY <1>1, SnapshotKnown
<1>3. Goto(c, Evaluated(l))
  BY DEF BeginAct
<1>4. UNCHANGED Environment /\ UNCHANGED <<alerts, attempts>>
  BY DEF BeginAct
<1> HIDE DEF s
<1>0. IsLocal(Idle)
  BY IdleFits DEF Shape
<1>5. l = [pc |-> Idle.pc, snapshot |-> s, act |-> act, evaluations |-> Idle.evaluations,
           listed |-> Idle.listed, clear |-> Idle.clear, notice |-> Idle.notice,
           read |-> Idle.read, then |-> Idle.then]
  BY <1>0, BegunFields
<1> HIDE DEF l
<1>6. Shape(l) /\ l.read = Idle.read
  <2>1. IsLocal(l)
    BY <1>5 DEF IsLocal
  <2> QED
    BY <1>2, <1>5, <2>1, IdleFits DEF Shape
<1>7. Fits(Evaluated(l))
  BY <1>1, <1>6, EvaluatedSound, IdleIsSound
<1>8. c \in Call
  BY DEF Call
<1> QED
  BY <1>3, <1>4, <1>7, <1>8, CallReads

LEMMA SyncAgainStep ==
  ASSUME AlertsInv, NEW c \in Call, SyncAgain(c)
  PROVE  AlertsInv'
<1>1. Fits(Evaluated(call[c]))
  BY CallFits, EvaluatedSound DEF AlertsInv, Fits
<1>2. Goto(c, Evaluated(call[c])) /\ UNCHANGED Environment /\ UNCHANGED <<alerts, attempts>>
  BY DEF SyncAgain
<1> QED
  BY <1>1, <1>2, CallReads

LEMMA ListAlertsStep ==
  ASSUME AlertsInv, NEW c \in Call, ListAlerts(c)
  PROVE  AlertsInv'
<1> DEFINE wanted == {e.key : e \in call[c].evaluations}
           clear == {key \in DedupeKey \ wanted : alerts[key].status \in {"open", "acknowledged"}}
           listed == [key \in DedupeKey |->
                        IF key \in wanted \cup clear THEN alerts[key] ELSE NoAlert]
           l == [call[c] EXCEPT !.clear = clear, !.listed = listed]
<1>1. Goto(c, Settling(l))
  BY DEF ListAlerts
<1>2. UNCHANGED Environment /\ UNCHANGED <<alerts, attempts>>
  BY DEF ListAlerts
<1>3. Fits(call[c]) /\ World
  BY CallFits DEF AlertsInv
<1>4. IsTable(listed)
  <2>1. \A key \in DedupeKey : IsAlert(alerts[key])
    BY DEF AlertsInv, Stored, IsTable
  <2>2. \A key \in DedupeKey : IsAlert(listed[key])
    BY <2>1, NoAlertIs
  <2> QED
    BY <2>2 DEF IsTable
<1>5. \A key \in clear : key \in DedupeKey /\ listed[key].id \in AlertId
  BY DEF AlertsInv, Stored, IsTable, IsAlert
<1>6. \A e \in call[c].evaluations : e.key \notin clear
  OBVIOUS
<1>0. IsLocal(call[c])
  BY <1>3 DEF Fits, Shape
<1> HIDE DEF wanted, clear, listed
<1>7. l = [pc |-> call[c].pc, snapshot |-> call[c].snapshot, act |-> call[c].act,
           evaluations |-> call[c].evaluations, listed |-> listed, clear |-> clear,
           notice |-> call[c].notice, read |-> call[c].read, then |-> call[c].then]
  BY <1>0, ListedFields
<1> HIDE DEF l
<1>8. Shape(l)
  <2>1. IsLocal(l)
    BY <1>7 DEF IsLocal
  <2> QED
    BY <1>3, <1>4, <1>7, <2>1 DEF Fits, Shape
<1>9. Ready(l)
  BY <1>5, <1>6, <1>7 DEF Ready
<1>10. \A d \in Destination : l.read[d].at <= clock
  BY <1>3, <1>7 DEF Fits
<1> QED
  BY <1>1, <1>2, <1>3, <1>8, <1>9, <1>10, SettlingSound, CallReads

LEMMA LoadStep ==
  ASSUME AlertsInv, NEW c \in Call, Load(c)
  PROVE  AlertsInv'
<1> DEFINE key == call[c].act.key
           existing == alerts[key]
           listed == [call[c].listed EXCEPT ![key] = existing]
           l == [call[c] EXCEPT !.pc = "act", !.listed[key] = existing]
<1>1. Fits(call[c]) /\ World
  BY CallFits DEF AlertsInv
<1>2. UNCHANGED Environment /\ UNCHANGED <<alerts, attempts>>
  BY DEF Load
<1>3. Goto(c, Idle) \/ (Goto(c, l) /\ existing.id = call[c].act.id)
  BY DEF Load
<1>4. call[c].pc = "load"
  BY DEF Load, At
<1>5. /\ call[c].act # NoAct /\ call[c].clear = {}
      /\ key \in DedupeKey /\ call[c].act.id \in AlertId
  BY <1>1, <1>4 DEF Fits, Placed, Shape, Acts
<1>6. CASE Goto(c, Idle)
  BY <1>1, <1>2, <1>6, IdleIsSound, CallReads
<1>7. CASE Goto(c, l) /\ existing.id = call[c].act.id
  <2>1. IsTable(call[c].listed) /\ IsAlert(existing)
    BY <1>1, <1>5 DEF Fits, Shape, AlertsInv, Stored, IsTable
  <2> HIDE DEF existing
  <2>2. /\ listed = [k \in DedupeKey |-> listed[k]] /\ listed[key] = existing
        /\ \A k \in DedupeKey : k # key => listed[k] = call[c].listed[k]
    BY <1>5, <2>1 DEF IsTable
  <2>3. IsTable(listed)
    <3> HIDE DEF listed
    <3> QED
      BY <2>1, <2>2 DEF IsTable
  <2>4. l = [pc |-> "act", snapshot |-> call[c].snapshot, act |-> call[c].act,
             evaluations |-> call[c].evaluations, listed |-> listed, clear |-> call[c].clear,
             notice |-> call[c].notice, read |-> call[c].read, then |-> call[c].then]
    <3>1. IsLocal(call[c])
      BY <1>1 DEF Fits, Shape
    <3> HIDE DEF key
    <3> QED
      BY <3>1, LoadedFields
  <2> HIDE DEF l, listed
  <2>5. Shape(l)
    <3>1. IsLocal(l)
      BY <2>4 DEF IsLocal
    <3> QED
      BY <1>1, <2>3, <2>4, <3>1 DEF Fits, Shape
  <2>6. Placed(l)
    <3>1. Ready(l)
      BY <1>5, <2>4 DEF Ready
    <3> QED
      BY <1>5, <1>7, <2>2, <2>4, <3>1 DEF Placed
  <2>7. \A d \in Destination : l.read[d].at <= clock
    BY <1>1, <2>4 DEF Fits
  <2> QED
    BY <1>2, <1>7, <2>5, <2>6, <2>7, CallReads DEF Fits
<1> QED
  BY <1>3, <1>6, <1>7

(* A save puts one alert into a table. *)
LEMMA TablePut ==
  ASSUME NEW table, IsTable(table), NEW key \in DedupeKey, NEW a, IsAlert(a)
  PROVE  /\ IsTable([table EXCEPT ![key] = a])
         /\ [table EXCEPT ![key] = a][key] = a
         /\ \A k \in DedupeKey : k # key => [table EXCEPT ![key] = a][k] = table[k]
<1> DEFINE after == [table EXCEPT ![key] = a]
<1>1. /\ after = [k \in DedupeKey |-> after[k]] /\ after[key] = a
      /\ \A k \in DedupeKey : k # key => after[k] = table[k]
  BY DEF IsTable
<1> HIDE DEF after
<1>2. IsTable(after)
  BY <1>1 DEF IsTable
<1> QED
  BY <1>1, <1>2 DEF after

LEMMA Saves ==
  ASSUME AlertsInv, NEW key \in DedupeKey, NEW a, IsAlert(a),
         alerts' = [alerts EXCEPT ![key] = a]
  PROVE  Stored'
<1>1. IsTable(alerts')
  BY TablePut DEF AlertsInv, Stored
<1> QED
  BY <1>1 DEF Stored

(* The copies of a resolved, or acknowledged, alert *)
LEMMA ResolvedIs ==
  ASSUME NEW a, IsAlert(a), a.id \in AlertId, NEW status \in Statuses
  PROVE  /\ IsAlert([a EXCEPT !.status = status])
         /\ [a EXCEPT !.status = status].id = a.id
         /\ [a EXCEPT !.status = status].status = status
<1> DEFINE b == [a EXCEPT !.status = status]
<1>1. a = [id |-> a.id, status |-> a.status, severity |-> a.severity, signature |-> a.signature,
           seen |-> a.seen]
  BY DEF IsAlert
<1>2. b = [id |-> a.id, status |-> status, severity |-> a.severity, signature |-> a.signature,
           seen |-> a.seen]
  BY <1>1
<1> HIDE DEF b
<1>3. IsAlert(b)
  BY <1>2 DEF IsAlert
<1> QED
  BY <1>2, <1>3 DEF b

LEMMA PersistedIs ==
  ASSUME NEW existing, NEW e, NEW id \in AlertId
  PROVE  IsAlert(Persisted(existing, e, id)) /\ Persisted(existing, e, id).id = id
<1>1. CurrentStatus(existing, e) \in Statuses
  BY DEF CurrentStatus, Statuses
<1> QED
  BY <1>1 DEF Persisted, IsAlert

(* The call once an alert of a known id is saved *)
LEMMA AnnounceFits ==
  ASSUME AlertsInv, NEW l, Shape(l), Ready(l), \A d \in Destination : l.read[d].at <= clock,
         NEW alert, alert.id \in AlertId, NEW event, NEW then
  PROVE  Fits(IF event = "none" THEN Settling(l)
              ELSE [l EXCEPT !.pc = "deliver", !.then = then, !.read = attempts[alert.id],
                             !.notice = [alert |-> alert, event |-> event]])
<1>1. CASE event = "none"
  BY <1>1, SettlingSound DEF AlertsInv
<1>2. CASE event # "none"
  <2> DEFINE read == attempts[alert.id]
             notice == [alert |-> alert, event |-> event]
             m == [l EXCEPT !.pc = "deliver", !.then = then, !.read = read, !.notice = notice]
  <2>1. IsLocal(l)
    BY DEF Shape
  <2>2. IsHistory(read) /\ \A d \in Destination : read[d].at <= clock
    BY DEF AlertsInv, Histories, Past
  <2>3. notice.alert.id \in AlertId
    OBVIOUS
  <2> HIDE DEF read, notice
  <2>4. m = [pc |-> "deliver", snapshot |-> l.snapshot, act |-> l.act,
             evaluations |-> l.evaluations, listed |-> l.listed, clear |-> l.clear,
             notice |-> notice, read |-> read, then |-> then]
    BY <2>1, AnnouncedFields, ZenonT(60)
  <2> HIDE DEF m
  <2>5. IsLocal(m)
    BY <2>4 DEF IsLocal
  <2>6. Shape(m)
    BY <2>2, <2>4, <2>5 DEF Shape
  <2>7. Placed(m)
    <3>1. Ready(m)
      BY <2>4 DEF Ready
    <3> QED
      BY <2>3, <2>4, <3>1 DEF Placed
  <2>8. Fits(m)
    BY <2>2, <2>4, <2>6, <2>7 DEF Fits
  <2> QED
    BY <1>2, <2>8 DEF m, read, notice
<1> QED
  BY <1>1, <1>2

(* The call throws. *)
LEMMA RefusedStep ==
  ASSUME AlertsInv, NEW c \in Call, Refused(c), UNCHANGED Environment
  PROVE  AlertsInv'
<1>1. Goto(c, Idle) /\ UNCHANGED <<alerts, attempts>>
  BY DEF Refused
<1>2. Fits(Idle)
  BY IdleIsSound DEF AlertsInv
<1> QED
  BY <1>1, <1>2, CallReads

(* A save that is announced *)
LEMMA SavesAndAnnounces ==
  ASSUME AlertsInv, NEW c \in Call,
         NEW l, Shape(l), Ready(l), \A d \in Destination : l.read[d].at <= clock,
         NEW key \in DedupeKey, NEW a, IsAlert(a), a.id \in AlertId,
         alerts' = [alerts EXCEPT ![key] = a],
         NEW event, NEW then, Announce(c, l, a, event, then),
         UNCHANGED attempts, UNCHANGED Environment
  PROVE  AlertsInv'
<1>1. Stored'
  BY Saves
<1>2. Histories' /\ \A id \in AlertId, d \in Destination : attempts'[id][d].at <= clock
  BY DEF AlertsInv, Histories, Past
<1> DEFINE m == IF event = "none" THEN Settling(l)
                ELSE [l EXCEPT !.pc = "deliver", !.then = then, !.read = attempts[a.id],
                               !.notice = [alert |-> a, event |-> event]]
<1>3. Goto(c, m)
  BY DEF Announce
<1>4. Fits(m)
  BY AnnounceFits
<1> HIDE DEF m
<1> QED
  BY <1>1, <1>2, <1>3, <1>4, CallMoves

LEMMA PersistStep ==
  ASSUME AlertsInv, NEW c \in Call, Persist(c)
  PROVE  AlertsInv'
<1> DEFINE e == CHOOSE e \in call[c].evaluations : \A f \in call[c].evaluations : f.key <= e.key
           existing == call[c].listed[e.key]
           left == call[c].evaluations \ {e}
           listed == [call[c].listed EXCEPT ![e.key] = NoAlert]
           l == [call[c] EXCEPT !.evaluations = @ \ {e}, !.listed[e.key] = NoAlert]
           id == IF existing = NoAlert THEN ids + 1 ELSE existing.id
           alert == Persisted(existing, e, id)
<1>1. /\ call[c].pc = "settle" /\ call[c].evaluations # {}
      /\ UNCHANGED Environment
  BY DEF Persist, At
<1>2. \/ Goto(c, Settling(l)) /\ UNCHANGED <<alerts, ids, attempts>>
      \/ /\ id \in AlertId
         /\ alerts' = [alerts EXCEPT ![e.key] = alert]
         /\ Announce(c, l, alert, Announcement(existing, e), "settle")
         /\ UNCHANGED attempts
      \/ Refused(c)
  BY DEF Persist
<1>3. Fits(call[c]) /\ World
  BY CallFits DEF AlertsInv
<1>4. /\ IsLocal(call[c]) /\ Few(call[c].evaluations) /\ IsTable(call[c].listed)
      /\ Ready(call[c])
  BY <1>1, <1>3 DEF Fits, Shape, Placed
<1>5. e \in call[c].evaluations
  BY <1>1, <1>4, FirstIsOne
<1> DEFINE key == e.key
<1>6. key \in DedupeKey /\ key \notin call[c].clear
  BY <1>4, <1>5 DEF Few, Ready
<1>7. Few(left)
  BY <1>4, FewLess
<1>8. /\ IsTable(listed)
      /\ \A k \in DedupeKey : k # key => listed[k] = call[c].listed[k]
  BY <1>4, <1>6, TablePut, NoAlertIs
<1>9. l = [pc |-> call[c].pc, snapshot |-> call[c].snapshot, act |-> call[c].act,
           evaluations |-> left, listed |-> listed, clear |-> call[c].clear,
           notice |-> call[c].notice, read |-> call[c].read, then |-> call[c].then]
  <2>1. l = [call[c] EXCEPT !.evaluations = left, !.listed[e.key] = NoAlert]
    OBVIOUS
  <2> HIDE DEF e, left, l
  <2> QED
    BY <1>4, <2>1, PersistedFields
<1>10. \A f \in left : f.key \notin call[c].clear
  BY <1>4 DEF Ready
<1> HIDE DEF e, key, left, listed, l
<1>11. Shape(l)
  <2>1. IsLocal(l)
    BY <1>9 DEF IsLocal
  <2> QED
    BY <1>3, <1>7, <1>8, <1>9, <2>1 DEF Fits, Shape
<1>12. Ready(l)
  <2>1. \A k \in l.clear : k \in DedupeKey /\ l.listed[k].id \in AlertId
    BY <1>4, <1>6, <1>8, <1>9 DEF Ready
  <2> QED
    BY <1>9, <1>10, <2>1 DEF Ready
<1>13. \A d \in Destination : l.read[d].at <= clock
  BY <1>3, <1>9 DEF Fits
<1>14. CASE Goto(c, Settling(l)) /\ UNCHANGED <<alerts, ids, attempts>>
  <2>1. Fits(Settling(l))
    BY <1>3, <1>11, <1>12, <1>13, SettlingSound
  <2> QED
    BY <1>1, <1>14, <2>1, CallReads
<1>15. CASE /\ id \in AlertId
            /\ alerts' = [alerts EXCEPT ![e.key] = alert]
            /\ Announce(c, l, alert, Announcement(existing, e), "settle")
            /\ UNCHANGED attempts
  <2> HIDE DEF existing, id
  <2>1. IsAlert(alert) /\ alert.id \in AlertId
    BY <1>15, PersistedIs
  <2> DEFINE event == Announcement(existing, e)
  <2>2. Announce(c, l, alert, event, "settle")
    BY <1>15
  <2>3. alerts' = [alerts EXCEPT ![key] = alert] /\ UNCHANGED attempts
    BY <1>15 DEF key
  <2> HIDE DEF alert, event
  <2> QED
    BY <1>1, <1>6, <1>11, <1>12, <1>13, <2>1, <2>2, <2>3, SavesAndAnnounces
<1>16. CASE Refused(c)
  BY <1>1, <1>16, RefusedStep
<1> QED
  BY <1>2, <1>14, <1>15, <1>16

LEMMA ClearStep ==
  ASSUME AlertsInv, NEW c \in Call, Clear(c)
  PROVE  AlertsInv'
<1>1. /\ call[c].pc = "settle" /\ call[c].evaluations = {}
      /\ UNCHANGED Environment
  BY DEF Clear, At
<1>2. PICK key \in call[c].clear :
        LET alert == ResolvedFrom(call[c].listed[key])
        IN  \/ /\ alerts' = [alerts EXCEPT ![key] = alert]
               /\ Announce(c, [call[c] EXCEPT !.clear = @ \ {key}, !.listed[key] = NoAlert], alert,
                           "alert_resolved", "settle")
               /\ UNCHANGED <<attempts, ids>>
            \/ Replaces(key, alert.id) /\ Refused(c)
  BY DEF Clear
<1> DEFINE alert == ResolvedFrom(call[c].listed[key])
           left == call[c].clear \ {key}
           listed == [call[c].listed EXCEPT ![key] = NoAlert]
           l == [call[c] EXCEPT !.clear = left, !.listed[key] = NoAlert]
<1>3. Fits(call[c]) /\ World
  BY CallFits DEF AlertsInv
<1>4. /\ IsLocal(call[c]) /\ IsTable(call[c].listed) /\ Ready(call[c])
  BY <1>1, <1>3 DEF Fits, Shape, Placed
<1>5. key \in DedupeKey /\ call[c].listed[key].id \in AlertId /\ IsAlert(call[c].listed[key])
  BY <1>4 DEF Ready, IsTable
<1>6. IsAlert(alert) /\ alert.id \in AlertId
  BY <1>5, ResolvedIs DEF ResolvedFrom, Statuses
<1>7. \/ /\ alerts' = [alerts EXCEPT ![key] = alert]
         /\ Announce(c, l, alert, "alert_resolved", "settle")
         /\ UNCHANGED <<attempts, ids>>
      \/ Refused(c)
  BY <1>2
<1>8. /\ IsTable(listed)
      /\ \A k \in DedupeKey : k # key => listed[k] = call[c].listed[k]
  BY <1>4, <1>5, TablePut, NoAlertIs
<1>9. l = [pc |-> call[c].pc, snapshot |-> call[c].snapshot, act |-> call[c].act,
           evaluations |-> call[c].evaluations, listed |-> listed, clear |-> left,
           notice |-> call[c].notice, read |-> call[c].read, then |-> call[c].then]
  <2> HIDE DEF left
  <2> QED
    BY <1>4, ClearedFields
<1>10. \A k \in left : k \in DedupeKey /\ k # key /\ call[c].listed[k].id \in AlertId
  BY <1>4 DEF Ready
<1> HIDE DEF alert, left, listed, l
<1>11. Shape(l)
  <2>1. IsLocal(l)
    BY <1>9 DEF IsLocal
  <2> QED
    BY <1>3, <1>8, <1>9, <2>1 DEF Fits, Shape
<1>12. Ready(l)
  BY <1>1, <1>8, <1>9, <1>10 DEF Ready
<1>13. \A d \in Destination : l.read[d].at <= clock
  BY <1>3, <1>9 DEF Fits
<1>14. CASE /\ alerts' = [alerts EXCEPT ![key] = alert]
            /\ Announce(c, l, alert, "alert_resolved", "settle")
            /\ UNCHANGED <<attempts, ids>>
  BY <1>1, <1>5, <1>6, <1>11, <1>12, <1>13, <1>14, SavesAndAnnounces
<1>15. CASE Refused(c)
  BY <1>1, <1>15, RefusedStep
<1> QED
  BY <1>7, <1>14, <1>15

LEMMA ActStepKeeps ==
  ASSUME AlertsInv, NEW c \in Call, Act(c)
  PROVE  AlertsInv'
<1> DEFINE key == call[c].act.key
           existing == call[c].listed[key]
           acknowledged == call[c].act.what = "acknowledge"
           alert == IF acknowledged THEN [existing EXCEPT !.status = "acknowledged"]
                    ELSE ResolvedFrom(existing)
           event == IF acknowledged THEN "alert_acknowledged" ELSE "alert_resolved"
           listed == [call[c].listed EXCEPT ![key] = NoAlert]
           l == [call[c] EXCEPT !.act = NoAct, !.listed[key] = NoAlert]
<1>1. call[c].pc = "act" /\ UNCHANGED Environment
  BY DEF Act, At
<1>2. \/ /\ alerts' = [alerts EXCEPT ![key] = alert]
         /\ Announce(c, l, alert, event, "again")
         /\ UNCHANGED <<attempts, ids>>
      \/ Refused(c)
  BY DEF Act
<1>3. Fits(call[c]) /\ World
  BY CallFits DEF AlertsInv
<1>4. /\ IsLocal(call[c]) /\ IsTable(call[c].listed) /\ call[c].clear = {}
      /\ key \in DedupeKey /\ existing.id \in AlertId
  BY <1>1, <1>3 DEF Fits, Shape, Placed, Acts
<1>5. IsAlert(existing)
  BY <1>4 DEF IsTable
<1>6. IsAlert(alert) /\ alert.id \in AlertId
  <2> HIDE DEF existing
  <2> QED
    BY <1>4, <1>5, ResolvedIs DEF ResolvedFrom, Statuses
<1>7. IsTable(listed)
  BY <1>4, TablePut, NoAlertIs
<1>8. l = [pc |-> call[c].pc, snapshot |-> call[c].snapshot, act |-> NoAct,
           evaluations |-> call[c].evaluations, listed |-> listed, clear |-> call[c].clear,
           notice |-> call[c].notice, read |-> call[c].read, then |-> call[c].then]
  <2> HIDE DEF key
  <2> QED
    BY <1>4, ActedFields
<1> HIDE DEF key, existing, acknowledged, alert, event, listed, l
<1>9. NoAct \in Acts
  BY DEF Acts
<1>10. Shape(l)
  <2>1. IsLocal(l)
    BY <1>8 DEF IsLocal
  <2> QED
    BY <1>3, <1>7, <1>8, <1>9, <2>1 DEF Fits, Shape
<1>11. Ready(l)
  BY <1>4, <1>8 DEF Ready
<1>12. \A d \in Destination : l.read[d].at <= clock
  BY <1>3, <1>8 DEF Fits
<1>13. CASE /\ alerts' = [alerts EXCEPT ![key] = alert]
            /\ Announce(c, l, alert, event, "again")
            /\ UNCHANGED <<attempts, ids>>
  BY <1>1, <1>4, <1>6, <1>10, <1>11, <1>12, <1>13, SavesAndAnnounces
<1>14. CASE Refused(c)
  BY <1>1, <1>14, RefusedStep
<1> QED
  BY <1>2, <1>13, <1>14

(* What a delivery records, of alert id, of what was posted and of whether  *)
(* it counts for the spacing                                                *)
Delivered(id, works, counted) ==
  [d \in Destination |->
     [at |-> clock, sent |-> d \in works,
      last |-> IF d \in works /\ counted THEN clock ELSE attempts[id][d].last]]

LEMMA DeliverStep ==
  ASSUME AlertsInv, NEW c \in Call, Deliver(c)
  PROVE  AlertsInv'
<1> DEFINE notice == call[c].notice
           id == notice.alert.id
           counted == notice.event # "alert_resolved"
           local == [call[c] EXCEPT !.then = "settle", !.notice = NoNotice, !.read = Idle.read]
           next == IF call[c].then = "again" THEN [local EXCEPT !.pc = "again"]
                   ELSE Settling(local)
<1>1. call[c].pc = "deliver" /\ UNCHANGED Environment /\ UNCHANGED alerts /\ Goto(c, next)
  BY DEF Deliver, At
<1>2. PICK works : attempts' = [attempts EXCEPT ![id] = Delivered(id, works, counted)]
  BY DEF Deliver, Delivered
<1>3. Fits(call[c]) /\ World
  BY CallFits DEF AlertsInv
<1>4. IsLocal(call[c]) /\ Ready(call[c]) /\ id \in AlertId
  BY <1>1, <1>3 DEF Fits, Shape, Placed
<1>5. local = [pc |-> call[c].pc, snapshot |-> call[c].snapshot, act |-> call[c].act,
               evaluations |-> call[c].evaluations, listed |-> call[c].listed,
               clear |-> call[c].clear, notice |-> NoNotice, read |-> Idle.read,
               then |-> "settle"]
  BY <1>4, DeliveredFields
<1> HIDE DEF local, id, counted
<1>6. IsLocal(local)
  BY <1>5 DEF IsLocal
<1>7. Shape(local)
  BY <1>3, <1>5, <1>6, IdleFits DEF Fits, Shape
<1>8. Ready(local)
  BY <1>4, <1>5 DEF Ready
<1>9. \A d \in Destination : local.read[d].at <= clock
  BY <1>3, <1>5, IdleIsSound
<1>10. Fits(next)
  <2>1. CASE call[c].then = "again"
    <3> DEFINE m == [local EXCEPT !.pc = "again"]
    <3>1. m = [pc |-> "again", snapshot |-> local.snapshot, act |-> local.act,
               evaluations |-> local.evaluations, listed |-> local.listed,
               clear |-> local.clear, notice |-> local.notice, read |-> local.read,
               then |-> local.then]
      BY <1>6, AgainFields
    <3> HIDE DEF m
    <3>2. IsLocal(m)
      BY <3>1 DEF IsLocal
    <3>3. Shape(m)
      BY <1>7, <3>1, <3>2 DEF Shape
    <3>4. Placed(m)
      BY <3>1 DEF Placed
    <3>5. Fits(m)
      BY <1>9, <3>1, <3>3, <3>4 DEF Fits
    <3> QED
      BY <2>1, <3>5 DEF m
  <2>2. CASE call[c].then # "again"
    BY <1>3, <1>7, <1>8, <1>9, <2>2, SettlingSound
  <2> QED
    BY <2>1, <2>2
<1> HIDE DEF next
<1>11. Stored'
  BY <1>1 DEF AlertsInv, Stored
<1>12. /\ attempts = [i \in AlertId |-> attempts[i]]
       /\ IsHistory(attempts[id])
       /\ \A d \in Destination : attempts[id][d].at <= clock
  BY <1>4 DEF AlertsInv, Histories, Past
<1>13. clock \in Nat
  BY <1>3 DEF World
<1> DEFINE after == Delivered(id, works, counted)
<1>14. \A d \in Destination :
         /\ after[d] \in Attempt /\ after[d].at = clock
         /\ after[d].last <= clock
  <2>1. ASSUME NEW d \in Destination
        PROVE  after[d] \in Attempt /\ after[d].at = clock /\ after[d].last <= clock
    <3>1. /\ attempts[id][d].last \in Int /\ attempts[id][d].at \in Int
          /\ attempts[id][d].last <= attempts[id][d].at /\ attempts[id][d].at <= clock
      BY <1>12 DEF IsHistory, Attempt
    <3>2. PICK last : /\ last = IF d \in works /\ counted THEN clock ELSE attempts[id][d].last
                      /\ last \in Int /\ last <= clock
      BY <1>13, <3>1
    <3>3. after[d] = [at |-> clock, sent |-> d \in works, last |-> last]
      BY <3>2 DEF Delivered
    <3>4. (d \in works) \in BOOLEAN
      OBVIOUS
    <3> HIDE DEF after
    <3> QED
      BY <1>13, <3>2, <3>3, <3>4 DEF Attempt
  <2> QED
    BY <2>1
<1>15. after = [d \in Destination |-> after[d]]
  BY DEF Delivered
<1> HIDE DEF after
<1>16. IsHistory(after)
  BY <1>14, <1>15 DEF IsHistory
<1>17. /\ attempts' = [i \in AlertId |-> attempts'[i]]
       /\ \A i \in AlertId : attempts'[i] = IF i = id THEN after ELSE attempts[i]
  BY <1>2, <1>12 DEF after
<1>18. Histories'
  BY <1>16, <1>17 DEF AlertsInv, Histories
<1>19. \A i \in AlertId, d \in Destination : attempts'[i][d].at <= clock
  BY <1>13, <1>14, <1>17 DEF AlertsInv, Past
<1> QED
  BY <1>1, <1>10, <1>11, <1>18, <1>19, CallMoves
-----------------------------------------------------------------------------
(* The world around the calls *)

LEMMA WorldMoves ==
  ASSUME AlertsInv, World', clock <= clock', UNCHANGED <<alerts, attempts, call>>
  PROVE  AlertsInv'
<1>1. alerts' = alerts /\ attempts' = attempts /\ call' = call
  OBVIOUS
<1>2. Stored'
  BY <1>1 DEF AlertsInv, Stored
<1>3. Histories'
  BY <1>1 DEF AlertsInv, Histories
<1>4. Calls'
  BY <1>1 DEF AlertsInv, Calls
<1>5. clock \in Nat /\ clock' \in Nat
  BY DEF AlertsInv, World
<1>6. \A id \in AlertId, d \in Destination :
        attempts[id][d].at \in Int /\ attempts[id][d].at <= clock
  BY DEF AlertsInv, Histories, IsHistory, Attempt, Past
<1>7. \A c \in Call, d \in Destination :
        call[c].read[d].at \in Int /\ call[c].read[d].at <= clock
  BY DEF AlertsInv, Calls, Shape, IsHistory, Attempt, Past
<1>8. Past'
  BY <1>1, <1>5, <1>6, <1>7 DEF Past
<1> QED
  BY <1>2, <1>3, <1>4, <1>8 DEF AlertsInv

LEMMA AskStep ==
  ASSUME AlertsInv, NEW status \in {"requested", "rejected", "unconfigured"}, Ask(status)
  PROVE  AlertsInv'
<1> DEFINE r == [status |-> status, deadline |-> FALSE, at |-> clock]
<1>1. /\ Len(requests) < MaxRequests /\ requests' = Append(requests, r)
      /\ UNCHANGED clock /\ UNCHANGED <<alerts, attempts, call>>
  BY DEF Ask, Rest
<1>2. clock \in Nat /\ requests \in Seq(Request) /\ MaxRequests \in Nat
  BY ModelAssumption DEF AlertsInv, World
<1>3. r \in Request
  BY <1>2 DEF Request, Failures
<1> HIDE DEF r
<1>4. World'
  BY <1>1, <1>2, <1>3 DEF World
<1> QED
  BY <1>1, <1>2, <1>4, WorldMoves

LEMMA SettleStep ==
  ASSUME AlertsInv, NEW status \in {"failed", "converged"}, NEW deadline \in BOOLEAN,
         Settle(status, deadline)
  PROVE  AlertsInv'
<1> DEFINE r == [status |-> status, deadline |-> deadline,
                 at |-> IF status = "failed" THEN clock ELSE 0]
           last == Len(requests)
<1>1. /\ requests # <<>> /\ requests' = [requests EXCEPT ![last] = r]
      /\ UNCHANGED clock /\ UNCHANGED <<alerts, attempts, call>>
  BY DEF Settle, Rest
<1>2. clock \in Nat /\ requests \in Seq(Request) /\ Len(requests) <= MaxRequests
  BY DEF AlertsInv, World
<1>3. r \in Request
  BY <1>2 DEF Request, Failures
<1> HIDE DEF r
<1>4. requests' \in Seq(Request) /\ Len(requests') = Len(requests)
  BY <1>1, <1>2, <1>3
<1>5. World'
  BY <1>1, <1>2, <1>4 DEF World
<1> QED
  BY <1>1, <1>2, <1>5, WorldMoves

LEMMA ShowStep ==
  ASSUME AlertsInv, Show
  PROVE  AlertsInv'
<1>1. UNCHANGED <<requests, clock>> /\ UNCHANGED <<alerts, attempts, call>>
  BY DEF Show, Rest
<1>2. World' /\ clock <= clock'
  BY <1>1 DEF AlertsInv, World
<1> QED
  BY <1>1, <1>2, WorldMoves

LEMMA TickStep ==
  ASSUME AlertsInv, Tick
  PROVE  AlertsInv'
<1>1. /\ UNCHANGED requests /\ UNCHANGED <<alerts, attempts, call>>
      /\ clock' = clock + 1
  BY DEF Tick, Rest
<1>2. World' /\ clock <= clock'
  BY <1>1 DEF AlertsInv, World
<1> QED
  BY <1>1, <1>2, WorldMoves

LEMMA DeliverRefusedStep ==
  ASSUME AlertsInv, NEW c \in Call, DeliverRefused(c)
  PROVE  AlertsInv'
<1>1. Refused(c) /\ UNCHANGED Environment
  BY DEF DeliverRefused
<1> QED
  BY <1>1, RefusedStep
-----------------------------------------------------------------------------
LEMMA AlertsInit == Init => AlertsInv
<1> SUFFICES ASSUME Init PROVE AlertsInv
  OBVIOUS
<1>1. World
  BY ModelAssumption DEF Init, World
<1>2. Stored
  BY NoAlertIs DEF Init, Stored, IsTable
<1>3. /\ attempts = [id \in AlertId |-> [d \in Destination |-> NoAttempt]]
      /\ call = [c \in Call |-> Idle] /\ clock = 0
  BY DEF Init
<1>4. Histories
  BY <1>3, NoHistoryIs DEF Histories
<1>5. Calls
  BY <1>3, IdleFits DEF Calls
<1>6. Past
  <2>1. \A id \in AlertId, d \in Destination : attempts[id][d].at <= clock
    BY <1>3, NoHistoryIs
  <2>2. \A c \in Call, d \in Destination : call[c].read[d].at <= clock
    BY <1>1, <1>3, IdleIsSound
  <2> QED
    BY <2>1, <2>2 DEF Past
<1> QED
  BY <1>1, <1>2, <1>4, <1>5, <1>6 DEF AlertsInv

LEMMA AlertsStep == AlertsInv /\ [Next]_vars => AlertsInv'
<1> SUFFICES ASSUME AlertsInv, [Next]_vars PROVE AlertsInv'
  OBVIOUS
<1>1. CASE BeginStatus
  BY <1>1, BeginStatusStep
<1>2. ASSUME NEW c \in Operator, NEW act \in Acts, BeginAct(c, act) PROVE AlertsInv'
  BY <1>2, BeginActStep
<1>3. ASSUME NEW c \in Call, CallStep(c) PROVE AlertsInv'
  BY <1>3, ListAlertsStep, PersistStep, ClearStep, DeliverStep, DeliverRefusedStep DEF CallStep
<1>4. ASSUME NEW c \in Operator, ActStep(c) PROVE AlertsInv'
  <2>1. c \in Call
    BY DEF Call
  <2> QED
    BY <1>4, <2>1, LoadStep, ActStepKeeps, SyncAgainStep DEF ActStep
<1>5. ASSUME NEW status \in {"requested", "rejected", "unconfigured"}, Ask(status)
      PROVE  AlertsInv'
  BY <1>5, AskStep
<1>6. ASSUME NEW status \in {"failed", "converged"}, NEW deadline \in BOOLEAN,
             Settle(status, deadline)
      PROVE  AlertsInv'
  BY <1>6, SettleStep
<1>7. CASE Show
  BY <1>7, ShowStep
<1>8. CASE Tick
  BY <1>8, TickStep
<1>9. CASE UNCHANGED vars
  <2>1. UNCHANGED <<requests, clock>> /\ UNCHANGED <<alerts, attempts, call>>
    BY <1>9 DEF vars
  <2>2. World' /\ clock <= clock'
    BY <2>1 DEF AlertsInv, World
  <2> QED
    BY <2>1, <2>2, WorldMoves
<1> QED
  BY <1>1, <1>2, <1>3, <1>4, <1>5, <1>6, <1>7, <1>8, <1>9 DEF Next

(* What every call has read and has still to do is sound: its copies have   *)
(* the table's shape, what it is to resolve it has listed, and no attempt   *)
(* it or the table knows of lies in the future                              *)
(* (worker-restart-alert-service.ts and its notification service).          *)
THEOREM AlertsAlwaysSound == Spec => []AlertsInv
<1> QED
  BY AlertsInit, AlertsStep, PTL DEF Spec
-----------------------------------------------------------------------------
(* Who moves *)

(* A step of a call moves that call. *)
LEMMA StepsMove ==
  ASSUME NEW c, CallStep(c) \/ ActStep(c)
  PROVE  \E l : Goto(c, l)
<1>1. CASE ListAlerts(c)
  BY <1>1 DEF ListAlerts
<1>2. CASE Persist(c)
  BY <1>2 DEF Persist, Announce, Refused
<1>3. CASE Clear(c)
  BY <1>3 DEF Clear, Announce, Refused
<1>4. CASE Deliver(c)
  BY <1>4 DEF Deliver
<1>5. CASE DeliverRefused(c)
  BY <1>5 DEF DeliverRefused, Refused
<1>6. CASE Load(c)
  BY <1>6 DEF Load
<1>7. CASE Act(c)
  BY <1>7 DEF Act, Announce, Refused
<1>8. CASE SyncAgain(c)
  BY <1>8 DEF SyncAgain
<1> QED
  BY <1>1, <1>2, <1>3, <1>4, <1>5, <1>6, <1>7, <1>8 DEF CallStep, ActStep

LEMMA OthersStay ==
  ASSUME AlertsInv, NEW b, NEW c \in Call, b # c, NEW l, Goto(b, l)
  PROVE  call'[c] = call[c]
BY DEF AlertsInv, Calls, Goto

(* A call that is delivering moves on by that alone. *)
LEMMA OnlyDelivers ==
  ASSUME AlertsInv, Next, NEW c \in Call, call[c].pc = "deliver", call'[c] # call[c]
  PROVE  Deliver(c) \/ DeliverRefused(c)
<1>1. ASSUME BeginStatus PROVE FALSE
  <2>1. call[Poller].pc = "idle" /\ Goto(Poller, Evaluated([Idle EXCEPT !.snapshot = Snapshot]))
    BY <1>1 DEF BeginStatus, At
  <2>2. CASE c = Poller
    BY <2>1, <2>2
  <2>3. CASE c # Poller
    BY <2>1, <2>3, OthersStay
  <2> QED
    BY <2>2, <2>3
<1>2. ASSUME NEW b \in Operator, NEW act \in Acts, BeginAct(b, act) PROVE FALSE
  <2>1. /\ call[b].pc = "idle"
        /\ Goto(b, Evaluated([Idle EXCEPT !.snapshot = Snapshot, !.act = act]))
    BY <1>2 DEF BeginAct, At
  <2>2. CASE c = b
    BY <2>1, <2>2
  <2>3. CASE c # b
    BY <2>1, <2>3, OthersStay
  <2> QED
    BY <2>2, <2>3
<1>3. ASSUME NEW b, CallStep(b) \/ ActStep(b)
      PROVE  Deliver(c) \/ DeliverRefused(c)
  <2>1. b = c
    BY <1>3, StepsMove, OthersStay
  <2>2. CASE CallStep(c)
    BY <2>2 DEF CallStep, ListAlerts, Persist, Clear, At
  <2>3. CASE ActStep(c)
    BY <2>3 DEF ActStep, Load, Act, SyncAgain, At
  <2> QED
    BY <1>3, <2>1, <2>2, <2>3
<1>4. ASSUME UNCHANGED call PROVE FALSE
  BY <1>4
<1>5. ASSUME NEW status \in {"requested", "rejected", "unconfigured"}, Ask(status) PROVE FALSE
  BY <1>4, <1>5 DEF Ask, Rest
<1>6. ASSUME NEW status \in {"failed", "converged"}, NEW deadline \in BOOLEAN,
             Settle(status, deadline)
      PROVE  FALSE
  BY <1>4, <1>6 DEF Settle, Rest
<1>7. ASSUME Show \/ Tick PROVE FALSE
  BY <1>4, <1>7 DEF Show, Tick, Rest
<1> QED
  BY <1>1, <1>2, <1>3, <1>5, <1>6, <1>7 DEF Next

(* What is sent to a destination was due there. *)
LEMMA SendsDue ==
  ASSUME AlertsInv, NEW c \in Call, Deliver(c), NEW d \in Destination,
         call[c].notice.event # "alert_resolved",
         attempts'[call[c].notice.alert.id][d].sent
  PROVE  clock >= call[c].read[d].last + Cooldown
<1> DEFINE notice == call[c].notice
           id == notice.alert.id
           route == [e \in Destination |-> Route(notice, call[c].read[e], Config(e))]
           posted == {e \in Destination : route[e] = "send"}
           counted == notice.event # "alert_resolved"
<1>1. PICK works \in SUBSET posted :
        attempts' = [attempts EXCEPT ![id] = Delivered(id, works, counted)]
  BY DEF Deliver, Delivered
<1>2. id \in AlertId
  BY CallFits DEF Fits, Placed, Deliver, At
<1>3. attempts'[id] = Delivered(id, works, counted)
  BY <1>1, <1>2 DEF AlertsInv, Histories
<1>4. Delivered(id, works, counted)[d].sent = (d \in works)
  BY DEF Delivered
<1>5. d \in works
  BY <1>3, <1>4
<1>6. route[d] = "send"
  BY <1>1, <1>5
<1>7. ~Cooling(notice, call[c].read[d])
  BY <1>6 DEF Route
<1>8. /\ call[c].read[d].at \in Int /\ call[c].read[d].last \in Int
      /\ call[c].read[d].last <= call[c].read[d].at
      /\ clock \in Nat /\ Cooldown \in Nat
  BY CallFits, ModelAssumption DEF Fits, Shape, IsHistory, Attempt, AlertsInv, World
<1>9. CASE call[c].read[d].at = Never
  BY <1>8, <1>9 DEF Never
<1>10. CASE ~(clock - call[c].read[d].at < Cooldown)
  BY <1>8, <1>10
<1> QED
  BY <1>7, <1>9, <1>10 DEF Cooling

(* Whatever the kinds of two notifications about a stored alert, and        *)
(* however many calls dispatch, they reach a destination at least its       *)
(* cooldown apart - unless the second was decided upon before the first     *)
(* was recorded (resolveNotificationRoutes).                                *)
THEOREM SendsAlwaysSpaced == Spec => SendsSpaced
<1> DEFINE Spaced ==
             \A c \in Call, d \in Destination :
               LET notice == call[c].notice
               IN  /\ At(c, "deliver") /\ call'[c] # call[c] /\ notice.event # "alert_resolved"
                   /\ \E key \in DedupeKey : alerts[key].id = notice.alert.id
                   /\ attempts'[notice.alert.id][d].sent
                   => clock >= call[c].read[d].last + Cooldown
<1>1. AlertsInv /\ [Next]_vars => [Spaced]_vars
  <2> SUFFICES ASSUME AlertsInv, Next PROVE Spaced
    OBVIOUS
  <2>1. ASSUME NEW c \in Call, NEW d \in Destination,
               call[c].pc = "deliver", call'[c] # call[c],
               call[c].notice.event # "alert_resolved",
               \E key \in DedupeKey : alerts[key].id = call[c].notice.alert.id,
               attempts'[call[c].notice.alert.id][d].sent
        PROVE  clock >= call[c].read[d].last + Cooldown
    <3>1. Deliver(c)
      BY <2>1, OnlyDelivers DEF DeliverRefused
    <3> QED
      BY <2>1, <3>1, SendsDue
  <2> QED
    BY <2>1 DEF At
<1> QED
  BY <1>1, AlertsAlwaysSound, PTL DEF Spec, SendsSpaced
-----------------------------------------------------------------------------
(* A call that goes on after one of its evaluations is not where it was.    *)
LEMMA SettlingMoves ==
  ASSUME NEW l, l.pc = "settle", NEW m, IsLocal(m), m.evaluations # l.evaluations
  PROVE  Settling(m) # l
<1>1. CASE m.evaluations # {} \/ m.clear # {}
  <2>1. Settling(m).evaluations = m.evaluations
    BY <1>1 DEF Settling, IsLocal
  <2> QED
    BY <2>1
<1>2. CASE ~(m.evaluations # {} \/ m.clear # {}) /\ m.act # NoAct
  <2>1. Settling(m).pc = "load"
    BY <1>2 DEF Settling, IsLocal
  <2> QED
    BY <2>1
<1>3. CASE ~(m.evaluations # {} \/ m.clear # {}) /\ m.act = NoAct
  <2>1. Settling(m).pc = "idle"
    BY <1>3 DEF Settling, Idle
  <2> QED
    BY <2>1
<1> QED
  BY <1>1, <1>2, <1>3

(* A save that turns an acknowledged alert back to open is one of a call    *)
(* whose copy was not acknowledged, and that call goes on.                  *)
LEMMA PersistReopens ==
  ASSUME AlertsInv, NEW c \in Call, Persist(c), NEW key \in DedupeKey,
         alerts[key].status = "acknowledged", alerts'[key].status = "open"
  PROVE  call'[c] # call[c] /\ call[c].listed[key].status # "acknowledged"
<1> DEFINE e == CHOOSE e \in call[c].evaluations : \A f \in call[c].evaluations : f.key <= e.key
           existing == call[c].listed[e.key]
           l == [call[c] EXCEPT !.evaluations = @ \ {e}, !.listed[e.key] = NoAlert]
           id == IF existing = NoAlert THEN ids + 1 ELSE existing.id
           alert == Persisted(existing, e, id)
           event == Announcement(existing, e)
<1>1. call[c].pc = "settle" /\ call[c].evaluations # {}
  BY DEF Persist, At
<1>2. alerts' # alerts
  OBVIOUS
<1>3. /\ id \in AlertId
      /\ alerts' = [alerts EXCEPT ![e.key] = alert]
      /\ Announce(c, l, alert, event, "settle")
  BY <1>2 DEF Persist, Refused
<1>4. alerts = [k \in DedupeKey |-> alerts[k]]
  BY DEF AlertsInv, Stored, IsTable
<1>5. key = e.key /\ alerts'[key] = alert
  <2> HIDE DEF e, alert
  <2> QED
    BY <1>3, <1>4
<1>6. alert.status = CurrentStatus(existing, e)
  BY DEF Persisted
<1>7. existing.status # "acknowledged"
  BY <1>5, <1>6 DEF CurrentStatus
<1>8. call'[c] # call[c]
  <2>1. /\ IsLocal(call[c]) /\ Few(call[c].evaluations)
        /\ call = [b \in Call |-> call[b]]
    BY CallFits DEF Fits, Shape, AlertsInv, Calls
  <2>2. e \in call[c].evaluations
    BY <1>1, <2>1, FirstIsOne
  <2> DEFINE left == call[c].evaluations \ {e}
  <2>3. l = [pc |-> call[c].pc, snapshot |-> call[c].snapshot, act |-> call[c].act,
             evaluations |-> left, listed |-> [call[c].listed EXCEPT ![e.key] = NoAlert],
             clear |-> call[c].clear, notice |-> call[c].notice, read |-> call[c].read,
             then |-> call[c].then]
    <3>1. l = [call[c] EXCEPT !.evaluations = left, !.listed[e.key] = NoAlert]
      OBVIOUS
    <3>2. IsLocal(call[c])
      BY <2>1
    <3> HIDE DEF existing, id, alert, event, e, left, l
    <3> QED
      BY <3>1, <3>2, PersistedFields, ZenonT(60)
  <2>4. IsLocal(l) /\ l.evaluations # call[c].evaluations
    <3> HIDE DEF e, l
    <3> QED
      BY <2>2, <2>3 DEF IsLocal
  <2> HIDE DEF existing, id, alert, event, e, left, l
  <2>5. CASE event = "none"
    <3>1. call'[c] = Settling(l)
      BY <1>3, <2>1, <2>5 DEF Announce, Goto
    <3> QED
      BY <1>1, <2>4, <3>1, SettlingMoves
  <2>6. CASE event # "none"
    <3>1. PICK m : m = [l EXCEPT !.pc = "deliver", !.then = "settle",
                                 !.read = attempts[alert.id],
                                 !.notice = [alert |-> alert, event |-> event]]
      OBVIOUS
    <3>2. m.pc = "deliver"
      <4> DEFINE read == attempts[alert.id]
                 notice == [alert |-> alert, event |-> event]
                 listed == [call[c].listed EXCEPT ![e.key] = NoAlert]
      <4>1. l = [pc |-> call[c].pc, snapshot |-> call[c].snapshot, act |-> call[c].act,
                 evaluations |-> left, listed |-> listed, clear |-> call[c].clear,
                 notice |-> call[c].notice, read |-> call[c].read, then |-> call[c].then]
        BY <2>3
      <4> HIDE DEF read, notice, listed
      <4> QED
        BY <3>1, <4>1 DEF read, notice
    <3>3. call' = [call EXCEPT ![c] = m]
      BY <1>3, <2>6, <3>1 DEF Announce, Goto
    <3> QED
      BY <1>1, <2>1, <3>2, <3>3
  <2> QED
    BY <2>5, <2>6
<1> QED
  BY <1>5, <1>7, <1>8

(* Resolving and acting open no alert. *)
LEMMA OthersReopenNothing ==
  ASSUME AlertsInv, NEW c \in Call, Clear(c) \/ Act(c), NEW key \in DedupeKey,
         alerts[key].status # "open"
  PROVE  alerts'[key].status # "open"
<1>1. alerts = [k \in DedupeKey |-> alerts[k]]
  BY DEF AlertsInv, Stored, IsTable
<1>2. ASSUME NEW k, NEW a, a.status # "open", alerts' = [alerts EXCEPT ![k] = a]
      PROVE  alerts'[key].status # "open"
  BY <1>1, <1>2
<1>3. Fits(call[c])
  BY CallFits
<1>4. CASE Clear(c)
  <2>1. PICK k \in call[c].clear :
          \/ alerts' = [alerts EXCEPT ![k] = ResolvedFrom(call[c].listed[k])]
          \/ alerts' = alerts
    BY <1>4 DEF Clear, Refused
  <2>2. IsAlert(call[c].listed[k]) /\ call[c].listed[k].id \in AlertId
    BY <1>3, <1>4 DEF Fits, Placed, Ready, Shape, IsTable, Clear, At
  <2>3. ResolvedFrom(call[c].listed[k]).status = "resolved"
    BY <2>2, ResolvedIs DEF ResolvedFrom, Statuses
  <2>4. CASE alerts' = alerts
    BY <2>4
  <2> QED
    BY <1>2, <2>1, <2>3, <2>4
<1>5. CASE Act(c)
  <2> DEFINE k == call[c].act.key
             existing == call[c].listed[k]
             alert == IF call[c].act.what = "acknowledge"
                      THEN [existing EXCEPT !.status = "acknowledged"]
                      ELSE ResolvedFrom(existing)
  <2>1. alerts' = [alerts EXCEPT ![k] = alert] \/ alerts' = alerts
    BY <1>5 DEF Act, Refused
  <2>2. k \in DedupeKey /\ existing.id \in AlertId
    BY <1>3, <1>5 DEF Fits, Placed, Shape, Act, At, Acts
  <2>3. IsAlert(existing)
    BY <1>3, <2>2 DEF Fits, Shape, IsTable
  <2> HIDE DEF existing, k
  <2>4. alert.status # "open"
    BY <2>2, <2>3, ResolvedIs DEF ResolvedFrom, Statuses
  <2>5. CASE alerts' = alerts
    BY <2>5
  <2> HIDE DEF alert
  <2> QED
    BY <1>2, <2>1, <2>4, <2>5
<1> QED
  BY <1>4, <1>5

(* An acknowledgement stands until its alert is resolved, through every     *)
(* change of the condition and its severity: only a call that had listed    *)
(* the alert before, and so did not know, turns it back to open             *)
(* (persistActiveAlert).                                                    *)
THEOREM AcknowledgementsStick == Spec => AckSticks
<1> DEFINE Sticks ==
             \A key \in DedupeKey :
               alerts[key].status = "acknowledged" /\ alerts'[key].status = "open"
               => \E c \in Call : call'[c] # call[c] /\ call[c].listed[key].status # "acknowledged"
<1>1. AlertsInv /\ [Next]_vars => [Sticks]_vars
  <2> SUFFICES ASSUME AlertsInv, Next, NEW key \in DedupeKey,
                      alerts[key].status = "acknowledged", alerts'[key].status = "open"
               PROVE  \E c \in Call : /\ call'[c] # call[c]
                                      /\ call[c].listed[key].status # "acknowledged"
    OBVIOUS
  <2>1. ~UNCHANGED alerts
    OBVIOUS
  <2>2. \E c \in Call : Persist(c) \/ Clear(c) \/ Act(c)
    <3>1. ASSUME BeginStatus PROVE FALSE
      BY <2>1, <3>1 DEF BeginStatus
    <3>2. ASSUME NEW b \in Operator, NEW act \in Acts, BeginAct(b, act) PROVE FALSE
      BY <2>1, <3>2 DEF BeginAct
    <3>3. ASSUME NEW c \in Call, CallStep(c) PROVE Persist(c) \/ Clear(c)
      BY <2>1, <3>3 DEF CallStep, ListAlerts, Deliver, DeliverRefused, Refused
    <3>4. ASSUME NEW c \in Operator, ActStep(c) PROVE Act(c)
      BY <2>1, <3>4 DEF ActStep, Load, SyncAgain
    <3>5. ASSUME NEW status, Ask(status) PROVE FALSE
      BY <2>1, <3>5 DEF Ask, Rest
    <3>6. ASSUME NEW status, NEW deadline, Settle(status, deadline) PROVE FALSE
      BY <2>1, <3>6 DEF Settle, Rest
    <3>7. ASSUME Show \/ Tick PROVE FALSE
      BY <2>1, <3>7 DEF Show, Tick, Rest
    <3> QED
      BY <3>1, <3>2, <3>3, <3>4, <3>5, <3>6, <3>7 DEF Next, Call
  <2> QED
    BY <2>2, PersistReopens, OthersReopenNothing
<1> QED
  BY <1>1, AlertsAlwaysSound, PTL DEF Spec, AckSticks
=============================================================================
