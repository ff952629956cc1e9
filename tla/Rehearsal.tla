------------------------------ MODULE Rehearsal ------------------------------
(***************************************************************************)
(* Database rehearsals: the disposable restore that must have succeeded    *)
(* lately before a live promotion (recovery/disposable-db-rehearsal.ts,    *)
(* run by an operator or by a cron job), the gate that asks for it and the *)
(* freshness alert that the status routes and the cron job keep            *)
(* (control/control-governance.ts), and the notifications the job sends    *)
(* about that alert (control/database-rehearsal-notification-service.ts).  *)
(***************************************************************************)
EXTENDS Integers, FiniteSets

CONSTANTS
  Window,          \* how long a passed rehearsal counts (seven days)
  FailureThreshold, \* consecutive automated failures that count as repeated
  SummariesSent,   \* the destination takes repeated-failure summaries
  MaxClock,        \* bound of the model on time
  MaxWork          \* bound of the model: rehearsals, and whatever else is started

ASSUME RehearsalConstants ==
  /\ Window \in Nat /\ FailureThreshold \in Nat \ {0} /\ SummariesSent \in BOOLEAN
  /\ MaxClock \in Nat /\ MaxWork \in Nat

Source == {"automated", "manual"}
Syncer == {"status", "automated"}     \* a status route, the cron job

VARIABLES
  clock,
  work,       \* counter of the model
  evidence,   \* the rehearsals recorded
  running,    \* per source: the start of the rehearsal under way, or 0
  alert,      \* the environment's freshness alert
  sync,       \* per syncer: its call of syncDatabaseRehearsalFreshnessState
  delivered   \* the external deliveries recorded: the latest, and a sent recovery

rehearsalVars == <<evidence, running, alert, sync, delivered>>

(* Rehearsals are named by the time they start at; no two start at once. *)
Evidence == [at : 1..MaxClock, status : {"passed", "failed"}, source : Source]

-----------------------------------------------------------------------------
(* The evidence as the gate and the freshness status read it *)
NoEvidence == [at |-> 0, status |-> "none", source |-> "none"]

LatestOf(set) ==
  IF set = {} THEN NoEvidence ELSE CHOOSE e \in set : \A f \in set : f.at <= e.at

Passed(history) == {e \in history : e.status = "passed"}
Age(e, now) == IF now > e.at THEN now - e.at ELSE 0

(* evaluateDatabaseRehearsalGate, on the latest evidence *)
GateStatus(history, now) ==
  LET latest == LatestOf(history)
  IN  CASE latest = NoEvidence        -> "missing"
        [] latest.status = "failed"   -> "failed"
        [] latest.status = "passed"   -> IF Age(latest, now) > Window THEN "stale" ELSE "fresh"

(* Automated failures since the last automated success, and whether they    *)
(* are repeated.                                                            *)
RepeatedFailures(history) ==
  LET automated == {e \in history : e.source = "automated"}
      success == LatestOf(Passed(automated))
  IN  Cardinality({e \in automated : e.at > success.at}) >= FailureThreshold

WarningThreshold == (Window * 8) \div 10

(* Mutant: a failure does not matter while an earlier success is recent. *)
FreshnessBySuccess(history, now) ==
  LET success == LatestOf(Passed(history))
  IN  CASE history = {}                          -> "unknown"
        [] success = NoEvidence /\ history # {}  -> "failed"
        [] success # NoEvidence /\ Age(success, now) > Window -> "stale"
        [] OTHER                                 -> "healthy"

(* buildDatabaseRehearsalFreshnessStatus, on the whole history *)
Freshness(history, now) ==
  LET latest == LatestOf(history)
      success == LatestOf(Passed(history))
  IN  CASE latest = NoEvidence                -> "unknown"
        [] latest.status = "failed"           -> "failed"
        [] latest.status = "passed" /\ Age(success, now) > Window -> "stale"
        [] OTHER -> IF success.source = "manual" \/ Age(success, now) > WarningThreshold
                    THEN "warning" ELSE "healthy"

Blocked(freshness) == freshness \in {"unknown", "failed", "stale"}

(* The operational status: what the alert's content is built from *)
Operational(history, now) ==
  [freshness |-> Freshness(history, now),
   latest    |-> LatestOf(history).at,
   success   |-> LatestOf(Passed(history)).at,
   repeated  |-> RepeatedFailures(history)]

HasOpenAlert(status) == status.freshness # "healthy"

-----------------------------------------------------------------------------
(* The alert, with the summary of its notifications *)
NoStatus == [freshness |-> "none", latest |-> 0, success |-> 0, repeated |-> FALSE]
NotNotified == [externally |-> FALSE, recovery |-> FALSE]
NoAlert == [status |-> "none", current |-> NoStatus, notification |-> NotNotified]

IdleSync == [pc |-> "idle", now |-> 0, current |-> NoStatus, previous |-> NoAlert,
             next |-> NoAlert]

(* prepareDatabaseRehearsalAlertRecord (nothing acknowledges this alert) *)
Prepared(current, previous) ==
  [status       |-> IF HasOpenAlert(current) THEN "open" ELSE "resolved",
   current      |-> current,
   notification |-> previous.notification]

(* Mutant: the alert is compared by its severity alone. *)
WorthSavingBySeverity(previous, next) ==
  IF previous = NoAlert THEN next.status # "resolved"
  ELSE Blocked(previous.current.freshness) # Blocked(next.current.freshness)

(* shouldPersistFreshnessAlert; a resolved alert carries the time of the    *)
(* evaluation that resolved it, so no two of them are the same.             *)
WorthSaving(previous, next) ==
  IF previous = NoAlert THEN next.status # "resolved"
  ELSE next.status = "resolved"
       \/ [previous EXCEPT !.notification = NotNotified]
            # [next EXCEPT !.notification = NotNotified]

SyncAt(s, pc) == sync[s].pc = pc
SyncTo(s, local) == sync' = [sync EXCEPT ![s] = local]

(* A status route starts a sync at any time; the cron job starts its own    *)
(* with the time its rehearsal started at (see Record).                     *)
BeginSync ==
  /\ SyncAt("status", "idle")
  /\ SyncTo("status", [IdleSync EXCEPT !.pc = "evidence", !.now = clock])
  /\ UNCHANGED <<clock, work, evidence, running, alert, delivered>>

ReadEvidence(s) ==
  /\ SyncAt(s, "evidence")
  /\ SyncTo(s, [sync[s] EXCEPT !.pc = "alert", !.current = Operational(evidence, sync[s].now)])
  /\ UNCHANGED <<clock, work, evidence, running, alert, delivered>>

(* The cron job goes on to the notifications. *)
Synced(s, local) ==
  IF s = "automated" THEN [local EXCEPT !.pc = "dispatch"] ELSE IdleSync

ReadAlert(s) ==
  /\ SyncAt(s, "alert")
  /\ LET next == Prepared(sync[s].current, alert)
         local == [sync[s] EXCEPT !.previous = alert, !.next = next]
     IN  SyncTo(s, IF WorthSaving(alert, next) THEN [local EXCEPT !.pc = "save"]
                   ELSE Synced(s, local))
  /\ UNCHANGED <<clock, work, evidence, running, alert, delivered>>

SaveAlert(s) ==
  /\ SyncAt(s, "save")
  /\ alert' = sync[s].next
  /\ SyncTo(s, Synced(s, sync[s]))
  /\ UNCHANGED <<clock, work, evidence, running, delivered>>

-----------------------------------------------------------------------------
(* selectFreshnessNotificationPlan *)
Plan(current, record) ==
  CASE current.freshness = "stale"  -> "freshness_stale_opened"
    [] current.freshness = "failed" ->
         IF current.repeated THEN "freshness_repeated_failure" ELSE "freshness_failed_opened"
    [] current.freshness = "healthy" /\ record.status = "resolved"
         /\ record.notification.externally /\ ~record.notification.recovery
                                    -> "freshness_recovered"
    [] OTHER                        -> "none"

(* The outcomes the routing leaves open for an event: a summary that no     *)
(* destination takes is recorded as skipped, anything else is posted once.  *)
(* (The cooldown of minutes is over long before the next rehearsal.)        *)
Outcomes(event) ==
  IF event = "freshness_repeated_failure" /\ ~SummariesSent THEN {"skipped"}
  ELSE {"sent", "failed"}

(* buildNotificationSummary over the recorded deliveries *)
Summary(deliveries) ==
  [externally |-> deliveries.latest = "sent", recovery |-> deliveries.recovered]

(* The deliveries are recorded; the job then saves the alert it holds with  *)
(* the new summary, over whatever a status route saved meanwhile.           *)
Dispatch ==
  /\ SyncAt("automated", "dispatch")
  /\ LET event == Plan(sync["automated"].current, sync["automated"].next)
     IN  \/ /\ event = "none"
            /\ SyncTo("automated", IdleSync)
            /\ UNCHANGED delivered
         \/ /\ event # "none"
            /\ \E outcome \in Outcomes(event) :
                 delivered' = [latest    |-> outcome,
                               recovered |-> delivered.recovered
                                  \/ (event = "freshness_recovered" /\ outcome = "sent")]
            /\ SyncTo("automated", [sync["automated"] EXCEPT !.pc = "summary"])
  /\ UNCHANGED <<clock, work, evidence, running, alert>>

SaveSummary ==
  /\ SyncAt("automated", "summary")
  /\ alert' = [sync["automated"].next EXCEPT !.notification = Summary(delivered)]
  /\ SyncTo("automated", IdleSync)
  /\ UNCHANGED <<clock, work, evidence, running, delivered>>

-----------------------------------------------------------------------------
(* A rehearsal starts, and takes its time now. *)
Start(source) ==
  /\ running[source] = 0
  /\ source \in Syncer => SyncAt(source, "idle")
  /\ clock < MaxClock /\ work < MaxWork
  /\ clock' = clock + 1 /\ work' = work + 1
  /\ running' = [running EXCEPT ![source] = clock + 1]
  /\ UNCHANGED <<evidence, alert, sync, delivered>>

(* Its evidence is stored; the cron job syncs the alert. *)
Record(source, status) ==
  /\ running[source] # 0
  /\ evidence' = evidence \cup {[at |-> running[source], status |-> status, source |-> source]}
  /\ running' = [running EXCEPT ![source] = 0]
  /\ IF source = "automated"
     THEN SyncTo(source, [IdleSync EXCEPT !.pc = "evidence", !.now = running[source]])
     ELSE UNCHANGED sync
  /\ UNCHANGED <<clock, work, alert, delivered>>

(* It dies, fails before both schemas are known, or its evidence cannot be  *)
(* stored: nothing is recorded.                                             *)
Lost(source) ==
  /\ running[source] # 0
  /\ running' = [running EXCEPT ![source] = 0]
  /\ UNCHANGED <<clock, work, evidence, alert, sync, delivered>>

(* A sync or a dispatch is cut short at one of its awaits. *)
SyncFails(s) ==
  /\ ~SyncAt(s, "idle") /\ work < MaxWork
  /\ work' = work + 1
  /\ SyncTo(s, IdleSync)
  /\ UNCHANGED <<clock, evidence, running, alert, delivered>>

(* The bound: time stands still at MaxClock. *)
Tick ==
  /\ clock < MaxClock
  /\ clock' = clock + 1
  /\ UNCHANGED <<work, rehearsalVars>>

RehearsalInit ==
  /\ clock = 0 /\ work = 0 /\ evidence = {}
  /\ running = [source \in Source |-> 0]
  /\ alert = NoAlert
  /\ sync = [s \in Syncer |-> IdleSync]
  /\ delivered = [latest |-> "none", recovered |-> FALSE]

SyncStep(s) == ReadEvidence(s) \/ ReadAlert(s) \/ SaveAlert(s)

RehearsalNext ==
  \/ BeginSync
  \/ \E s \in Syncer : SyncStep(s) \/ SyncFails(s)
  \/ Dispatch \/ SaveSummary
  \/ \E source \in Source :
       Start(source) \/ Lost(source) \/ \E status \in {"passed", "failed"} : Record(source, status)
  \/ Tick

-----------------------------------------------------------------------------
(* The promotion gate, which reads the latest rehearsal, and the freshness  *)
(* status, which reads the whole history, agree at any time on whether a    *)
(* promotion may go ahead.                                                  *)
GateAgreesWithFreshness ==
  \A now \in 0..MaxClock :
    GateStatus(evidence, now) = "fresh" <=> ~Blocked(Freshness(evidence, now))

(* Whatever the job and the status routes overwrite of each other, in the   *)
(* end the alert is open exactly while the freshness is not healthy.        *)
FreshnessAlertFollows ==
  <>[](alert.status = "open" <=> Freshness(evidence, clock) # "healthy")
=============================================================================
