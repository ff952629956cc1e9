---------------------------- MODULE RestartAlerts ----------------------------
(***************************************************************************)
(* Alerts about worker restarts and their notifications                    *)
(* (bot/src/control/worker-restart-alert-service.ts and its routing and    *)
(* notification service).  Every status read of the control service syncs  *)
(* the alerts: it evaluates the latest restart request, lists the stored   *)
(* alerts, and saves, reopens or resolves them one after another from that *)
(* list, notifying the destinations as it goes.  Calls of operators do the *)
(* same around an acknowledgement or a resolution, and all of them         *)
(* interleave at their awaits.                                             *)
(*                                                                         *)
(* `clock` counts minutes.  The requests and the worker evolve by          *)
(* themselves here; WorkerRestart models how.                              *)
(***************************************************************************)
EXTENDS Integers, Sequences, FiniteSets, FiniteSetsExt

CONSTANTS
  Operator, Poller,        \* slots for the calls of operators and the status reads
  Destination,             \* the names of the webhook destinations ...
  Config(_),               \* ... and their configuration
  Production,              \* the environment is a production one
  Configured,              \* a deploy hook is configured
  HeartbeatTimeout, Timeout, RepeatWindow, RepeatThreshold, QuietWindow,
  Cooldown,                \* of a destination
  MaxClock, MaxRequests, MaxActs   \* bounds of the model

ASSUME ModelAssumption ==
  /\ Poller \notin Operator /\ {Production, Configured} \subseteq BOOLEAN
  /\ {HeartbeatTimeout, Timeout, RepeatWindow, RepeatThreshold, QuietWindow, Cooldown} \subseteq Nat
  /\ {MaxClock, MaxRequests, MaxActs} \subseteq Nat

Call == Operator \cup {Poller}

VARIABLES
  requests,   \* the restart requests, oldest first
  worker,     \* what the worker has shown since the latest request
  clock,
  alerts,     \* the stored alerts, by dedupe key
  attempts,   \* per alert id and destination: the delivery attempts
  ids,        \* alert ids given out
  call,       \* per call: where it is and what it has read
  acts        \* a counter of the model

vars == <<requests, worker, clock, alerts, attempts, ids, call, acts>>

-----------------------------------------------------------------------------
(* Dedupe keys: request:<id> is the request's number, repeat:... is 0. *)
RepeatKey == 0
DedupeKey == 0..MaxRequests
AlertId == 1..MaxActs + MaxRequests + 2 * Cardinality(Call)

(* The statuses of requests, as far as alerts tell them apart: "requested"  *)
(* is also dispatched, "rejected" also refused by the cooldown.             *)
Failures == {"failed", "rejected", "unconfigured"}

Request == [status : Failures \cup {"requested", "converged"},
            deadline : BOOLEAN,    \* failed at the convergence deadline
            at : Nat]              \* requestedAt, and when it is a failure updatedAt

(* categorySeverity *)
Severity(category) ==
  IF \/ category = "repeated_restart_failures"
     \/ /\ category \in {"convergence_timeout", "missing_worker_heartbeat", "applied_version_stalled"}
        /\ Production
  THEN "critical" ELSE "warning"

(* buildConditionSignature, with what can change in it *)
Signature(category, status, shown, failures) ==
  [category |-> category, status |-> status, worker |-> shown, failures |-> failures]

Evaluation(key, signature) ==
  [key |-> key, severity |-> Severity(signature.category), signature |-> signature]

(* buildRequestEvaluation: the category of request r, "none" without an     *)
(* alert.                                                                   *)
RequestCategory(r, shown) ==
  CASE r.status = "unconfigured" -> "orchestration_failure"
    [] r.status = "failed" -> IF r.deadline THEN "convergence_timeout" ELSE "orchestration_failure"
    [] r.status \in {"rejected", "converged"} -> "none"
    [] r.status = "requested" ->
         IF clock - r.at >= Timeout THEN "convergence_timeout"
         ELSE IF clock - r.at < HeartbeatTimeout THEN "none"
         ELSE CASE shown = "silent" -> "missing_worker_heartbeat"
                [] shown = "beating" -> "applied_version_stalled"
                [] shown = "applied" -> "restart_timeout"

(* buildRepeatedFailureEvaluation: the failures within the rolling window *)
RecentFailures ==
  {i \in DOMAIN requests : requests[i].status \in Failures /\ clock - requests[i].at <= RepeatWindow}

RepeatedEvaluation ==
  IF Cardinality(RecentFailures) < RepeatThreshold THEN {}
  ELSE {Evaluation(RepeatKey,
          Signature("repeated_restart_failures", requests[Max(RecentFailures)].status, "any",
                    RecentFailures))}

(* buildDesiredEvaluations, from a snapshot [request, worker] that may be   *)
(* older than the list of requests                                          *)
Evaluations(snapshot) ==
  LET key == IF snapshot.key # 0 THEN snapshot.key ELSE Len(requests)
      r == IF snapshot.key # 0 THEN snapshot.request ELSE requests[key]
      category == IF key = 0 THEN "none" ELSE RequestCategory(r, snapshot.worker)
  IN  RepeatedEvaluation
        \cup IF category = "none" THEN {}
             ELSE {Evaluation(key, Signature(category, r.status, snapshot.worker, {}))}

-----------------------------------------------------------------------------
NoSignature == Signature("none", "none", "any", {})
NoAlert == [id |-> 0, status |-> "none", severity |-> "none", signature |-> NoSignature, seen |-> 0]
NoRequest == [status |-> "converged", deadline |-> FALSE, at |-> 0]
NoSnapshot == [key |-> 0, request |-> NoRequest, worker |-> "silent"]

(* The attempts for one alert and destination: the time of the latest, and  *)
(* whether it was sent; for a history, when a notification other than the   *)
(* recovery was last sent.                                                  *)
Never == 0 - Cooldown
NoAttempt == [at |-> Never, sent |-> FALSE, last |-> Never]

NoNotice == [alert |-> NoAlert, event |-> "none"]
NoAct == [what |-> "none", key |-> RepeatKey, id |-> 0]
Acts == [what : {"acknowledge", "resolve"}, key : DedupeKey, id : AlertId] \cup {NoAct}

Idle == [pc |-> "idle", snapshot |-> NoSnapshot, act |-> NoAct,
         evaluations |-> {},   \* still to be persisted
         listed |-> [key \in DedupeKey |-> NoAlert],   \* the alerts as listed
         clear |-> {},         \* keys still to be resolved
         notice |-> NoNotice,  \* the notification being dispatched
         read |-> [d \in Destination |-> NoAttempt],
         then |-> "settle"]    \* where the call goes on after it

Init ==
  /\ requests = <<>> /\ worker = "silent" /\ clock = 0
  /\ alerts = [key \in DedupeKey |-> NoAlert]
  /\ attempts = [id \in AlertId |-> [d \in Destination |-> NoAttempt]]
  /\ ids = 0 /\ acts = 0
  /\ call = [c \in Call |-> Idle]

At(c, pc) == call[c].pc = pc
Goto(c, local) == call' = [call EXCEPT ![c] = local]
Environment == <<requests, worker, clock>>

(* sync evaluates the call's snapshot of the restart state at the time of   *)
(* this step ...                                                            *)
Snapshot ==
  IF requests = <<>> THEN NoSnapshot
  ELSE [key |-> Len(requests), request |-> requests[Len(requests)], worker |-> worker]

(* A status read, or the last sync of an act, needs its snapshot no more;   *)
(* an act syncs once more from it.                                          *)
Evaluated(local) ==
  [local EXCEPT !.pc = "list", !.evaluations = Evaluations(local.snapshot),
                !.snapshot = IF local.act = NoAct THEN NoSnapshot ELSE @]

BeginStatus ==
  /\ At(Poller, "idle")
  /\ Goto(Poller, Evaluated([Idle EXCEPT !.snapshot = Snapshot]))
  /\ UNCHANGED <<Environment, alerts, attempts, ids, acts>>

(* An operator acts on an alert, or only reads the status: a read that may  *)
(* stop anywhere and never go on, as every call does in a crash.            *)
BeginAct(c, act) ==
  /\ c \in Operator /\ At(c, "idle") /\ acts < MaxActs
  /\ act # NoAct => alerts[act.key] # NoAlert /\ act.id = alerts[act.key].id
  /\ acts' = acts + 1
  /\ Goto(c, Evaluated([Idle EXCEPT !.snapshot = Snapshot, !.act = act]))
  /\ UNCHANGED <<Environment, alerts, attempts, ids>>

SyncAgain(c) ==
  /\ At(c, "again")
  /\ Goto(c, Evaluated(call[c]))
  /\ UNCHANGED <<Environment, alerts, attempts, ids, acts>>

(* Where a sync goes on: the next alert, the operator's act, or nowhere.    *)
Settling(local) ==
  IF local.evaluations # {} \/ local.clear # {} THEN [local EXCEPT !.pc = "settle"]
  ELSE IF local.act # NoAct THEN [local EXCEPT !.pc = "load"] ELSE Idle

(* ... and then lists the stored alerts; those without an evaluation and    *)
(* not resolved are to be resolved.                                         *)
ListAlerts(c) ==
  /\ At(c, "list")
  /\ LET wanted == {e.key : e \in call[c].evaluations}
         clear == {key \in DedupeKey \ wanted : alerts[key].status \in {"open", "acknowledged"}}
     IN  Goto(c, Settling([call[c] EXCEPT !.clear = clear,
                   !.listed = [key \in DedupeKey |->
                                 IF key \in wanted \cup clear THEN alerts[key] ELSE NoAlert]]))
  /\ UNCHANGED <<Environment, alerts, attempts, ids, acts>>

-----------------------------------------------------------------------------
(* Mutant: the condition's change reopens an acknowledged alert. *)
CurrentStatusUnlessChanged(existing, e) ==
  IF existing.status = "acknowledged" /\ existing.signature = e.signature THEN "acknowledged" ELSE "open"

(* persistActiveAlert, from the listed copy of the alert *)
CurrentStatus(existing, e) == IF existing.status = "acknowledged" THEN "acknowledged" ELSE "open"

(* Mutant: a resolved alert whose condition looks the same is left alone. *)
UnchangedWhenResolved(existing, e) ==
  /\ existing # NoAlert
  /\ existing.signature = e.signature /\ existing.severity = e.severity
  /\ clock - existing.seen < QuietWindow

Unchanged(existing, e) ==
  /\ existing.status \in {"open", "acknowledged"}
  /\ existing.signature = e.signature /\ existing.severity = e.severity
  /\ clock - existing.seen < QuietWindow

(* The event a save is announced with; "none" for an update that is not of  *)
(* the repeated failures                                                    *)
Announcement(existing, e) ==
  LET opened == existing.status \in {"none", "resolved"}
      escalated == existing.severity # "critical" /\ e.severity = "critical"
  IN  IF e.key = RepeatKey /\ ~(~opened /\ escalated) THEN "alert_repeated_failure_summary"
      ELSE IF opened THEN "alert_opened"
      ELSE IF escalated THEN "alert_escalated" ELSE "none"

Persisted(existing, e, id) ==
  [id |-> id, status |-> CurrentStatus(existing, e), severity |-> e.severity,
   signature |-> e.signature, seen |-> clock]

(* The rest of the call once the alert is stored: the notification, if any; *)
(* dispatch reads the earlier delivery attempts of the alert's id (in the   *)
(* step of the save), and posts after an await.                             *)
Announce(c, local, alert, event, then) ==
  Goto(c, IF event = "none" THEN Settling(local)
          ELSE [local EXCEPT !.pc = "deliver", !.then = then, !.read = attempts[alert.id],
                  !.notice = [alert |-> alert, event |-> event]])

(* The evaluations are persisted first, the request's before the repeated   *)
(* failures'.  A save takes the place of whatever has the dedupe key by     *)
(* now, its id included - or the database refuses to replace an id that     *)
(* events refer to, and the call throws.                                    *)
Replaces(key, id) == alerts[key].id \notin {0, id}
Refused(c) ==
  /\ Goto(c, Idle)
  /\ UNCHANGED <<alerts, ids, attempts>>

Persist(c) ==
  /\ At(c, "settle") /\ call[c].evaluations # {}
  /\ LET e == CHOOSE e \in call[c].evaluations : \A f \in call[c].evaluations : f.key <= e.key
         existing == call[c].listed[e.key]
         local == [call[c] EXCEPT !.evaluations = @ \ {e}, !.listed[e.key] = NoAlert]
         id == IF existing = NoAlert THEN ids + 1 ELSE existing.id
         alert == Persisted(existing, e, id)
     IN  \/ /\ Unchanged(existing, e)
            /\ Goto(c, Settling(local))
            /\ UNCHANGED <<alerts, ids, attempts>>
         \/ /\ ~Unchanged(existing, e) /\ id \in AlertId
            /\ alerts' = [alerts EXCEPT ![e.key] = alert]
            /\ ids' = IF existing = NoAlert THEN id ELSE ids
            /\ Announce(c, local, alert, Announcement(existing, e), "settle")
            /\ UNCHANGED attempts
         \/ ~Unchanged(existing, e) /\ Replaces(e.key, id) /\ Refused(c)
  /\ UNCHANGED <<Environment, acts>>

(* resolveAlert *)
ResolvedFrom(existing) == [existing EXCEPT !.status = "resolved"]

Clear(c) ==
  /\ At(c, "settle") /\ call[c].evaluations = {}
  /\ \E key \in call[c].clear :
       LET alert == ResolvedFrom(call[c].listed[key])
       IN  \/ /\ alerts' = [alerts EXCEPT ![key] = alert]
              /\ Announce(c, [call[c] EXCEPT !.clear = @ \ {key}, !.listed[key] = NoAlert], alert, "alert_resolved", "settle")
              /\ UNCHANGED <<attempts, ids>>
           \/ Replaces(key, alert.id) /\ Refused(c)
  /\ UNCHANGED <<Environment, acts>>

-----------------------------------------------------------------------------
(* acknowledge and resolve load the alert (by id: an id that another        *)
(* opening replaced is gone); a resolution evaluates the condition again.   *)
Load(c) ==
  /\ At(c, "load")
  /\ LET key == call[c].act.key
         existing == alerts[key]
         refused == \/ existing.id # call[c].act.id
                    \/ call[c].act.what = "acknowledge" /\ existing.status = "resolved"
                    \/ call[c].act.what = "resolve"
                       /\ \/ existing.status = "resolved"
                          \/ \E e \in Evaluations(call[c].snapshot) : e.key = key
     IN  Goto(c, IF refused THEN Idle
                 ELSE [call[c] EXCEPT !.pc = "act", !.listed[key] = existing])
  /\ UNCHANGED <<Environment, alerts, attempts, ids, acts>>

(* The alert is saved from that copy, announced, and everything synced once *)
(* more from the call's snapshot.                                           *)
Act(c) ==
  /\ At(c, "act")
  /\ LET key == call[c].act.key
         existing == call[c].listed[key]
         acknowledged == call[c].act.what = "acknowledge"
         alert == IF acknowledged THEN [existing EXCEPT !.status = "acknowledged"]
                  ELSE ResolvedFrom(existing)
     IN  \/ /\ alerts' = [alerts EXCEPT ![key] = alert]
            /\ Announce(c, [call[c] EXCEPT !.act = NoAct, !.listed[key] = NoAlert], alert,
                        IF acknowledged THEN "alert_acknowledged" ELSE "alert_resolved", "again")
            /\ UNCHANGED <<attempts, ids>>
         \/ Replaces(key, alert.id) /\ Refused(c)
  /\ UNCHANGED <<Environment, acts>>

-----------------------------------------------------------------------------
(* Mutant: only an opening and an acknowledgement are held back by the      *)
(* cooldown.                                                                *)
CoolingPerEvent(notice, previous) ==
  notice.event \in {"alert_opened", "alert_acknowledged"}
    /\ previous.at # Never /\ clock - previous.at < Cooldown

(* resolveNotificationRoutes: any earlier attempt starts the cooldown *)
Cooling(notice, previous) ==
  notice.event # "alert_resolved" /\ previous.at # Never /\ clock - previous.at < Cooldown

Skipped(notice, previous, config) ==
  \/ ~config.enabled
  \/ ~config.inScope
  \/ notice.event # "alert_resolved" /\ notice.alert.severity # "critical" /\ ~config.allowWarning
  \/ notice.event = "alert_acknowledged"
  \/ notice.event = "alert_repeated_failure_summary" /\ ~config.repeatedFailureSummaryEnabled
  \/ notice.event = "alert_resolved" /\ ~config.recoveryEnabled /\ ~previous.sent

Route(notice, previous, config) ==
  IF Cooling(notice, previous) THEN "suppressed"
  ELSE IF Skipped(notice, previous, config) THEN "skipped"
  ELSE IF config.malformed THEN "failed" ELSE "send"

(* Per destination: suppressed, skipped, or the payload posted              *)
(* once: a webhook that refuses or times out is not tried again.  (The      *)
(* deliveries of one dispatch are one step.)                                *)
Deliver(c) ==
  /\ At(c, "deliver")
  /\ LET notice == call[c].notice
         route == [d \in Destination |-> Route(notice, call[c].read[d], Config(d))]
         posted == {d \in Destination : route[d] = "send"}
         counted == notice.event # "alert_resolved"
     IN  \E works \in SUBSET posted :
           /\ attempts' = [attempts EXCEPT ![notice.alert.id] =
                [d \in Destination |->
                   [at |-> clock, sent |-> d \in works,
                    last |-> IF d \in works /\ counted THEN clock ELSE @[d].last]]]
           /\ LET local == [call[c] EXCEPT !.then = "settle", !.notice = NoNotice,
                                          !.read = Idle.read]
              IN  Goto(c, IF call[c].then = "again" THEN [local EXCEPT !.pc = "again"]
                          ELSE Settling(local))
  /\ UNCHANGED <<Environment, alerts, ids, acts>>

(* The database refuses the event of an alert whose id was replaced: the    *)
(* call throws, whether or not a payload has been posted.                   *)
DeliverRefused(c) ==
  /\ At(c, "deliver")
  /\ \A key \in DedupeKey : alerts[key].id # call[c].notice.alert.id
  /\ Refused(c)
  /\ UNCHANGED <<Environment, acts>>

-----------------------------------------------------------------------------
Rest == <<alerts, attempts, ids, call, acts>>

(* A restart is asked for, or refused, and recorded. *)
Ask(status) ==
  /\ Len(requests) < MaxRequests
  /\ status # IF Configured THEN "unconfigured" ELSE "requested"
  /\ requests' = Append(requests, [status |-> status, deadline |-> FALSE, at |-> clock])
  /\ worker' = "silent"
  /\ UNCHANGED <<clock, Rest>>

(* The latest request fails at the hook or at its deadline, or converges.   *)
Settle(status, deadline) ==
  /\ requests # <<>>
  /\ LET last == Len(requests)
     IN  /\ requests[last].status = "requested"
         /\ status = "converged" => worker = "applied"
         /\ deadline => status = "failed" /\ clock >= requests[last].at + Timeout
         /\ requests' = [requests EXCEPT ![last] =
              [status |-> status, deadline |-> deadline, at |-> IF status = "failed" THEN clock ELSE 0]]
  /\ UNCHANGED <<worker, clock, Rest>>

(* The worker's heartbeat comes back, then reports the requested version. *)
Show ==
  /\ requests # <<>> /\ requests[Len(requests)].status = "requested" /\ worker # "applied"
  /\ worker' = IF worker = "silent" THEN "beating" ELSE "applied"
  /\ UNCHANGED <<requests, clock, Rest>>

(* The bound: time stands still at MaxClock. *)
Tick ==
  /\ clock < MaxClock
  /\ clock' = clock + 1
  /\ UNCHANGED <<requests, worker, Rest>>

CallStep(c) ==
  ListAlerts(c) \/ Persist(c) \/ Clear(c) \/ Deliver(c) \/ DeliverRefused(c)

ActStep(c) == Load(c) \/ Act(c) \/ SyncAgain(c)

Next ==
  \/ BeginStatus
  \/ \E c \in Operator, act \in Acts : BeginAct(c, act)
  \/ \E c \in Call : CallStep(c)
  \/ \E c \in Operator : ActStep(c)
  \/ \E status \in {"requested", "rejected", "unconfigured"} : Ask(status)
  \/ \E status \in {"failed", "converged"}, deadline \in BOOLEAN : Settle(status, deadline)
  \/ Show \/ Tick

(* The status is read again and again; nothing is assumed of the operators, *)
(* the requests, the worker, or time.                                       *)
Fairness == WF_vars(BeginStatus) /\ WF_vars(CallStep(Poller))

Spec == Init /\ [][Next]_vars
FairSpec == Spec /\ Fairness

-----------------------------------------------------------------------------
(* Two notifications about a stored alert reach a destination at least its  *)
(* cooldown apart, whatever their kinds and however many calls dispatch -   *)
(* unless the second call read the deliveries before the first recorded     *)
(* its own.                                                                 *)
SendsSpaced ==
  [][\A c \in Call, d \in Destination :
       LET notice == call[c].notice
       IN  /\ At(c, "deliver") /\ call'[c] # call[c] /\ notice.event # "alert_resolved"
           /\ \E key \in DedupeKey : alerts[key].id = notice.alert.id
           /\ attempts'[notice.alert.id][d].sent
           => clock >= call[c].read[d].last + Cooldown]_vars

(* An acknowledgement stands until its alert is resolved, through every     *)
(* change of the condition and its severity: only a call that had listed    *)
(* the alert before, and so did not know, turns it back to open.            *)
AckSticks ==
  [][\A key \in DedupeKey :
       alerts[key].status = "acknowledged" /\ alerts'[key].status = "open"
       => \E c \in Call : call'[c] # call[c] /\ call[c].listed[key].status # "acknowledged"]_vars

(* Whatever stale calls and crashes leave in the table, in the end an alert *)
(* is unresolved exactly while its condition holds.                         *)
Wanted == {e.key : e \in Evaluations(Snapshot)}
AlertsFollow ==
  <>[](\A key \in DedupeKey : alerts[key].status \in {"open", "acknowledged"} <=> key \in Wanted)
=============================================================================
