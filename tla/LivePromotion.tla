---------------------------- MODULE LivePromotion ----------------------------
(***************************************************************************)
(* The live promotion workflow: the routes of server/routes/control.ts     *)
(* that request, approve, deny, apply and roll back a promotion, with the  *)
(* gate and the roles of control/control-governance.ts, next to the        *)
(* rehearsals the gate asks for.  A handler is a sequence of awaits; the   *)
(* operators' handlers interleave, and each saves the copy it loaded.      *)
(***************************************************************************)
EXTENDS Rehearsal

CONSTANTS
  Operator,   \* the operators' sessions
  Role,       \* per operator: viewer, operator or admin
  Id,         \* ids of promotion records, taken from the requests' headers
  PaperMode   \* the mode the system starts in

Live == {"live_limited", "live"}
Modes == Live \cup {PaperMode}

ASSUME PromotionConstants ==
  /\ Role \in [Operator -> {"viewer", "operator", "admin"}]
  /\ PaperMode \notin Live

VARIABLES
  records,    \* the promotion records
  requested,  \* the mode of the requested configuration, in the control service
  applied,    \* the mode of the applied one, as the control service believes
  restart,    \* the configuration waits for a restart
  kill,       \* the kill switch
  health,     \* heartbeat, alerts, runtime and readiness, as far as the gate tells
  call,       \* per operator: the handler under way
  approved,   \* history: the modes whose promotion was approved
  overtaken   \* history: the handlers past their last check when the kill came

promotionVars == <<records, requested, applied, restart, kill, health, call, approved, overtaken>>
vars == <<clock, work, rehearsalVars, promotionVars>>

Status == {"pending", "blocked", "approved", "denied", "applied", "rolled_back"}
Promotion == [target : Live \cup {"none"}, previous : Modes \cup {"none"},
              status : Status \cup {"none"}]
NoRecord == [target |-> "none", previous |-> "none", status |-> "none"]
Kind == {"request", "approve", "deny", "apply", "rollback"}
Call == [pc : {"idle", "load", "gate", "set", "save"}, kind : Kind \cup {"none"},
         id : Id \cup {"none"}, copy : Promotion, next : Status \cup {"none"}]
Idle == [pc |-> "idle", kind |-> "none", id |-> "none", copy |-> NoRecord, next |-> "none"]

-----------------------------------------------------------------------------
(* requiredRoleForControlAction and canRolePerformControlAction *)
Rank == [viewer |-> 0, operator |-> 1, admin |-> 2]
RequiredRole(action) == IF action \in {"pause", "resume"} THEN "operator" ELSE "admin"
MayPerform(o, action) == Rank[Role[o]] >= Rank[RequiredRole(action)]

(* Mutant: the gate does not look at the kill switch. *)
GateAllowsKilled(target) ==
  /\ ~restart
  /\ health = "healthy" \/ (health = "degraded" /\ target = "live_limited")
  /\ GateStatus(evidence, clock) = "fresh"

(* evaluateLivePromotionGate: `broken` is what blocks any promotion (a      *)
(* stale heartbeat, a runtime error, an active restart alert or restart),   *)
(* `degraded` what blocks live alone (readiness short of healthy).          *)
GateAllows(target) ==
  /\ ~kill /\ ~restart
  /\ health = "healthy" \/ (health = "degraded" /\ target = "live_limited")
  /\ GateStatus(evidence, clock) = "fresh"

At(o, pc) == call[o].pc = pc
Goto(o, local) == call' = [call EXCEPT ![o] = local]

(* What a handler's own step leaves alone. *)
Elsewhere == UNCHANGED <<clock, work, rehearsalVars>>
Environment == UNCHANGED <<kill, health, overtaken>>

-----------------------------------------------------------------------------
(* The hook checks the session's role and denyWhenKillSwitchActive the kill *)
(* switch, once, before the handler's first await.                          *)
Admitted(o, kind) ==
  /\ At(o, "idle") /\ MayPerform(o, kind) /\ ~kill
  /\ work < MaxWork /\ work' = work + 1

BeginRequest(o, id, target) ==
  /\ Admitted(o, "request")
  /\ Goto(o, [Idle EXCEPT !.pc = "gate", !.kind = "request", !.id = id,
                          !.copy.target = target])
  /\ UNCHANGED <<clock, rehearsalVars, records, requested, applied, restart, approved>>
  /\ Environment

BeginDecision(o, kind, id) ==
  /\ Admitted(o, kind)
  /\ kind \in Kind \ {"request"} /\ records[id] # NoRecord
  /\ Goto(o, [Idle EXCEPT !.pc = "load", !.kind = kind, !.id = id])
  /\ UNCHANGED <<clock, rehearsalVars, records, requested, applied, restart, approved>>
  /\ Environment

(* Mutant: whatever the record's status, it may be applied or rolled back. *)
RefusedNever(kind, record) == FALSE

(* The statuses looked at: approve and deny take a record in any. *)
Refused(kind, record) ==
  \/ kind = "apply" /\ record.status # "approved"
  \/ kind = "rollback" /\ record.status # "applied"

Load(o) ==
  /\ At(o, "load")
  /\ LET record == records[call[o].id]
         kind == call[o].kind
         loaded == [call[o] EXCEPT !.copy = record]
     IN  Goto(o, IF Refused(kind, record) THEN Idle
                 ELSE CASE kind = "deny"     -> [loaded EXCEPT !.pc = "save", !.next = "denied"]
                        [] kind = "rollback" -> [loaded EXCEPT !.pc = "set"]
                        [] OTHER             -> [loaded EXCEPT !.pc = "gate"])
  /\ UNCHANGED <<records, requested, applied, restart, approved>>
  /\ Elsewhere /\ Environment

(* The snapshot and the latest evidence are read, and the gate evaluated. A *)
(* request records the applied mode as the one to go back to.               *)
Gate(o) ==
  /\ At(o, "gate")
  /\ LET kind == call[o].kind
         allowed == GateAllows(call[o].copy.target)
         seen == IF kind = "request" THEN [call[o] EXCEPT !.copy.previous = applied]
                 ELSE call[o]
     IN  Goto(o, IF ~allowed THEN [seen EXCEPT !.pc = "save", !.next = "blocked"]
                 ELSE IF kind = "apply" THEN [seen EXCEPT !.pc = "set"]
                 ELSE [seen EXCEPT !.pc = "save",
                                   !.next = IF kind = "request" THEN "pending" ELSE "approved"])
  /\ UNCHANGED <<records, requested, applied, restart, approved>>
  /\ Elsewhere /\ Environment

(* setMode: a new configuration is requested; a mode always needs a restart. *)
SetMode(o) ==
  /\ At(o, "set")
  /\ requested' = IF call[o].kind = "apply" THEN call[o].copy.target ELSE call[o].copy.previous
  /\ restart' = TRUE
  /\ Goto(o, [call[o] EXCEPT !.pc = "save",
                             !.next = IF call[o].kind = "apply" THEN "applied" ELSE "rolled_back"])
  /\ UNCHANGED <<records, applied, approved, clock, work, rehearsalVars, kill, health>>
  /\ overtaken' = overtaken \ {o}

(* The handler's copy is saved, whatever the record has become. *)
Save(o) ==
  /\ At(o, "save")
  /\ LET copy == [call[o].copy EXCEPT !.status = call[o].next]
     IN  /\ records' = [records EXCEPT ![call[o].id] = copy]
         /\ approved' = IF call[o].next = "approved" THEN approved \cup {copy.target}
                        ELSE approved
  /\ Goto(o, Idle)
  /\ UNCHANGED <<requested, applied, restart>>
  /\ Elsewhere /\ Environment

(* An await of the handler rejects, or the operator's request is cut off    *)
(* with the process: what was done stays done.                              *)
Abandon(o) ==
  /\ ~At(o, "idle") /\ work < MaxWork /\ work' = work + 1
  /\ Goto(o, Idle)
  /\ overtaken' = overtaken \ {o}
  /\ UNCHANGED <<records, requested, applied, restart, approved, clock, rehearsalVars,
                 kill, health>>

-----------------------------------------------------------------------------
(* An overlay mutation of the manager takes the requested configuration as  *)
(* applied and forgets the restart; so does a new start of the control      *)
(* service after the worker's.                                              *)
Settles == applied' = requested /\ restart' = FALSE

Overlay ==
  /\ restart /\ ~kill
  /\ \E o \in Operator : MayPerform(o, "pause")
  /\ Settles
  /\ UNCHANGED <<records, requested, kill, health, call, approved, overtaken>>
  /\ Elsewhere

(* /control/mode takes any mode but the live ones, straight to the manager. *)
LeaveLive ==
  /\ requested \in Live /\ ~kill /\ work < MaxWork /\ work' = work + 1
  /\ \E o \in Operator : MayPerform(o, "mode_change")
  /\ requested' = PaperMode /\ restart' = TRUE
  /\ UNCHANGED <<records, applied, kill, health, call, approved, overtaken, clock, rehearsalVars>>

(* The handlers that no check is left for *)
PastChecks ==
  {o \in Operator : At(o, "set") \/ (At(o, "load") /\ call[o].kind = "rollback")}

EmergencyStop ==
  /\ ~kill /\ work < MaxWork /\ work' = work + 1
  /\ kill' = TRUE /\ overtaken' = PastChecks
  /\ Settles
  /\ UNCHANGED <<records, requested, health, call, approved, clock, rehearsalVars>>

ResetKill ==
  /\ kill /\ kill' = FALSE /\ overtaken' = {}
  /\ Settles
  /\ UNCHANGED <<records, requested, health, call, approved>>
  /\ Elsewhere

(* The worker and its runtime get better or worse. *)
HealthChanges(h) ==
  /\ h # health /\ work < MaxWork /\ work' = work + 1
  /\ health' = h
  /\ UNCHANGED <<records, requested, applied, restart, kill, call, approved, overtaken, clock,
                 rehearsalVars>>

-----------------------------------------------------------------------------
Init ==
  /\ RehearsalInit
  /\ records = [id \in Id |-> NoRecord]
  /\ requested = PaperMode /\ applied = PaperMode /\ restart = FALSE
  /\ kill = FALSE /\ health = "healthy"
  /\ call = [o \in Operator |-> Idle]
  /\ approved = {} /\ overtaken = {}

HandlerStep(o) == Load(o) \/ Gate(o) \/ SetMode(o) \/ Save(o)

PromotionNext ==
  \/ \E o \in Operator, id \in Id :
       \/ \E target \in Live : BeginRequest(o, id, target)
       \/ \E kind \in Kind : BeginDecision(o, kind, id)
  \/ \E o \in Operator : HandlerStep(o) \/ Abandon(o)
  \/ Overlay \/ LeaveLive \/ EmergencyStop \/ ResetKill
  \/ \E h \in {"healthy", "degraded", "broken"} : HealthChanges(h)

Next == (RehearsalNext /\ UNCHANGED promotionVars) \/ PromotionNext

Spec == Init /\ [][Next]_vars

-----------------------------------------------------------------------------
(* Every variable of the workflow has its type. *)
PromotionTypeOK ==
  /\ records \in [Id -> Promotion]
  /\ requested \in Modes \cup {"none"} /\ applied \in Modes \cup {"none"}
  /\ restart \in BOOLEAN /\ kill \in BOOLEAN
  /\ health \in {"healthy", "degraded", "broken"}
  /\ call \in [Operator -> Call]
  /\ \A o \in Operator : ~At(o, "idle") => call[o].id \in Id
  /\ approved \subseteq Live \cup {"none"} /\ overtaken \subseteq Operator

(* However the handlers of several operators interleave, and whatever       *)
(* records they overwrite, the requested mode is live only after a          *)
(* promotion to that mode was approved under a passing gate.                *)
LiveWasApproved == requested \in Live => requested \in approved

(* While the kill switch is on, the mode changes only at the hand of the    *)
(* handlers that were past their last check when it came, and once for each.*)
KillBoundsPromotions ==
  [][kill /\ requested' # requested => \E o \in overtaken : call'[o] # call[o]]_vars
=============================================================================
