---------------------------- MODULE WorkerRestart ----------------------------
(***************************************************************************)
(* Restart requests of the control service                                 *)
(* (bot/src/control/worker-restart-service.ts): calls of requestRestart    *)
(* and of loadSnapshot interleave at their awaits over the table of        *)
(* worker_restart_requests, the deploy hook restarts the worker or does    *)
(* not, and the worker reports what it applied.                            *)
(*                                                                         *)
(* The configuration is what RuntimeConfig shows of it: a change that      *)
(* needs a restart raises a flag in the control service's memory and in    *)
(* the record; the worker's start clears the record's, an overlay mutation *)
(* (pause, resume, ...) or a start of the control service clears memory.   *)
(*                                                                         *)
(* Times: `clock` counts minutes; `stamp` counts requests and orders a     *)
(* heartbeat and a requestedAt that fall into one minute.                  *)
(***************************************************************************)
EXTENDS Integers, FiniteSets

CONSTANTS
  Operator,      \* the slots for calls of POST /control/restart-worker
  Poller,        \* the slot of the calls that only read the status
  Key,           \* idempotency keys
  NoKey,         \* none given
  Configured,    \* a deploy hook is configured
  Cooldown, Timeout,  \* cooldownMs, convergenceTimeoutMs
  MaxClock, MaxRequests, MaxChanges, MaxBoots   \* bounds of the model

ASSUME ModelAssumption ==
  /\ Poller \notin Operator /\ NoKey \notin Key
  /\ Cooldown \in Nat /\ Timeout \in Nat /\ Configured \in BOOLEAN
  /\ {MaxClock, MaxRequests, MaxChanges, MaxBoots} \subseteq Nat

Call == Operator \cup {Poller}

VARIABLES
  requests,   \* the table: records with distinct stamps
  memory,     \* the control service's view of the configuration
  row,        \* the same in the database
  worker,     \* what the worker reports: its version, and the stamp at its heartbeat
  call,       \* per call: where it is and what it has read
  clock, stamp,
  changes, boots,   \* counters of the model
  hooks       \* history: the calls of the deploy hook

vars == <<requests, memory, row, worker, call, clock, stamp, changes, boots, hooks>>

Pending == {"requested", "dispatched"}
Refused == {"rejected", "cooldown", "unconfigured"}
Status == Pending \cup Refused \cup {"failed", "converged", "none"}

Config == [requires : BOOLEAN, requested : Nat]
Record == [stamp : Nat, key : Key \cup {NoKey}, status : Status, at : Nat, target : Nat]
CallState ==
  [pc : {"idle", "observe", "reconcile", "lookup", "decide", "dispatch", "answer"},
   asks : BOOLEAN, key : Key \cup {NoKey}, config : Config, pending : BOOLEAN,
   write : Record, knew : Nat]
Hook == [stamp : Nat, key : Key \cup {NoKey}, asked : Nat, at : Nat, knew : Nat]
NoRecord == [stamp |-> 0, key |-> NoKey, status |-> "none", at |-> 0, target |-> 0]

(* loadLatest: the latest requestedAt *)
Latest ==
  IF requests = {} THEN NoRecord
  ELSE CHOOSE r \in requests : \A other \in requests : other.stamp <= r.stamp

(* Mutant: the index on the request key is not unique. *)
SaveUnchecked(r) ==
  /\ requests' = {other \in requests : other.stamp # r.stamp} \cup {r}
  /\ TRUE

KeyTaken(r) == \E other \in requests : other.stamp # r.stamp /\ other.key = r.key /\ r.key # NoKey

(* save: insert or overwrite by id; the unique index on the request key     *)
(* refuses a second id, and the call fails.                                 *)
Save(r) ==
  /\ ~KeyTaken(r)
  /\ requests' = {other \in requests : other.stamp # r.stamp} \cup {r}

-----------------------------------------------------------------------------
NoView == [requires |-> FALSE, requested |-> 0]

(* A call: what it asks for; the view its snapshot gave it; the record it   *)
(* is about to save; and, for a history, the latest record it knew of.      *)
Idle == [pc |-> "idle", asks |-> FALSE, key |-> NoKey, config |-> NoView, pending |-> FALSE,
         write |-> NoRecord, knew |-> 0]

Init ==
  /\ requests = {} /\ hooks = {}
  /\ memory = NoView /\ row = NoView
  /\ worker = [applied |-> 0, beat |-> 0]
  /\ call = [c \in Call |-> Idle]
  /\ clock = 0 /\ stamp = 0 /\ changes = 0 /\ boots = 0

At(c, pc) == call[c].pc = pc
Step(c, fields) == call' = [call EXCEPT ![c] = fields]

(* The rest of a call once its answer is known: loadSnapshot again. *)
Answering == [Idle EXCEPT !.pc = "observe"]

(* A call begins. *)
BeginRequest(c, key) ==
  /\ c \in Operator /\ At(c, "idle")
  /\ stamp + Cardinality({o \in Operator : call[o].asks}) < MaxRequests
  /\ Step(c, [Idle EXCEPT !.pc = "observe", !.asks = TRUE, !.key = key])
  /\ UNCHANGED <<requests, memory, row, worker, clock, stamp, changes, boots, hooks>>

BeginStatus ==
  /\ At(Poller, "idle")
  /\ Step(Poller, Answering)
  /\ UNCHANGED <<requests, memory, row, worker, clock, stamp, changes, boots, hooks>>

-----------------------------------------------------------------------------
(* Mutant: any report of the version counts, also one from before. *)
HasConvergedByVersion(r) == ~memory.requires /\ worker.applied = r.target

HasConverged(r) ==
  ~memory.requires /\ worker.applied = r.target /\ worker.beat >= r.stamp

(* Mutant: only convergence ends a request. *)
ReconciledUntimed(r) ==
  IF r.status \in Pending /\ HasConverged(r)
  THEN [r EXCEPT !.status = "converged"] ELSE r

(* reconcileLatestRequest: what the record becomes *)
Reconciled(r) ==
  IF r.status \in Pending /\ HasConverged(r)
  THEN [r EXCEPT !.status = "converged"]
  ELSE IF r.status \in Pending /\ clock >= r.at + Timeout
  THEN [r EXCEPT !.status = "failed"]
  ELSE r


(* loadSnapshot reads the configuration, the worker's visibility and the    *)
(* latest request.  A record that this ends is written after an await ...   *)
Observe(c) ==
  /\ At(c, "observe")
  /\ LET after == Reconciled(Latest)
         seen == [call[c] EXCEPT !.config = memory, !.pending = after.status \in Pending]
     IN  Step(c, CASE after # Latest -> [seen EXCEPT !.pc = "reconcile", !.write = after]
                   [] after = Latest /\ call[c].asks -> [seen EXCEPT !.pc = "lookup"]
                   [] after = Latest /\ ~call[c].asks -> Idle)
  /\ UNCHANGED <<requests, memory, row, worker, clock, stamp, changes, boots, hooks>>

(* ... over whatever the table holds by then.                               *)
Reconcile(c) ==
  /\ At(c, "reconcile")
  /\ Save(call[c].write)
  /\ Step(c, IF call[c].asks THEN [call[c] EXCEPT !.pc = "lookup", !.write = NoRecord] ELSE Idle)
  /\ UNCHANGED <<memory, row, worker, clock, stamp, changes, boots, hooks>>

-----------------------------------------------------------------------------
(* requestRestart after its snapshot *)

(* The status of the new record.  A pending request rejects it unless it    *)
(* has the same key.                                                        *)
Verdict(local) ==
  IF \/ Latest.status \in Pending /\ (local.key = NoKey \/ Latest.key # local.key)
     \/ ~local.config.requires /\ ~local.pending THEN "rejected"
  ELSE IF /\ Latest # NoRecord /\ Latest.status \notin Pending
          /\ clock < Latest.at + Cooldown THEN "cooldown"
  ELSE IF Configured THEN "requested" ELSE "unconfigured"

(* A record with the key answers the call; otherwise requestedAt is taken,  *)
(* the latest request read, and the new record written after an await.  The *)
(* bound: only while the new request's deadline can still pass.             *)
Lookup(c) ==
  /\ At(c, "lookup") /\ clock + Timeout <= MaxClock
  /\ IF call[c].key # NoKey /\ \E r \in requests : r.key = call[c].key
     THEN Step(c, Answering) /\ UNCHANGED stamp
     ELSE /\ stamp' = stamp + 1
          /\ Step(c, [Idle EXCEPT !.pc = "decide", !.asks = TRUE, !.key = call[c].key,
                        !.knew = Latest.stamp,
                        !.write = [stamp |-> stamp + 1, key |-> call[c].key,
                                   status |-> Verdict(call[c]), at |-> clock,
                                   target |-> call[c].config.requested]])
  /\ UNCHANGED <<requests, memory, row, worker, clock, changes, boots, hooks>>

(* The record is saved; a key that another call took in the meantime fails  *)
(* the call.                                                                *)
Decide(c) ==
  /\ At(c, "decide")
  /\ \/ /\ Save(call[c].write)
        /\ Step(c, IF call[c].write.status \in Refused THEN Answering
                   ELSE [call[c] EXCEPT !.pc = "dispatch"])
     \/ KeyTaken(call[c].write) /\ Step(c, Idle) /\ UNCHANGED requests
  /\ UNCHANGED <<memory, row, worker, clock, stamp, changes, boots, hooks>>

(* The deploy hook is called ... *)
Dispatch(c) ==
  /\ At(c, "dispatch")
  /\ hooks' = hooks \cup {[stamp |-> call[c].write.stamp, key |-> call[c].key,
                          asked |-> call[c].write.at, at |-> clock, knew |-> call[c].knew]}
  /\ Step(c, [call[c] EXCEPT !.pc = "answer", !.knew = 0])
  /\ UNCHANGED <<requests, memory, row, worker, clock, stamp, changes, boots>>

(* ... and answers, refuses or fails, at some time or never (the fetch has  *)
(* no timeout); the whole record is written from the call's copy of it.     *)
HookAnswers(c) ==
  /\ At(c, "answer")
  /\ \E status \in {"dispatched", "failed"} : Save([call[c].write EXCEPT !.status = status])
  /\ Step(c, Answering)
  /\ UNCHANGED <<memory, row, worker, clock, stamp, changes, boots, hooks>>

-----------------------------------------------------------------------------
(* A configuration change that needs a restart *)
Change ==
  /\ changes < MaxChanges
  /\ changes' = changes + 1
  /\ memory' = [memory EXCEPT !.requires = TRUE, !.requested = @ + 1]
  /\ row' = memory'
  /\ UNCHANGED <<requests, worker, call, clock, stamp, boots, hooks>>

(* A pause, resume or kill-switch mutation takes the requested version as   *)
(* applied and drops the flag.                                              *)
Overlay ==
  /\ memory.requires
  /\ memory' = [memory EXCEPT !.requires = FALSE]
  /\ row' = memory'
  /\ UNCHANGED <<requests, worker, call, clock, stamp, changes, boots, hooks>>

(* The worker's process starts, redeployed or after a crash, and applies    *)
(* the record.                                                              *)
BootWorker ==
  /\ boots < MaxBoots
  /\ boots' = boots + 1
  /\ worker' = [applied |-> row.requested, beat |-> stamp]
  /\ row' = [row EXCEPT !.requires = FALSE]
  /\ UNCHANGED <<requests, memory, call, clock, stamp, changes, hooks>>

Heartbeat ==
  /\ worker.beat # stamp
  /\ worker' = [worker EXCEPT !.beat = stamp]
  /\ UNCHANGED <<requests, memory, row, call, clock, stamp, changes, boots, hooks>>

(* The control service restarts: its calls end where they are.              *)
BootControl ==
  /\ boots < MaxBoots
  /\ boots' = boots + 1
  /\ memory' = row
  /\ call' = [c \in Call |-> Idle]
  /\ UNCHANGED <<requests, row, worker, clock, stamp, changes, hooks>>

(* The bound: time stands still at MaxClock. *)
Tick ==
  /\ clock < MaxClock
  /\ clock' = clock + 1
  /\ UNCHANGED <<requests, memory, row, worker, call, stamp, changes, boots, hooks>>

SnapshotStep(c) == Observe(c) \/ Reconcile(c)
RequestStep(c) == Lookup(c) \/ Decide(c) \/ Dispatch(c) \/ HookAnswers(c)

Next ==
  \/ \E c \in Operator, key \in Key \cup {NoKey} : BeginRequest(c, key)
  \/ BeginStatus
  \/ \E c \in Call : SnapshotStep(c)
  \/ \E c \in Operator : RequestStep(c)
  \/ Change \/ Overlay \/ BootWorker \/ Heartbeat \/ BootControl \/ Tick

(* The dashboard reads the status again and again, and time passes; nothing *)
(* is assumed of the operators, the deploy hook, or the worker.             *)
Fairness == WF_vars(Tick) /\ WF_vars(BeginStatus) /\ WF_vars(SnapshotStep(Poller))

Spec == Init /\ [][Next]_vars
FairSpec == Spec /\ Fairness

-----------------------------------------------------------------------------
(* Every variable has its type, and the table has one record per id. *)
TypeOK ==
  /\ requests \subseteq {r \in Record : r.stamp \in 1..stamp}
  /\ \A r, s \in requests : r.stamp = s.stamp => r = s
  /\ memory \in Config /\ row \in Config
  /\ worker \in [applied : Nat, beat : Nat]
  /\ call \in [Call -> CallState]
  /\ \A c \in Call : call[c].write.stamp <= stamp
  /\ hooks \subseteq Hook
  /\ clock \in Nat /\ stamp \in Nat

(* However often and however concurrently one idempotency key is sent, the  *)
(* deploy hook is called for it at most once: of two calls that both found  *)
(* no record, the unique index lets one go on.                              *)
OneHookPerKey ==
  \A h, g \in hooks : h.key = g.key /\ h.key # NoKey => h = g

(* A call that saw an earlier request's record, or one after it, does not   *)
(* call the hook within the cooldown of that request.  (A call that read    *)
(* the table before the other saved does: both dispatch.)                   *)
HooksSpaced ==
  \A h, g \in hooks : h.stamp < g.stamp /\ h.stamp <= g.knew => g.at >= h.asked + Cooldown

(* Concurrent, repeated and late requests cannot make the deploy hook be    *)
(* called twice for a key, nor twice in a row by a call that knew better.   *)
HooksDisciplined == OneHookPerKey /\ HooksSpaced

(* A request is recorded as converged only if the worker has reported the   *)
(* request's version, with a heartbeat after the request.                   *)
ConvergedIsReported ==
  \A r \in requests : r.status = "converged" => worker.applied >= r.target /\ worker.beat >= r.stamp

(* Whatever the hook, the worker and restarts of the control service do,    *)
(* the latest request ends: it does not stay requested or dispatched while  *)
(* the status is being read.                                                *)
LatestSettles == <>[](Latest.status \notin Pending)
=============================================================================
