---------------------------- MODULE RuntimeConfig ----------------------------
(***************************************************************************)
(* The runtime configuration manager of                                    *)
(* bot/src/runtime/runtime-config-manager.ts in the two processes that own *)
(* one: the control service, which serves the operators' routes and never  *)
(* refreshes, and the worker, whose cycles refresh from the shared record  *)
(* (paper) or never look at it again after start-up (live).                *)
(*                                                                         *)
(* A manager keeps the record as it last saw or wrote it, and the applied  *)
(* configuration the process obeys.  A mutation changes this memory first  *)
(* and then, over two awaits, writes the whole record and the change log;  *)
(* mutations of one manager run one after the other.                       *)
(***************************************************************************)
EXTENDS Integers

CONSTANTS
  Modes,        \* the worker's execution modes considered: paper, live
  MaxChanges,   \* bound of the model: mutations requested by operators and engine
  MaxFaults     \* bound of the model: failing database calls and restarts

ASSUME ModelOK ==
  Modes \subseteq {"paper", "live"} /\ MaxChanges \in Nat /\ MaxFaults \in Nat

Process == {"control", "worker"}

VARIABLES
  row,            \* the active record in the database
  latestVersion,  \* the highest configuration version created
  mem,            \* per process: the managed state, see Memory
  pendingApplied, \* per process: what the next cycle boundary applies
  mutation,       \* per process: the mutation in progress and the await it is in
  poisoned,       \* per process: the mutation queue holds a rejected promise
  mode, status, cycle,   \* the worker: its mode, the runtime's status, the cycle's step
  startup,        \* the worker's first cycle, then its acknowledgement of the restart
  killQueued,     \* the engine triggered the kill switch; the mutation waits its turn
  loaded,         \* the record that the cycle's refresh has read
  boundary,       \* the record that endCycle is writing
  changes, faults,       \* counters of the model; `changes` also stamps the records
  controlClean,   \* history: the control service's last write succeeded and the
                  \* worker wrote nothing since
  awaitingRestart \* history: versions that need a restart the worker has not made

repository == <<row, latestVersion>>
managers == <<mem, pendingApplied, mutation, poisoned>>
worker == <<mode, status, cycle, startup, killQueued, loaded, boundary>>
vars == <<repository, managers, worker, changes, faults, controlClean, awaitingRestart>>

(* A record: requested and applied version, the requested overlay, whether  *)
(* it waits for a cycle boundary or a restart, and its timestamps.          *)
Row == [version : Nat, applied : Nat, paused : BOOLEAN, kill : BOOLEAN,
        pending : BOOLEAN, restart : BOOLEAN, stamp : Nat]
Snapshot == [version : Nat, paused : BOOLEAN, kill : BOOLEAN]

(* The managed state: the active record in memory, requested.requiresRestart *)
(* and the applied overlay; the applied version is the record's.            *)
Memory == [active : Row, restart : BOOLEAN, paused : BOOLEAN, kill : BOOLEAN]

(* A mutation: what it is, the await it is in, and the record it writes. *)
Op == {"pause", "resume", "trigger", "reset", "patch", "reload", "acknowledge"}
Mutation == [op : Op, stage : {"write", "log"}, row : Row]

NoSnapshot == [version |-> 0, paused |-> FALSE, kill |-> FALSE, none |-> TRUE]
FirstRow == [version |-> 0, applied |-> 0, paused |-> FALSE, kill |-> FALSE,
             pending |-> FALSE, restart |-> FALSE, stamp |-> 0]
NoRow == [FirstRow EXCEPT !.version = -1]
Idle == [op |-> "none", stage |-> "idle", row |-> NoRow]

PaperCycle == mode = "paper" /\ cycle \in {"running", "failing"}

(* Mutant: the manager is never told that a cycle begins. *)
InCycleUntold(p) == FALSE

(* The cycle the manager was told of: beginCycle without its endCycle. *)
InCycle(p) == p = "worker" /\ PaperCycle

(* initialize and refresh: the requested overlay is taken as applied. *)
FromRow(r) == [active |-> r, restart |-> r.restart, paused |-> r.paused, kill |-> r.kill]

-----------------------------------------------------------------------------
(***************************************************************************)
(* Mutations.  Each begins by replacing the managed state (this action),   *)
(* then writes the record (Write) and the change log (Log).                *)
(***************************************************************************)
CanBegin(p) == mutation[p] = Idle /\ ~poisoned[p]

(* `written` is the record handed to the database, `next` the new memory. *)
Begin(p, op, next, written) ==
  /\ CanBegin(p)
  /\ changes' = changes + 1
  /\ mem' = [mem EXCEPT ![p] = next]
  /\ mutation' = [mutation EXCEPT ![p] = [op |-> op, stage |-> "write", row |-> written]]
  /\ UNCHANGED <<row, poisoned, faults, controlClean>>

(* setPause, resume and applyKillSwitchSnapshot share this shape: the new   *)
(* overlay is applied, with the requested version, unless a cycle runs.     *)
BeginOverlay(p, op, paused, kill) ==
  LET base == mem[p]
      active == [base.active EXCEPT
                   !.paused = paused, !.kill = kill, !.stamp = changes + 1,
                   !.pending = InCycle(p),
                   !.applied = IF InCycle(p) THEN @ ELSE base.active.version]
  IN /\ Begin(p, op,
             [active |-> active, restart |-> FALSE,
              paused |-> IF InCycle(p) THEN base.paused ELSE paused,
              kill   |-> IF InCycle(p) THEN base.kill ELSE kill],
             [active EXCEPT !.restart = FALSE])
     /\ changes < MaxChanges
     /\ UNCHANGED <<latestVersion, pendingApplied, awaitingRestart>>

(* denyWhenKillSwitchActive: the control routes but for emergency stop,     *)
(* halt and reset answer 409 while the process's kill switch is on.         *)
RouteOpen == ~mem["control"].kill /\ changes < MaxChanges

SetPause == RouteOpen /\ BeginOverlay("control", "pause", TRUE, mem["control"].active.kill)
             /\ UNCHANGED worker

Resume ==
  /\ RouteOpen /\ ~mem["control"].active.kill
  /\ BeginOverlay("control", "resume", FALSE, FALSE)
  /\ UNCHANGED worker

TriggerKill(p) == BeginOverlay(p, "trigger", TRUE, TRUE)
ResetKill == BeginOverlay("control", "reset", mem["control"].active.paused, FALSE)
              /\ UNCHANGED worker

(* /emergency-stop and /control/halt *)
EmergencyStop == TriggerKill("control") /\ UNCHANGED worker

(* applyBehaviorPatch and setMode: a new version, requested; it is applied  *)
(* at once only if the patch needs no restart and no cycle runs.            *)
BeginPatch(needsRestart) ==
  LET base == mem["control"]
      now == ~needsRestart /\ ~InCycle("control")
      v == latestVersion + 1
      active == [base.active EXCEPT
                   !.version = v, !.pending = ~now, !.restart = needsRestart,
                   !.stamp = changes + 1, !.applied = IF now THEN v ELSE @]
  IN /\ RouteOpen
     /\ Begin("control", "patch",
             [active |-> active, restart |-> needsRestart,
              paused |-> IF now THEN base.active.paused ELSE base.paused,
              kill   |-> IF now THEN base.active.kill ELSE base.kill],
             active)
     /\ latestVersion' = v
     /\ pendingApplied' = [pendingApplied EXCEPT !["control"] =
          IF needsRestart \/ now THEN NoSnapshot
          ELSE [version |-> v, paused |-> active.paused, kill |-> active.kill]]
     /\ awaitingRestart' =
          IF needsRestart THEN awaitingRestart \cup {v} ELSE awaitingRestart
     /\ UNCHANGED worker

Reload ==
  LET base == mem["control"]
      waits == InCycle("control") \/ base.restart
      active == [base.active EXCEPT
                   !.pending = waits, !.restart = base.restart, !.stamp = changes + 1,
                   !.applied = IF waits THEN @ ELSE base.active.version]
  IN /\ RouteOpen
     /\ Begin("control", "reload",
             [active |-> active, restart |-> base.restart,
              paused |-> IF waits THEN base.paused ELSE base.active.paused,
              kill   |-> IF waits THEN base.kill ELSE base.active.kill],
             active)
     /\ UNCHANGED <<latestVersion, pendingApplied, awaitingRestart, worker>>

(* The write of the record *)
Write(p) ==
  /\ mutation[p].stage = "write"
  /\ row' = mutation[p].row
  /\ mutation' = [mutation EXCEPT ![p] =
       IF mutation[p].op = "acknowledge" THEN Idle ELSE [@ EXCEPT !.stage = "log"]]
  /\ controlClean' = (p = "control")
  /\ UNCHANGED <<latestVersion, mem, pendingApplied, poisoned, worker, changes, faults,
                 awaitingRestart>>

(* The change log is appended; what a running cycle postponed is left for   *)
(* its boundary, if the cycle still runs by now.                            *)
Log(p) ==
  /\ mutation[p].stage = "log"
  /\ mutation' = [mutation EXCEPT ![p] = Idle]
  /\ pendingApplied' = [pendingApplied EXCEPT ![p] =
       IF InCycle(p) /\ mutation[p].op \in {"pause", "resume", "trigger", "reset"}
       THEN [version |-> mutation[p].row.version, paused |-> mutation[p].row.paused,
             kill |-> mutation[p].row.kill]
       ELSE @]
  /\ UNCHANGED <<repository, mem, poisoned, worker, changes, faults, controlClean,
                 awaitingRestart>>

(* Either await rejects: so does the queue's promise, and with it, without  *)
(* running it, every later mutation of this process.                        *)
MutationFails(p) ==
  /\ mutation[p] # Idle /\ faults < MaxFaults
  /\ faults' = faults + 1
  /\ mutation' = [mutation EXCEPT ![p] = Idle]
  /\ poisoned' = [poisoned EXCEPT ![p] = TRUE]
  /\ controlClean' = (controlClean /\ (p = "control" => mutation[p].stage = "log"))
  /\ UNCHANGED <<repository, mem, pendingApplied, worker, changes, awaitingRestart>>

-----------------------------------------------------------------------------
(* The worker's process and its cycles *)

(* Mutant: the new process keeps its memory instead of reading the record. *)
RestartedStale(p) ==
  /\ faults < MaxFaults
  /\ faults' = faults + 1
  /\ pendingApplied' = [pendingApplied EXCEPT ![p] = NoSnapshot]
  /\ mutation' = [mutation EXCEPT ![p] = Idle]
  /\ poisoned' = [poisoned EXCEPT ![p] = FALSE]
  /\ UNCHANGED mem

Restarted(p) ==
  /\ faults < MaxFaults
  /\ faults' = faults + 1
  /\ mem' = [mem EXCEPT ![p] = FromRow(row)]
  /\ pendingApplied' = [pendingApplied EXCEPT ![p] = NoSnapshot]
  /\ mutation' = [mutation EXCEPT ![p] = Idle]
  /\ poisoned' = [poisoned EXCEPT ![p] = FALSE]

(* The process ends at any point, by a crash or a redeployment, and a new   *)
(* one initializes its manager from the record.                             *)
BootWorker ==
  /\ Restarted("worker")
  /\ status' = "running" /\ cycle' = "none" /\ startup' = "first" /\ killQueued' = FALSE
  /\ loaded' = NoRow /\ boundary' = NoRow
  /\ awaitingRestart' = {}
  /\ UNCHANGED <<repository, mode, changes, controlClean>>

BootControl ==
  /\ Restarted("control")
  /\ controlClean' = TRUE
  /\ UNCHANGED <<repository, worker, changes, awaitingRestart>>

(* runtime.start() has run its first cycle: a record that still asks for a  *)
(* restart is acknowledged (confirmRestartApplied).                         *)
Acknowledge ==
  LET base == mem["worker"]
      active == [base.active EXCEPT !.applied = base.active.version, !.pending = FALSE,
                                    !.restart = FALSE, !.stamp = changes + 1]
  IN /\ startup = "acknowledge"
     /\ startup' = "done"
     /\ \/ /\ base.restart /\ base.active.restart
           /\ Begin("worker", "acknowledge",
                    [active |-> active, restart |-> FALSE,
                     paused |-> active.paused, kill |-> active.kill], active)
           /\ pendingApplied' = [pendingApplied EXCEPT !["worker"] = NoSnapshot]
        \/ /\ ~(base.restart /\ base.active.restart) \/ poisoned["worker"]
           /\ UNCHANGED <<row, managers, changes, faults, controlClean>>
     /\ UNCHANGED <<latestVersion, mode, status, cycle, killQueued, loaded, boundary,
                    awaitingRestart>>

(* The timer's next cycle.  The acknowledgement comes first, unless it      *)
(* waits in the queue behind another mutation.                              *)
NextCycle ==
  /\ status = "running" /\ cycle = "none"
  /\ startup = "acknowledge" => mutation["worker"] # Idle

(* The cycle is over; the first one is awaited by runtime.start(), which    *)
(* throws if it failed.                                                     *)
FinishCycle ==
  /\ cycle' = "none"
  /\ startup' = IF startup = "first" /\ status' # "error" THEN "acknowledge" ELSE startup

(* A cycle of the paper runtime refreshes first. *)
RefreshReads ==
  /\ mode = "paper" /\ NextCycle
  /\ cycle' = "refreshing" /\ loaded' = row
  /\ UNCHANGED <<repository, managers, mode, status, startup, killQueued, boundary,
                 changes, faults, controlClean, awaitingRestart>>

(* Mutant: the kill switch is not looked at. *)
BeginAnyway(killed) == cycle' = "running" /\ UNCHANGED <<status, startup>>

(* The kill switch is looked at once, when the cycle begins. *)
BeginOrPause(killed) ==
  \/ killed /\ status' = "paused" /\ FinishCycle
  \/ ~killed /\ cycle' = "running" /\ UNCHANGED <<status, startup>>

(* Mutant: the refresh adopts the record but not its overlay. *)
AdoptRequestedOnly ==
  /\ mem' = [mem EXCEPT !["worker"].active = loaded, !["worker"].restart = loaded.restart]
  /\ pendingApplied' = [pendingApplied EXCEPT !["worker"] = NoSnapshot]

Adopt ==
  /\ mem' = [mem EXCEPT !["worker"] = FromRow(loaded)]
  /\ pendingApplied' = [pendingApplied EXCEPT !["worker"] = NoSnapshot]

RefreshInstalls ==
  /\ cycle = "refreshing"
  /\ \/ loaded = mem["worker"].active /\ UNCHANGED <<mem, pendingApplied>>
     \/ loaded # mem["worker"].active /\ Adopt
  /\ BeginOrPause(mem'["worker"].kill)
  /\ UNCHANGED <<repository, mutation, poisoned, mode, killQueued, loaded,
                 boundary, changes, faults, controlClean, awaitingRestart>>

RefreshFails ==
  /\ cycle = "refreshing" /\ faults < MaxFaults
  /\ faults' = faults + 1
  /\ status' = "error" /\ cycle' = "none" /\ loaded' = NoRow
  /\ UNCHANGED <<repository, managers, mode, startup, killQueued, boundary, changes,
                 controlClean, awaitingRestart>>

(* The live runtime is built without the manager: it neither refreshes nor  *)
(* tells the manager of its cycles, and reads the kill switch through it.   *)
LiveCycleBegins ==
  /\ mode = "live" /\ NextCycle
  /\ BeginOrPause(mem["worker"].kill)
  /\ UNCHANGED <<repository, managers, mode, killQueued, loaded, boundary,
                 changes, faults, controlClean, awaitingRestart>>

(* The engine triggers the kill switch and fails the cycle; in live mode    *)
(* the daily loss limit triggers it and the cycle goes on.                  *)
Escalate ==
  /\ cycle = "running" /\ ~killQueued
  /\ killQueued' = TRUE
  /\ \/ cycle' = "failing"
     \/ mode = "live" /\ cycle' = cycle
  /\ UNCHANGED <<repository, managers, mode, status, startup, loaded, boundary, changes,
                 faults, controlClean, awaitingRestart>>

QueuedKillBegins ==
  /\ killQueued
  /\ TriggerKill("worker")
  /\ killQueued' = FALSE
  /\ UNCHANGED <<mode, status, cycle, startup, loaded, boundary>>

QueuedKillRejected ==
  /\ killQueued /\ poisoned["worker"] /\ mutation["worker"] = Idle
  /\ killQueued' = FALSE
  /\ UNCHANGED <<repository, managers, mode, status, cycle, startup, loaded, boundary,
                 changes, faults, controlClean, awaitingRestart>>

(* endCycle: the pending state is applied, then the record is written. *)
EndCycle ==
  LET p == pendingApplied["worker"]
      active == [mem["worker"].active EXCEPT !.applied = p.version, !.pending = FALSE,
                                             !.stamp = changes + 1]
  IN /\ cycle \in {"running", "failing"}
     /\ status' = (IF cycle = "failing" THEN "error" ELSE status)
     /\ loaded' = NoRow
     /\ \/ /\ p = NoSnapshot
           /\ FinishCycle
           /\ UNCHANGED <<managers, boundary, changes>>
        \/ /\ p # NoSnapshot
           /\ changes' = changes + 1
           /\ mem' = [mem EXCEPT !["worker"] =
                [@ EXCEPT !.active = active, !.paused = p.paused, !.kill = p.kill]]
           /\ pendingApplied' = [pendingApplied EXCEPT !["worker"] = NoSnapshot]
           /\ boundary' = active
           /\ cycle' = "ending"
           /\ UNCHANGED <<mutation, poisoned, startup>>
     /\ UNCHANGED <<repository, mode, killQueued, faults, controlClean,
                    awaitingRestart>>

(* The boundary's own write; a failure is only logged. *)
BoundaryWritten ==
  /\ cycle = "ending"
  /\ \/ row' = boundary /\ controlClean' = FALSE /\ UNCHANGED faults
     \/ faults < MaxFaults /\ faults' = faults + 1 /\ UNCHANGED <<row, controlClean>>
  /\ UNCHANGED status /\ FinishCycle
  /\ boundary' = NoRow
  /\ UNCHANGED <<latestVersion, managers, mode, killQueued, loaded,
                 changes, awaitingRestart>>

-----------------------------------------------------------------------------
Init ==
  /\ row = FirstRow /\ latestVersion = 0
  /\ mem = [p \in Process |-> FromRow(FirstRow)]
  /\ pendingApplied = [p \in Process |-> NoSnapshot]
  /\ mutation = [p \in Process |-> Idle]
  /\ poisoned = [p \in Process |-> FALSE]
  /\ mode \in Modes
  /\ status = "running" /\ cycle = "none" /\ startup = "first" /\ killQueued = FALSE
  /\ loaded = NoRow /\ boundary = NoRow
  /\ changes = 0 /\ faults = 0
  /\ controlClean = TRUE /\ awaitingRestart = {}

ControlRoutes ==
  \/ SetPause \/ Resume \/ EmergencyStop \/ ResetKill \/ Reload
  \/ \E needsRestart \in BOOLEAN : BeginPatch(needsRestart)

WorkerSteps ==
  \/ Acknowledge \/ RefreshReads \/ RefreshInstalls \/ LiveCycleBegins
  \/ EndCycle \/ BoundaryWritten

Next ==
  \/ ControlRoutes
  \/ \E p \in Process : Write(p) \/ Log(p) \/ MutationFails(p)
  \/ BootWorker \/ BootControl
  \/ WorkerSteps \/ RefreshFails \/ Escalate \/ QueuedKillBegins \/ QueuedKillRejected

(* The worker's interval timer keeps its cycles going; nothing makes an     *)
(* operator act, the engine escalate or the database fail.                  *)
Spec == Init /\ [][Next]_vars /\ WF_vars(WorkerSteps)

-----------------------------------------------------------------------------
(* Every variable has its type. *)
TypeOK ==
  /\ row \in Row /\ latestVersion \in Nat
  /\ mem \in [Process -> Memory]
  /\ pendingApplied \in [Process -> Snapshot \cup {NoSnapshot}]
  /\ mutation \in [Process -> Mutation \cup {Idle}]
  /\ poisoned \in [Process -> BOOLEAN]
  /\ mode \in Modes /\ status \in {"running", "paused", "error"}
  /\ cycle \in {"none", "refreshing", "running", "failing", "ending"}
  /\ startup \in {"first", "acknowledge", "done"} /\ killQueued \in BOOLEAN
  /\ loaded \in Row \cup {NoRow} /\ boundary \in Row \cup {NoRow}
  /\ changes \in Nat /\ faults \in 0..MaxFaults
  /\ controlClean \in BOOLEAN /\ awaitingRestart \subseteq Nat

(* A paper cycle only runs on a record whose kill switch was off when the   *)
(* cycle refreshed.                                                         *)
CycleObeysRecord ==
  PaperCycle => ~loaded.kill

(* What the control service holds is what is recorded, unless the worker    *)
(* wrote after it or its own write failed or is under way (its memory may   *)
(* keep a restart request that the record lost).                            *)
ControlAgrees ==
  controlClean /\ mutation["control"].stage # "write"
    => [mem["control"].active EXCEPT !.restart = row.restart] = row

(* The configuration a paper cycle runs under does not change before the    *)
(* cycle ends.                                                              *)
AppliedAtBoundary ==
  [][PaperCycle /\ PaperCycle'
       => /\ mem'["worker"].kill = mem["worker"].kill
          /\ mem'["worker"].paused = mem["worker"].paused
          /\ mem'["worker"].active.applied = mem["worker"].active.applied]_vars

(* A recorded kill stops the paper worker, unless it is taken back first.   *)
KillStopsPaperWorker ==
  [](mode = "paper" /\ row.kill => <>(status # "running" \/ ~row.kill))

(* The emergency stop of the operators' runbook stops a live worker too. *)
KillStopsLiveWorker ==
  [](mode = "live" /\ row.kill => <>(status # "running" \/ ~row.kill))

(* "Halt all trading. Requires manual reset": only a reset clears a         *)
(* recorded kill.                                                           *)
KillSticks ==
  [][row.kill /\ ~row'.kill =>
       \E p \in Process : mutation[p].op = "reset" /\ mutation[p].stage = "write"]_vars

(* What else clears one: a restart's acknowledgement, which writes the      *)
(* worker's memory over what was recorded since it was read, and a write of *)
(* a control service that missed the worker's write or whose own write      *)
(* failed.  A pause, resume, patch, reload or boundary alone never does.    *)
KillLossesKnown ==
  [][row.kill /\ ~row'.kill =>
       \E p \in Process :
         /\ mutation[p].stage = "write" /\ row' = mutation[p].row
         /\ \/ mutation[p].op \in {"reset", "acknowledge"}
            \/ p = "control" /\ ~controlClean]_vars

(* "runtime config change requires restart": it is not recorded as applied  *)
(* before the worker restarts.                                              *)
RestartHonoured == row.applied \notin awaitingRestart
=============================================================================
