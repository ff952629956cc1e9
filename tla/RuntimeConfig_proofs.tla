------------------------- MODULE RuntimeConfig_proofs -------------------------
(***************************************************************************)
(* Proofs about RuntimeConfig, for any set of modes and any number of      *)
(* changes and faults.                                                     *)
(***************************************************************************)
EXTENDS RuntimeConfig, TLAPS

-----------------------------------------------------------------------------
(* Records *)

LEMMA FirstRowType == FirstRow \in Row /\ FirstRow.version = 0
BY DEF FirstRow, Row

LEMMA FromRowType ==
  ASSUME NEW r \in Row
  PROVE  /\ FromRow(r) \in Memory /\ FromRow(r).active = r
         /\ FromRow(r).kill = r.kill /\ FromRow(r).paused = r.paused
BY DEF FromRow, Memory, Row

LEMMA ActiveType ==
  ASSUME NEW m \in Memory
  PROVE  /\ m.active \in Row /\ m.restart \in BOOLEAN /\ m.paused \in BOOLEAN /\ m.kill \in BOOLEAN
         /\ m.active.paused \in BOOLEAN /\ m.active.kill \in BOOLEAN
         /\ m.active.version \in Nat /\ m.active.applied \in Nat
BY DEF Memory, Row

(* The records that the mutations make of the active one *)
Overlaid(r, paused, kill, stamped, pending, version) ==
  [r EXCEPT !.paused = paused, !.kill = kill, !.stamp = stamped, !.pending = pending,
            !.applied = version]
Patched(r, v, pending, restart, stamped, version) ==
  [r EXCEPT !.version = v, !.pending = pending, !.restart = restart, !.stamp = stamped,
            !.applied = version]
Reloaded(r, pending, restart, stamped, version) ==
  [r EXCEPT !.pending = pending, !.restart = restart, !.stamp = stamped, !.applied = version]
Settled(r, version, stamped) ==
  [r EXCEPT !.applied = version, !.pending = FALSE, !.stamp = stamped]
Acknowledged(r, version, stamped) ==
  [r EXCEPT !.applied = version, !.pending = FALSE, !.restart = FALSE, !.stamp = stamped]

LEMMA OverlaidRow ==
  ASSUME NEW r \in Row, NEW paused \in BOOLEAN, NEW kill \in BOOLEAN, NEW stamped \in Nat,
         NEW pending \in BOOLEAN, NEW version \in Nat
  PROVE  /\ Overlaid(r, paused, kill, stamped, pending, version) \in Row
         /\ Overlaid(r, paused, kill, stamped, pending, version).kill = kill
         /\ Overlaid(r, paused, kill, stamped, pending, version).applied = version
<1>1. PICK t : t = Overlaid(r, paused, kill, stamped, pending, version)
  OBVIOUS
<1>2. t \in Row /\ t.kill = kill /\ t.applied = version
  BY <1>1 DEF Overlaid, Row
<1> QED
  BY <1>1, <1>2

LEMMA PatchedRow ==
  ASSUME NEW r \in Row, NEW v \in Nat, NEW pending \in BOOLEAN, NEW restart \in BOOLEAN,
         NEW stamped \in Nat, NEW version \in Nat
  PROVE  Patched(r, v, pending, restart, stamped, version) \in Row
<1>1. PICK t : t = Patched(r, v, pending, restart, stamped, version)
  OBVIOUS
<1>2. t \in Row
  BY <1>1 DEF Patched, Row
<1> QED
  BY <1>1, <1>2

LEMMA ReloadedRow ==
  ASSUME NEW r \in Row, NEW pending \in BOOLEAN, NEW restart \in BOOLEAN,
         NEW stamped \in Nat, NEW version \in Nat
  PROVE  /\ Reloaded(r, pending, restart, stamped, version) \in Row
<1>1. PICK t : t = Reloaded(r, pending, restart, stamped, version)
  OBVIOUS
<1>2. t \in Row
  BY <1>1 DEF Reloaded, Row
<1> QED
  BY <1>1, <1>2

LEMMA SettledRow ==
  ASSUME NEW r \in Row, NEW version \in Nat, NEW stamped \in Nat
  PROVE  /\ Settled(r, version, stamped) \in Row
         /\ Settled(r, version, stamped).kill = r.kill
<1>1. PICK t : t = Settled(r, version, stamped)
  OBVIOUS
<1>2. t \in Row /\ t.kill = r.kill
  BY <1>1 DEF Settled, Row
<1> QED
  BY <1>1, <1>2

LEMMA AcknowledgedRow ==
  ASSUME NEW r \in Row, NEW version \in Nat, NEW stamped \in Nat
  PROVE  /\ Acknowledged(r, version, stamped) \in Row
         /\ Acknowledged(r, version, stamped).paused = r.paused
         /\ Acknowledged(r, version, stamped).kill = r.kill
<1>1. PICK t : t = Acknowledged(r, version, stamped)
  OBVIOUS
<1>2. t \in Row /\ t.paused = r.paused /\ t.kill = r.kill
  BY <1>1 DEF Acknowledged, Row
<1> QED
  BY <1>1, <1>2

(* Two records that differ in the restart flag at most *)
Agree(a, r) == [a EXCEPT !.restart = r.restart] = r

LEMMA AgreeFields ==
  ASSUME NEW a \in Row, NEW r \in Row
  PROVE  /\ Agree(a, r) <=> /\ a.version = r.version /\ a.applied = r.applied
                            /\ a.paused = r.paused /\ a.kill = r.kill
                            /\ a.pending = r.pending /\ a.stamp = r.stamp
         /\ Agree(a, a) /\ Agree(a, [a EXCEPT !.restart = FALSE])
         /\ [a EXCEPT !.restart = FALSE] \in Row
<1>1. PICK t : t = [a EXCEPT !.restart = r.restart]
  OBVIOUS
<1>2. /\ t.version = a.version /\ t.applied = a.applied /\ t.paused = a.paused /\ t.kill = a.kill
      /\ t.pending = a.pending /\ t.restart = r.restart /\ t.stamp = a.stamp /\ t \in Row
  BY <1>1 DEF Row
<1>3. t = r <=> /\ a.version = r.version /\ a.applied = r.applied
                /\ a.paused = r.paused /\ a.kill = r.kill
                /\ a.pending = r.pending /\ a.stamp = r.stamp
  BY <1>2 DEF Row
<1>4. [a EXCEPT !.restart = FALSE] \in Row
  BY DEF Row
<1>5. Agree(a, a) /\ Agree(a, [a EXCEPT !.restart = FALSE])
  BY DEF Agree, Row
<1> QED
  BY <1>1, <1>3, <1>4, <1>5 DEF Agree

-----------------------------------------------------------------------------
(* Mutations *)

Other(p) == {q \in Process : q # p}

(* What the beginning of a mutation does: one process's memory and mutation *)
(* change, and the record it will write is its memory's.                    *)
Began(p, op) ==
  /\ CanBegin(p)
  /\ mem' \in [Process -> Memory] /\ mutation' \in [Process -> Mutation \cup {Idle}]
  /\ \A q \in Other(p) : mem'[q] = mem[q] /\ mutation'[q] = mutation[q]
  /\ mutation'[p].op = op /\ mutation'[p].stage = "write" /\ mutation'[p] \in Mutation
  /\ Agree(mem'[p].active, mutation'[p].row)
  /\ changes' \in Nat
  /\ UNCHANGED <<row, poisoned, faults, controlClean>>

LEMMA BeginBegan ==
  ASSUME TypeOK, NEW p \in Process, NEW op \in Op, NEW next \in Memory, NEW written \in Row,
         Begin(p, op, next, written), Agree(next.active, written)
  PROVE  Began(p, op) /\ mem'[p] = next
<1>1. PICK m : m = [op |-> op, stage |-> "write", row |-> written]
  OBVIOUS
<1>2. m \in Mutation /\ m.op = op /\ m.stage = "write" /\ m.row = written
  BY <1>1 DEF Mutation
<1>3. /\ mem' = [mem EXCEPT ![p] = next] /\ mutation' = [mutation EXCEPT ![p] = m]
      /\ CanBegin(p) /\ changes' = changes + 1 /\ UNCHANGED <<row, poisoned, faults, controlClean>>
  BY <1>1 DEF Begin
<1> QED
  BY <1>2, <1>3 DEF Began, TypeOK, Other

(* An overlay mutation: in a cycle the applied overlay and version stay as  *)
(* they are, and otherwise they are the requested ones.                     *)
LEMMA OverlayBegan ==
  ASSUME TypeOK, NEW p \in Process, NEW op \in Op, NEW paused \in BOOLEAN, NEW kill \in BOOLEAN,
         BeginOverlay(p, op, paused, kill)
  PROVE  /\ Began(p, op)
         /\ InCycle(p) => /\ mem'[p].kill = mem[p].kill /\ mem'[p].paused = mem[p].paused
                          /\ mem'[p].active.applied = mem[p].active.applied
         /\ ~InCycle(p) => mem'[p].kill = mem'[p].active.kill
         /\ UNCHANGED <<latestVersion, pendingApplied, awaitingRestart>>
<1> DEFINE base == mem[p]
<1>0. PICK stamped \in Nat : stamped = changes + 1
  BY DEF TypeOK
<1>1. base \in Memory
  BY DEF TypeOK
<1>2. PICK inside \in BOOLEAN : inside = InCycle(p)
  BY DEF InCycle, PaperCycle
<1> DEFINE effective == IF inside THEN base.active.applied ELSE base.active.version
<1>3. PICK active : active = Overlaid(base.active, paused, kill, stamped, inside, effective)
  OBVIOUS
<1>4. active \in Row /\ active.kill = kill /\ active.applied = effective
  <2>1. base.active \in Row /\ effective \in Nat
    BY <1>1, ActiveType
  <2> DEFINE t == Overlaid(base.active, paused, kill, stamped, inside, effective)
  <2>2. inside \in BOOLEAN /\ stamped \in Nat
    BY <1>0, <1>2
  <2> HIDE DEF effective
  <2>3. t \in Row /\ t.kill = kill /\ t.applied = effective
    BY <2>1, <2>2, OverlaidRow
  <2> QED
    BY <1>3, <2>3
<1>5. PICK next : next = [active |-> active, restart |-> FALSE,
                          paused |-> IF inside THEN base.paused ELSE paused,
                          kill   |-> IF inside THEN base.kill ELSE kill]
  OBVIOUS
<1>6. /\ next \in Memory /\ next.active = active
      /\ next.paused = IF inside THEN base.paused ELSE paused
      /\ next.kill = IF inside THEN base.kill ELSE kill
  BY <1>1, <1>4, <1>5, ActiveType DEF Memory
<1>7. Begin(p, op, next, [active EXCEPT !.restart = FALSE])
      /\ UNCHANGED <<latestVersion, pendingApplied, awaitingRestart>>
  BY <1>0, <1>2, <1>3, <1>5 DEF BeginOverlay, Overlaid
<1>8. Began(p, op) /\ mem'[p] = next
  BY <1>4, <1>6, <1>7, AgreeFields, BeginBegan
<1> QED
  BY <1>2, <1>4, <1>6, <1>7, <1>8

LEMMA PatchBegan ==
  ASSUME TypeOK, NEW needsRestart \in BOOLEAN, BeginPatch(needsRestart)
  PROVE  /\ Began("control", "patch") /\ TypeOK' /\ UNCHANGED worker
         /\ pendingApplied'["worker"] = pendingApplied["worker"]
<1> DEFINE base == mem["control"]
           version == IF ~needsRestart THEN latestVersion + 1 ELSE base.active.applied
<1>0. PICK stamped \in Nat, v \in Nat : stamped = changes + 1 /\ v = latestVersion + 1
  BY DEF TypeOK
<1>1. base \in Memory /\ ~InCycle("control")
  BY DEF TypeOK, Process, InCycle
<1>2. PICK pending \in BOOLEAN : pending = needsRestart
  OBVIOUS
<1>3. PICK active : active = Patched(base.active, v, pending, needsRestart, stamped, version)
  OBVIOUS
<1>4. active \in Row /\ active.paused \in BOOLEAN /\ active.kill \in BOOLEAN
  <2>1. base.active \in Row /\ version \in Nat
    BY <1>0, <1>1, ActiveType
  <2>2. v \in Nat /\ stamped \in Nat /\ pending \in BOOLEAN
    BY <1>0, <1>2
  <2> HIDE DEF version
  <2>3. active \in Row
    BY <1>3, <2>1, <2>2, PatchedRow
  <2> QED
    BY <2>3 DEF Row
<1>5. PICK next : next = [active |-> active, restart |-> needsRestart,
             paused |-> IF ~needsRestart THEN base.active.paused ELSE base.paused,
             kill   |-> IF ~needsRestart THEN base.active.kill ELSE base.kill]
  OBVIOUS
<1>6. next \in Memory /\ next.active = active
  BY <1>1, <1>4, <1>5, ActiveType DEF Memory
<1>7. /\ Begin("control", "patch", next, active)
      /\ latestVersion' = v
      /\ pendingApplied' = [pendingApplied EXCEPT !["control"] = NoSnapshot]
           \/ pendingApplied' = [pendingApplied EXCEPT !["control"] =
                                   [version |-> v, paused |-> active.paused, kill |-> active.kill]]
      /\ awaitingRestart' \subseteq awaitingRestart \cup {v}
      /\ UNCHANGED worker
  <2>1. CASE needsRestart
    BY <1>0, <1>1, <1>2, <1>3, <1>5, <2>1 DEF BeginPatch, Patched
  <2>2. CASE ~needsRestart
    BY <1>0, <1>1, <1>2, <1>3, <1>5, <2>2 DEF BeginPatch, Patched
  <2> QED
    BY <2>1, <2>2
<1>8. Began("control", "patch")
  BY <1>4, <1>6, <1>7, AgreeFields, BeginBegan DEF Process, Op
<1>9. [version |-> v, paused |-> active.paused, kill |-> active.kill] \in Snapshot
  BY <1>4 DEF Snapshot
<1>10. pendingApplied' \in [Process -> Snapshot \cup {NoSnapshot}]
  BY <1>7, <1>9 DEF TypeOK
<1>11. pendingApplied'["worker"] = pendingApplied["worker"]
  BY <1>7 DEF TypeOK, Process
<1> QED
  BY <1>0, <1>7, <1>8, <1>10, <1>11 DEF Began, TypeOK, worker

LEMMA ReloadBegan ==
  ASSUME TypeOK, Reload
  PROVE  /\ Began("control", "reload") /\ TypeOK' /\ UNCHANGED <<worker, pendingApplied>>
<1> DEFINE base == mem["control"]
           version == IF base.restart THEN base.active.applied ELSE base.active.version
<1>0. PICK stamped \in Nat : stamped = changes + 1
  BY DEF TypeOK
<1>1. base \in Memory /\ ~InCycle("control")
  BY DEF TypeOK, Process, InCycle
<1>2. PICK active : active = Reloaded(base.active, base.restart, base.restart, stamped, version)
  OBVIOUS
<1>3. active \in Row
  <2>1. base.active \in Row /\ version \in Nat /\ base.restart \in BOOLEAN
    BY <1>1, ActiveType
  <2> HIDE DEF version
  <2> QED
    BY <1>2, <2>1, ReloadedRow
<1>4. PICK next : next = [active |-> active, restart |-> base.restart,
             paused |-> IF base.restart THEN base.paused ELSE base.active.paused,
             kill   |-> IF base.restart THEN base.kill ELSE base.active.kill]
  OBVIOUS
<1>5. next \in Memory /\ next.active = active
  BY <1>1, <1>3, <1>4, ActiveType DEF Memory
<1>6. /\ Begin("control", "reload", next, active)
      /\ UNCHANGED <<latestVersion, pendingApplied, awaitingRestart, worker>>
  <2>1. base.restart \in BOOLEAN
    BY <1>1, ActiveType
  <2>2. CASE base.restart
    BY <1>0, <1>1, <1>2, <1>4, <2>1, <2>2 DEF Reload, Reloaded
  <2>3. CASE ~base.restart
    BY <1>0, <1>1, <1>2, <1>4, <2>1, <2>3 DEF Reload, Reloaded
  <2> QED
    BY <2>2, <2>3
<1>7. Began("control", "reload")
  BY <1>3, <1>5, <1>6, AgreeFields, BeginBegan DEF Process, Op
<1> QED
  BY <1>6, <1>7 DEF Began, TypeOK, worker

(* What an acknowledgement begins, when a restart is to be acknowledged *)
LEMMA AcknowledgeBegan ==
  ASSUME TypeOK, Acknowledge
  PROVE  /\ \/ Began("worker", "acknowledge") /\ mem'["worker"].kill = mem'["worker"].active.kill
            \/ UNCHANGED <<row, managers, changes, faults, controlClean>>
         /\ TypeOK'
<1> DEFINE base == mem["worker"]
<1>0. PICK stamped \in Nat : stamped = changes + 1
  BY DEF TypeOK
<1>1. base \in Memory /\ base.active \in Row /\ base.active.version \in Nat
  BY ActiveType DEF TypeOK, Process
<1>2. PICK active : active = Acknowledged(base.active, base.active.version, stamped)
  OBVIOUS
<1>3. active \in Row /\ active.paused \in BOOLEAN /\ active.kill \in BOOLEAN
  <2>1. active \in Row
    BY <1>1, <1>2, AcknowledgedRow
  <2> QED
    BY <2>1 DEF Row
<1>4. PICK next : next = [active |-> active, restart |-> FALSE,
                          paused |-> active.paused, kill |-> active.kill]
  OBVIOUS
<1>5. next \in Memory /\ next.active = active /\ next.kill = active.kill
  BY <1>3, <1>4 DEF Memory
<1>6. UNCHANGED <<latestVersion, mode, status, cycle, killQueued, loaded, boundary, awaitingRestart>>
      /\ startup' = "done"
  BY DEF Acknowledge
<1>7. \/ /\ Begin("worker", "acknowledge", next, active)
         /\ pendingApplied' = [pendingApplied EXCEPT !["worker"] = NoSnapshot]
      \/ UNCHANGED <<row, managers, changes, faults, controlClean>>
  BY <1>0, <1>2, <1>4 DEF Acknowledge, Acknowledged
<1>8. CASE /\ Begin("worker", "acknowledge", next, active)
           /\ pendingApplied' = [pendingApplied EXCEPT !["worker"] = NoSnapshot]
  <2>1. Began("worker", "acknowledge") /\ mem'["worker"] = next
    BY <1>3, <1>5, <1>8, AgreeFields, BeginBegan DEF Process, Op
  <2> QED
    BY <1>5, <1>6, <1>8, <2>1 DEF Began, TypeOK
<1>9. CASE UNCHANGED <<row, managers, changes, faults, controlClean>>
  BY <1>6, <1>9 DEF TypeOK, managers
<1> QED
  BY <1>7, <1>8, <1>9

(* A control route begins a mutation of the control service and leaves the  *)
(* worker alone.                                                            *)
LEMMA RouteBegan ==
  ASSUME TypeOK, ControlRoutes
  PROVE  /\ \E op \in Op : Began("control", op)
         /\ TypeOK' /\ UNCHANGED worker /\ pendingApplied'["worker"] = pendingApplied["worker"]
<1>1. ASSUME NEW op \in Op, NEW paused \in BOOLEAN, NEW kill \in BOOLEAN,
             BeginOverlay("control", op, paused, kill), UNCHANGED worker
      PROVE  Began("control", op) /\ TypeOK' /\ UNCHANGED <<worker, pendingApplied>>
  <2>1. /\ Began("control", op)
        /\ UNCHANGED <<latestVersion, pendingApplied, awaitingRestart>>
    BY <1>1, OverlayBegan DEF Process
  <2> QED
    BY <1>1, <2>1 DEF Began, TypeOK, worker
<1>2. mem["control"].active.kill \in BOOLEAN /\ mem["control"].active.paused \in BOOLEAN
  BY ActiveType DEF TypeOK, Process
<1>3. {"pause", "resume", "trigger", "reset", "patch", "reload"} \subseteq Op
  BY DEF Op
<1>4. CASE SetPause
  BY <1>1, <1>2, <1>3, <1>4 DEF SetPause
<1>5. CASE Resume
  BY <1>1, <1>2, <1>3, <1>5 DEF Resume
<1>6. CASE EmergencyStop
  BY <1>1, <1>2, <1>3, <1>6 DEF EmergencyStop, TriggerKill
<1>7. CASE ResetKill
  BY <1>1, <1>2, <1>3, <1>7 DEF ResetKill
<1>8. CASE Reload
  BY <1>3, <1>8, ReloadBegan
<1>9. CASE \E needsRestart \in BOOLEAN : BeginPatch(needsRestart)
  BY <1>3, <1>9, PatchBegan
<1> QED
  BY <1>4, <1>5, <1>6, <1>7, <1>8, <1>9 DEF ControlRoutes

-----------------------------------------------------------------------------
(* Types *)

LEMMA InitTypes == Init => TypeOK
<1>1. FirstRow \in Row /\ FromRow(FirstRow) \in Memory
  BY FirstRowType, FromRowType
<1>2. ASSUME Init
      PROVE  row \in Row /\ latestVersion \in Nat /\ mem \in [Process -> Memory]
  BY <1>1, <1>2 DEF Init
<1>3. ASSUME Init
      PROVE  /\ pendingApplied \in [Process -> Snapshot \cup {NoSnapshot}]
             /\ mutation \in [Process -> Mutation \cup {Idle}]
             /\ poisoned \in [Process -> BOOLEAN]
  BY <1>3 DEF Init
<1>4. ASSUME Init
      PROVE  /\ mode \in Modes /\ status \in {"running", "paused", "error"}
             /\ cycle \in {"none", "refreshing", "running", "failing", "ending"}
             /\ startup \in {"first", "acknowledge", "done"} /\ killQueued \in BOOLEAN
             /\ loaded \in Row \cup {NoRow} /\ boundary \in Row \cup {NoRow}
             /\ controlClean \in BOOLEAN /\ awaitingRestart \subseteq Nat
  BY <1>4 DEF Init
<1>5. ASSUME Init
      PROVE  changes \in Nat /\ faults \in 0..MaxFaults
  BY <1>5, ModelOK DEF Init
<1> QED
  BY <1>2, <1>3, <1>4, <1>5 DEF TypeOK

(* The await that a mutation is in, and its end *)
LEMMA MutationTypes ==
  ASSUME TypeOK, NEW p \in Process, Write(p) \/ Log(p) \/ MutationFails(p)
  PROVE  /\ TypeOK'
         /\ mutation[p] \in Mutation
         /\ \A q \in Other(p) : mutation'[q] = mutation[q] /\ pendingApplied'[q] = pendingApplied[q]
         /\ mutation'[p] = Idle \/ (mutation'[p].op = mutation[p].op /\ mutation'[p].stage = "log")
         /\ UNCHANGED <<mem, worker>>
<1>1. mutation[p] \in Mutation
  BY DEF Write, Log, MutationFails, TypeOK, Idle
<1>2. PICK logged : logged = [mutation[p] EXCEPT !.stage = "log"]
  OBVIOUS
<1>3. logged \in Mutation /\ logged.op = mutation[p].op /\ logged.stage = "log"
  BY <1>1, <1>2 DEF Mutation
<1>4. CASE Write(p)
  <2>1. mutation' = [mutation EXCEPT ![p] = Idle] \/ mutation' = [mutation EXCEPT ![p] = logged]
    BY <1>2, <1>4 DEF Write
  <2>2. row' \in Row /\ controlClean' \in BOOLEAN
    BY <1>1, <1>4 DEF Write, Mutation
  <2> QED
    BY <1>1, <1>3, <1>4, <2>1, <2>2 DEF Write, TypeOK, worker, Other
<1>5. CASE Log(p)
  <2>1. PICK snapshot : snapshot = [version |-> mutation[p].row.version,
                                    paused |-> mutation[p].row.paused, kill |-> mutation[p].row.kill]
    OBVIOUS
  <2>2. snapshot \in Snapshot
    BY <1>1, <2>1 DEF Mutation, Row, Snapshot
  <2>3. \/ pendingApplied' = [pendingApplied EXCEPT ![p] = snapshot]
        \/ pendingApplied' = [pendingApplied EXCEPT ![p] = pendingApplied[p]]
    BY <1>5, <2>1 DEF Log
  <2>4. pendingApplied' \in [Process -> Snapshot \cup {NoSnapshot}]
        /\ \A q \in Other(p) : pendingApplied'[q] = pendingApplied[q]
    BY <2>2, <2>3 DEF TypeOK, Other
  <2> QED
    BY <1>1, <1>5, <2>4 DEF Log, TypeOK, worker, repository, Other
<1>6. CASE MutationFails(p)
  <2>1. faults' \in 0..MaxFaults /\ poisoned' \in [Process -> BOOLEAN] /\ controlClean' \in BOOLEAN
    BY <1>6, ModelOK DEF MutationFails, TypeOK, Process
  <2> QED
    BY <1>1, <1>6, <2>1 DEF MutationFails, TypeOK, worker, repository, Other
<1> QED
  BY <1>4, <1>5, <1>6

LEMMA RestartedTypes ==
  ASSUME TypeOK, NEW p \in Process, Restarted(p)
  PROVE  /\ mem' \in [Process -> Memory] /\ mem'[p].active = row /\ mem'[p].kill = row.kill
         /\ pendingApplied' \in [Process -> Snapshot \cup {NoSnapshot}]
         /\ mutation' \in [Process -> Mutation \cup {Idle}]
         /\ poisoned' \in [Process -> BOOLEAN] /\ faults' \in 0..MaxFaults
         /\ mutation'[p] = Idle /\ pendingApplied'[p] = NoSnapshot
         /\ \A q \in Other(p) : /\ mem'[q] = mem[q] /\ mutation'[q] = mutation[q]
                                /\ pendingApplied'[q] = pendingApplied[q]
BY FromRowType, ModelOK DEF Restarted, TypeOK, Other

LEMMA BootTypes ==
  ASSUME TypeOK, BootWorker \/ BootControl
  PROVE  TypeOK'
<1>1. CASE BootWorker
  BY <1>1, RestartedTypes DEF BootWorker, Process, TypeOK, repository
<1>2. CASE BootControl
  BY <1>2, RestartedTypes DEF BootControl, Process, TypeOK, repository, worker
<1> QED
  BY <1>1, <1>2

(* A cycle that refreshes has read a record, and a cycle that ends has one  *)
(* to write.                                                                *)
CycleRecords ==
  /\ cycle = "refreshing" => loaded \in Row
  /\ cycle = "ending" => boundary \in Row

(* A cycle begins or the kill switch pauses the runtime. *)
LEMMA BegunOrPaused ==
  ASSUME TypeOK, NEW killed \in BOOLEAN, BeginOrPause(killed)
  PROVE  /\ status' \in {"running", "paused", "error"}
         /\ startup' \in {"first", "acknowledge", "done"}
         /\ \/ killed /\ status' = "paused" /\ cycle' = "none"
            \/ ~killed /\ cycle' = "running" /\ UNCHANGED <<status, startup>>
BY DEF BeginOrPause, FinishCycle, TypeOK

(* The refresh leaves the worker on the record it has read, unless that is  *)
(* the record it held.                                                      *)
LEMMA Installed ==
  ASSUME TypeOK, CycleRecords, RefreshInstalls
  PROVE  /\ TypeOK'
         /\ mem'["control"] = mem["control"]
         /\ \/ loaded = mem["worker"].active /\ UNCHANGED <<mem, pendingApplied>>
            \/ /\ mem'["worker"].active = loaded /\ mem'["worker"].kill = loaded.kill
               /\ pendingApplied'["worker"] = NoSnapshot
         /\ \/ status' = "paused" /\ cycle' = "none"
            \/ ~mem'["worker"].kill /\ cycle' = "running" /\ UNCHANGED <<status, startup>>
<1>1. loaded \in Row
  BY DEF RefreshInstalls, CycleRecords
<1>2. PICK next \in Memory : next = FromRow(loaded)
  BY <1>1, FromRowType
<1>3. next.active = loaded /\ next.kill = loaded.kill
  BY <1>1, <1>2, FromRowType
<1>4. \/ loaded = mem["worker"].active /\ UNCHANGED <<mem, pendingApplied>>
      \/ /\ mem' = [mem EXCEPT !["worker"] = next]
         /\ pendingApplied' = [pendingApplied EXCEPT !["worker"] = NoSnapshot]
  BY <1>2 DEF RefreshInstalls, Adopt
<1>5. /\ mem' \in [Process -> Memory]
      /\ pendingApplied' \in [Process -> Snapshot \cup {NoSnapshot}]
      /\ mem'["control"] = mem["control"]
      /\ \/ loaded = mem["worker"].active /\ UNCHANGED <<mem, pendingApplied>>
         \/ /\ mem'["worker"].active = loaded /\ mem'["worker"].kill = loaded.kill
            /\ pendingApplied'["worker"] = NoSnapshot
  BY <1>3, <1>4 DEF TypeOK, Process
<1>6. PICK killed \in BOOLEAN : killed = mem'["worker"].kill
  BY <1>5, ActiveType DEF Process
<1>7. BeginOrPause(killed)
  BY <1>6 DEF RefreshInstalls
<1>8. /\ status' \in {"running", "paused", "error"}
      /\ startup' \in {"first", "acknowledge", "done"}
      /\ \/ killed /\ status' = "paused" /\ cycle' = "none"
         \/ ~killed /\ cycle' = "running" /\ UNCHANGED <<status, startup>>
  BY <1>7, BegunOrPaused
<1>9. UNCHANGED <<repository, mutation, poisoned, mode, killQueued, loaded,
                  boundary, changes, faults, controlClean, awaitingRestart>>
  BY DEF RefreshInstalls
<1>10. TypeOK'
  BY <1>5, <1>8, <1>9 DEF TypeOK, repository
<1> QED
  BY <1>5, <1>6, <1>8, <1>10

(* What a cycle's end applies and what it leaves to write *)
LEMMA Ended ==
  ASSUME TypeOK, CycleRecords, EndCycle
  PROVE  /\ TypeOK' /\ CycleRecords'
         /\ mem'["control"] = mem["control"]
         /\ UNCHANGED <<row, latestVersion, mutation, poisoned, mode, killQueued, faults,
                        controlClean, awaitingRestart>>
         /\ pendingApplied'["worker"] = NoSnapshot
         /\ \/ cycle' = "none" /\ UNCHANGED mem
            \/ cycle' = "ending" /\ pendingApplied["worker"] # NoSnapshot
         /\ status' = (IF cycle = "failing" THEN "error" ELSE status)
         /\ startup' \in {startup, "acknowledge"}
         /\ startup' # startup => startup = "first" /\ status' # "error"
<1> DEFINE p == pendingApplied["worker"]
<1>0. PICK stamped \in Nat : stamped = changes + 1
  BY DEF TypeOK
<1>1. /\ status' = (IF cycle = "failing" THEN "error" ELSE status) /\ loaded' = NoRow
      /\ UNCHANGED <<repository, mode, killQueued, faults, controlClean, awaitingRestart>>
  BY DEF EndCycle
<1>2. status' \in {"running", "paused", "error"} /\ NoRow \in {NoRow}
  BY <1>1 DEF TypeOK
<1>3. CASE p = NoSnapshot
  <2>1. FinishCycle /\ UNCHANGED <<managers, boundary, changes>>
    BY <1>3 DEF EndCycle
  <2>2. cycle' = "none" /\ startup' \in {startup, "acknowledge"}
        /\ (startup' # startup => startup = "first" /\ status' # "error")
    BY <2>1 DEF FinishCycle
  <2>3. TypeOK'
    BY <1>1, <1>2, <2>1, <2>2 DEF TypeOK, managers, repository
  <2> QED
    BY <1>1, <1>3, <2>1, <2>2, <2>3 DEF managers, repository, CycleRecords
<1>4. CASE p # NoSnapshot
  <2>1. p \in Snapshot
    BY <1>4 DEF TypeOK, Process
  <2>2. p.version \in Nat /\ p.paused \in BOOLEAN /\ p.kill \in BOOLEAN
    BY <2>1 DEF Snapshot
  <2>3. mem["worker"] \in Memory /\ mem["worker"].active \in Row
    BY ActiveType DEF TypeOK, Process
  <2>4. PICK active : active = Settled(mem["worker"].active, p.version, stamped)
    OBVIOUS
  <2>5. active \in Row
    BY <2>2, <2>3, <2>4, SettledRow
  <2>6. PICK next : next = [mem["worker"] EXCEPT !.active = active, !.paused = p.paused,
                                                 !.kill = p.kill]
    OBVIOUS
  <2>7. next \in Memory
    BY <2>2, <2>3, <2>5, <2>6 DEF Memory
  <2>8. /\ changes' = stamped
        /\ mem' = [mem EXCEPT !["worker"] = next]
        /\ pendingApplied' = [pendingApplied EXCEPT !["worker"] = NoSnapshot]
        /\ boundary' = active
        /\ cycle' = "ending"
        /\ UNCHANGED <<mutation, poisoned, startup>>
    BY <1>0, <1>4, <2>4, <2>6 DEF EndCycle, Settled
  <2>9. mem' \in [Process -> Memory] /\ mem'["control"] = mem["control"]
        /\ pendingApplied' \in [Process -> Snapshot \cup {NoSnapshot}]
        /\ pendingApplied'["worker"] = NoSnapshot
    BY <2>7, <2>8 DEF TypeOK, Process
  <2>10. TypeOK'
    BY <1>1, <1>2, <2>5, <2>8, <2>9 DEF TypeOK, repository
  <2> QED
    BY <1>1, <1>4, <2>5, <2>8, <2>9, <2>10 DEF repository, CycleRecords
<1> QED
  BY <1>3, <1>4

(* The cycle's other steps *)
LEMMA CycleTypes ==
  ASSUME TypeOK, CycleRecords, Acknowledge \/ RefreshReads \/ LiveCycleBegins \/ BoundaryWritten
                   \/ RefreshFails \/ Escalate \/ QueuedKillRejected
  PROVE  TypeOK'
<1>1. CASE Acknowledge
  BY <1>1, AcknowledgeBegan
<1>2. CASE RefreshReads
  BY <1>2 DEF RefreshReads, TypeOK, repository, managers
<1>3. CASE LiveCycleBegins
  <2>1. PICK killed \in BOOLEAN : killed = mem["worker"].kill
    BY ActiveType DEF TypeOK, Process
  <2>2. BeginOrPause(killed)
    BY <1>3, <2>1 DEF LiveCycleBegins
  <2>3. /\ status' \in {"running", "paused", "error"}
        /\ startup' \in {"first", "acknowledge", "done"}
        /\ cycle' \in {"none", "running"}
    BY <2>2, BegunOrPaused DEF TypeOK
  <2>4. UNCHANGED <<repository, managers, mode, killQueued, loaded, boundary, changes, faults,
                    controlClean, awaitingRestart>>
    BY <1>3 DEF LiveCycleBegins
  <2> QED
    BY <2>3, <2>4 DEF TypeOK, repository, managers
<1>4. CASE BoundaryWritten
  <2>1. boundary \in Row /\ row' \in Row /\ faults' \in 0..MaxFaults /\ controlClean' \in BOOLEAN
    <3>1. boundary \in Row /\ row \in Row
      BY <1>4 DEF BoundaryWritten, CycleRecords, TypeOK
    <3>2. CASE row' = boundary /\ controlClean' = FALSE /\ UNCHANGED faults
      BY <3>1, <3>2 DEF TypeOK
    <3>3. CASE faults < MaxFaults /\ faults' = faults + 1 /\ UNCHANGED <<row, controlClean>>
      <4>1. faults' \in 0..MaxFaults
        BY <3>3, ModelOK DEF TypeOK
      <4> QED
        BY <3>1, <3>3, <4>1 DEF TypeOK
    <3> QED
      BY <1>4, <3>2, <3>3 DEF BoundaryWritten
  <2>2. cycle' = "none" /\ startup' \in {"first", "acknowledge", "done"}
    BY <1>4 DEF BoundaryWritten, FinishCycle, TypeOK
  <2>3. UNCHANGED <<latestVersion, managers, mode, status, killQueued, loaded, changes,
                    awaitingRestart>> /\ boundary' = NoRow
    BY <1>4 DEF BoundaryWritten
  <2> QED
    BY <2>1, <2>2, <2>3 DEF TypeOK, managers
<1>5. CASE RefreshFails
  <2>1. faults' \in 0..MaxFaults
    BY <1>5, ModelOK DEF RefreshFails, TypeOK
  <2> QED
    BY <1>5, <2>1 DEF RefreshFails, TypeOK, repository, managers
<1>6. CASE Escalate
  BY <1>6 DEF Escalate, TypeOK, repository, managers
<1>7. CASE QueuedKillRejected
  BY <1>7 DEF QueuedKillRejected, TypeOK, repository, managers
<1> QED
  BY <1>1, <1>2, <1>3, <1>4, <1>5, <1>6, <1>7

(* The queued kill is an overlay mutation. *)
LEMMA QueuedKillBegan ==
  ASSUME TypeOK, QueuedKillBegins
  PROVE  /\ TypeOK' /\ Began("worker", "trigger")
         /\ InCycle("worker") => /\ mem'["worker"].kill = mem["worker"].kill
                                 /\ mem'["worker"].paused = mem["worker"].paused
                                 /\ mem'["worker"].active.applied = mem["worker"].active.applied
         /\ killQueued /\ UNCHANGED <<mode, status, cycle, startup, loaded, boundary>>
<1>1. BeginOverlay("worker", "trigger", TRUE, TRUE) /\ killQueued' = FALSE /\ killQueued
      /\ UNCHANGED <<mode, status, cycle, startup, loaded, boundary>>
  BY DEF QueuedKillBegins, TriggerKill
<1>2. /\ Began("worker", "trigger")
      /\ InCycle("worker") => /\ mem'["worker"].kill = mem["worker"].kill
                              /\ mem'["worker"].paused = mem["worker"].paused
                              /\ mem'["worker"].active.applied = mem["worker"].active.applied
      /\ UNCHANGED <<latestVersion, pendingApplied, awaitingRestart>>
  BY <1>1, OverlayBegan DEF Process, Op
<1> QED
  BY <1>1, <1>2 DEF Began, TypeOK

(* The steps of a mutation, of a route or of a restart leave the records of *)
(* the cycle alone, or end it.                                              *)
LEMMA RecordsKept ==
  ASSUME TypeOK, CycleRecords, [Next]_vars
  PROVE  CycleRecords'
<1>1. CASE ControlRoutes
  BY <1>1, RouteBegan DEF CycleRecords, worker
<1>2. CASE \E p \in Process : Write(p) \/ Log(p) \/ MutationFails(p)
  BY <1>2, MutationTypes DEF CycleRecords, worker
<1>3. CASE BootWorker
  BY <1>3 DEF BootWorker, CycleRecords
<1>4. CASE BootControl
  BY <1>4 DEF BootControl, CycleRecords, worker
<1>5. CASE Acknowledge
  BY <1>5 DEF Acknowledge, CycleRecords
<1>6. CASE RefreshReads
  BY <1>6 DEF RefreshReads, CycleRecords, TypeOK
<1>7. CASE RefreshInstalls
  BY <1>7, Installed DEF CycleRecords
<1>8. CASE LiveCycleBegins
  BY <1>8 DEF LiveCycleBegins, BeginOrPause, FinishCycle, CycleRecords
<1>9. CASE EndCycle
  BY <1>9, Ended
<1>10. CASE BoundaryWritten
  BY <1>10 DEF BoundaryWritten, FinishCycle, CycleRecords
<1>11. CASE RefreshFails
  BY <1>11 DEF RefreshFails, CycleRecords
<1>12. CASE Escalate
  BY <1>12 DEF Escalate, CycleRecords
<1>13. CASE QueuedKillBegins
  BY <1>13 DEF QueuedKillBegins, CycleRecords
<1>14. CASE QueuedKillRejected
  BY <1>14 DEF QueuedKillRejected, CycleRecords
<1>15. CASE UNCHANGED vars
  BY <1>15 DEF vars, worker, CycleRecords
<1> QED
  BY <1>1, <1>2, <1>3, <1>4, <1>5, <1>6, <1>7, <1>8, <1>9, <1>10, <1>11, <1>12, <1>13,
     <1>14, <1>15 DEF Next, WorkerSteps

LEMMA StepTypes ==
  ASSUME TypeOK, CycleRecords, [Next]_vars
  PROVE  TypeOK'
<1>1. CASE ControlRoutes
  BY <1>1, RouteBegan
<1>2. CASE \E p \in Process : Write(p) \/ Log(p) \/ MutationFails(p)
  BY <1>2, MutationTypes
<1>3. CASE BootWorker \/ BootControl
  BY <1>3, BootTypes
<1>4. CASE RefreshInstalls
  BY <1>4, Installed
<1>5. CASE EndCycle
  BY <1>5, Ended
<1>6. CASE QueuedKillBegins
  BY <1>6, QueuedKillBegan
<1>7. CASE Acknowledge \/ RefreshReads \/ LiveCycleBegins \/ BoundaryWritten
             \/ RefreshFails \/ Escalate \/ QueuedKillRejected
  BY <1>7, CycleTypes
<1>8. CASE UNCHANGED vars
  BY <1>8 DEF vars, repository, managers, worker, TypeOK
<1> QED
  BY <1>1, <1>2, <1>3, <1>4, <1>5, <1>6, <1>7, <1>8 DEF Next, WorkerSteps

(* Every reachable state is well typed, and the records that a cycle reads  *)
(* or is about to write are records.                                        *)
THEOREM ConfigTypes == Spec => [](TypeOK /\ CycleRecords)
<1>1. Init => TypeOK /\ CycleRecords
  BY InitTypes DEF Init, CycleRecords
<1>2. TypeOK /\ CycleRecords /\ [Next]_vars => TypeOK' /\ CycleRecords'
  BY RecordsKept, StepTypes
<1> QED
  BY <1>1, <1>2, PTL DEF Spec

-----------------------------------------------------------------------------
(* The paper worker *)

(* No kill of the engine's is under way: a cycle that triggers one fails,   *)
(* and the runtime's error stops the cycles until the process restarts.     *)
Calm == status # "error" /\ cycle # "failing"

(* Until then nothing but the acknowledgement of a restart, which waits for *)
(* the first cycle, mutates the worker's configuration, nothing is left for *)
(* a boundary, and the applied kill switch is the record's.                 *)
Quiet ==
  /\ ~killQueued
  /\ mutation["worker"] # Idle => mutation["worker"].op = "acknowledge" /\ startup = "done"
  /\ pendingApplied["worker"] = NoSnapshot
  /\ mem["worker"].kill = mem["worker"].active.kill

(* The cycles of a paper worker *)
Paced ==
  /\ cycle = "refreshing" => status = "running"
  /\ startup = "acknowledge" => cycle = "none" /\ status # "error"

PaperInv == mode = "paper" => Paced /\ (Calm => Quiet) /\ CycleObeysRecord

(* What the control service holds is what it writes, then what is recorded. *)
ControlInv ==
  /\ mutation["control"].stage = "write"
       => Agree(mem["control"].active, mutation["control"].row)
  /\ controlClean /\ mutation["control"].stage # "write"
       => Agree(mem["control"].active, row)

(* No step but its own touches the control service's memory or mutation. *)
LEMMA ControlStep ==
  ASSUME TypeOK, CycleRecords, ControlInv, [Next]_vars
  PROVE  ControlInv'
<1> DEFINE a == mem["control"].active
           m == mutation["control"]
<1>0. /\ "control" \in Process /\ "worker" \in Process
      /\ "control" \in Other("worker") /\ "worker" \in Other("control")
  BY DEF Process, Other
<1>1. ASSUME a' = a, m' = m, controlClean' => controlClean /\ row' = row
      PROVE  ControlInv'
  BY <1>1 DEF ControlInv
<1>2. CASE ControlRoutes
  <2>1. PICK op \in Op : Began("control", op)
    BY <1>2, RouteBegan
  <2> QED
    BY <2>1 DEF Began, ControlInv
<1>3. ASSUME NEW p \in Process, Write(p) \/ Log(p) \/ MutationFails(p)
      PROVE  ControlInv'
  <2>1. /\ mutation[p] \in Mutation /\ UNCHANGED mem
        /\ \A q \in Other(p) : mutation'[q] = mutation[q]
        /\ mutation'[p] = Idle \/ mutation'[p].stage = "log"
    BY <1>3, MutationTypes
  <2>2. CASE p = "control"
    <3>1. m'.stage # "write" /\ a' = a
      BY <2>1, <2>2 DEF Idle
    <3>2. CASE Write(p)
      BY <2>2, <3>1, <3>2 DEF Write, ControlInv
    <3>3. CASE Log(p)
      BY <2>2, <3>1, <3>3 DEF Log, ControlInv, repository
    <3>4. CASE MutationFails(p)
      <4>1. controlClean' => controlClean /\ m.stage # "write"
        BY <2>2, <3>4 DEF MutationFails
      <4> QED
        BY <3>1, <3>4, <4>1 DEF MutationFails, ControlInv, repository
    <3> QED
      BY <1>3, <3>2, <3>3, <3>4
  <2>3. CASE p = "worker"
    <3>1. a' = a /\ m' = m
      BY <1>0, <2>1, <2>3
    <3>2. controlClean' => controlClean /\ row' = row
      BY <1>3, <2>3 DEF Write, Log, MutationFails, repository, TypeOK
    <3> QED
      BY <1>1, <3>1, <3>2
  <2> QED
    BY <2>2, <2>3 DEF Process
<1>4. CASE BootWorker
  <2>1. Restarted("worker") /\ UNCHANGED <<row, controlClean>>
    BY <1>4 DEF BootWorker, repository
  <2> QED
    BY <1>0, <1>1, <2>1, RestartedTypes
<1>5. CASE BootControl
  <2>1. Restarted("control") /\ UNCHANGED row
    BY <1>5 DEF BootControl, repository
  <2>2. a' = row /\ m' = Idle
    BY <1>0, <2>1, RestartedTypes
  <2>3. Agree(row, row)
    BY AgreeFields DEF TypeOK
  <2>4. Agree(a', row') /\ m'.stage # "write"
    BY <2>1, <2>2, <2>3 DEF Idle
  <2> QED
    BY <2>4 DEF ControlInv
<1>6. CASE RefreshInstalls
  <2>1. a' = a
    BY <1>6, Installed
  <2> QED
    BY <1>1, <1>6, <2>1 DEF RefreshInstalls, repository
<1>7. CASE EndCycle
  <2>1. a' = a /\ UNCHANGED <<mutation, row, controlClean>>
    BY <1>7, Ended
  <2> QED
    BY <1>1, <2>1
<1>8. CASE QueuedKillBegins \/ Acknowledge
  <2>1. CASE \E op \in Op : Began("worker", op)
    <3>1. a' = a /\ m' = m /\ UNCHANGED <<row, controlClean>>
      <4>1. PICK op \in Op : Began("worker", op)
        BY <2>1
      <4> QED
        BY <1>0, <4>1 DEF Began
    <3> QED
      BY <1>1, <3>1
  <2>2. CASE UNCHANGED <<row, managers, controlClean>>
    BY <1>1, <2>2 DEF managers
  <2> QED
    BY <1>8, <2>1, <2>2, QueuedKillBegan, AcknowledgeBegan DEF Op
<1>9. CASE RefreshReads \/ LiveCycleBegins \/ BoundaryWritten \/ RefreshFails \/ Escalate
             \/ QueuedKillRejected \/ UNCHANGED vars
  <2>1. UNCHANGED managers
    BY <1>9 DEF RefreshReads, LiveCycleBegins, BoundaryWritten, RefreshFails, Escalate,
                QueuedKillRejected, vars
  <2>2. controlClean' => controlClean /\ row' = row
    BY <1>9 DEF RefreshReads, LiveCycleBegins, BoundaryWritten, RefreshFails, Escalate,
                QueuedKillRejected, vars, repository
  <2> QED
    BY <1>1, <2>1, <2>2 DEF managers
<1> QED
  BY <1>2, <1>3, <1>4, <1>5, <1>6, <1>7, <1>8, <1>9 DEF Next, WorkerSteps

LEMMA ControlHolds == Init => ControlInv
<1>1. ASSUME Init
      PROVE  /\ mem["control"].active = FirstRow /\ row = FirstRow
             /\ mutation["control"].stage = "idle"
  BY <1>1, FirstRowType, FromRowType DEF Init, Process, Idle
<1>2. Agree(FirstRow, FirstRow)
  BY FirstRowType, AgreeFields
<1> QED
  BY <1>1, <1>2 DEF ControlInv

(* What the control service holds is what is recorded, unless the worker    *)
(* wrote after it or its own write failed or is under way: a mutation       *)
(* changes the memory before it writes, and writes that memory.             *)
THEOREM ControlHoldsRecord == Spec => []ControlAgrees
<1>1. Init => ControlInv
  BY ControlHolds
<1>2. TypeOK /\ CycleRecords /\ ControlInv /\ [Next]_vars => ControlInv'
  BY ControlStep
<1>3. ControlInv => ControlAgrees
  BY DEF ControlInv, ControlAgrees, Agree
<1> QED
  BY <1>1, <1>2, <1>3, ConfigTypes, PTL DEF Spec

(* What a route, the control service's own steps and its restart leave alone *)
LEMMA PaperUntouched ==
  ASSUME PaperInv, UNCHANGED worker, mem'["worker"] = mem["worker"],
         mutation'["worker"] = mutation["worker"],
         pendingApplied'["worker"] = pendingApplied["worker"]
  PROVE  PaperInv'
BY DEF PaperInv, Paced, Calm, Quiet, CycleObeysRecord, PaperCycle, worker

(* The worker's mutations: in a quiet paper worker there is only the        *)
(* acknowledgement's, whose end leaves nothing for a boundary.              *)
LEMMA PaperMutation ==
  ASSUME TypeOK, PaperInv, Write("worker") \/ Log("worker") \/ MutationFails("worker")
  PROVE  PaperInv'
<1>1. /\ mutation["worker"] \in Mutation /\ UNCHANGED <<mem, worker>>
      /\ mutation'["worker"] = Idle \/ (mutation'["worker"].op = mutation["worker"].op
                                        /\ mutation'["worker"].stage = "log")
  BY MutationTypes DEF Process
<1>2. ASSUME mode = "paper", Calm, Quiet
      PROVE  Quiet'
  <2>1. ~killQueued' /\ mem'["worker"].kill = mem'["worker"].active.kill
    BY <1>1, <1>2 DEF Quiet, worker
  <2>2. mutation["worker"].op = "acknowledge" /\ startup = "done"
    BY <1>1, <1>2 DEF Quiet, Mutation, Idle
  <2>3. mutation'["worker"] # Idle => mutation'["worker"].op = "acknowledge" /\ startup' = "done"
    BY <1>1, <2>2 DEF worker
  <2>4. pendingApplied' = pendingApplied \/ pendingApplied' =
          [pendingApplied EXCEPT !["worker"] = pendingApplied["worker"]]
    BY <2>2 DEF Write, Log, MutationFails
  <2>5. pendingApplied'["worker"] = NoSnapshot
    BY <1>2, <2>4 DEF Quiet, TypeOK, Process
  <2> QED
    BY <2>1, <2>3, <2>5 DEF Quiet
<1> QED
  BY <1>1, <1>2 DEF PaperInv, Paced, Calm, CycleObeysRecord, PaperCycle, worker

(* The engine's queued kill only begins when the cycle has failed. *)
LEMMA PaperKill ==
  ASSUME TypeOK, PaperInv, QueuedKillBegins \/ QueuedKillRejected
  PROVE  PaperInv'
<1>1. killQueued /\ UNCHANGED <<mode, status, cycle, startup, loaded>>
  BY DEF QueuedKillBegins, QueuedKillRejected
<1>2. mode = "paper" => ~Calm
  BY <1>1 DEF PaperInv, Quiet
<1> QED
  BY <1>1, <1>2 DEF PaperInv, Paced, Calm, CycleObeysRecord, PaperCycle

(* The acknowledgement of a restart comes between two cycles. *)
LEMMA PaperAcknowledge ==
  ASSUME TypeOK, PaperInv, Acknowledge
  PROVE  PaperInv' /\ (mode = "paper" => cycle = "none")
<1>1. startup = "acknowledge" /\ startup' = "done"
      /\ UNCHANGED <<mode, status, cycle, killQueued, loaded>>
  BY DEF Acknowledge
<1>2. mode = "paper" => cycle = "none" /\ Calm
  BY <1>1 DEF PaperInv, Paced, Calm
<1>3. ASSUME mode = "paper"
      PROVE  Quiet'
  <2>1. Quiet
    BY <1>2, <1>3 DEF PaperInv
  <2>2. CASE Began("worker", "acknowledge") /\ mem'["worker"].kill = mem'["worker"].active.kill
    <3>1. mutation'["worker"].op = "acknowledge"
      BY <2>2 DEF Began
    <3>2. pendingApplied' = [pendingApplied EXCEPT !["worker"] = NoSnapshot]
            \/ pendingApplied' = pendingApplied
      BY DEF Acknowledge, managers
    <3>3. pendingApplied'["worker"] = NoSnapshot
      BY <2>1, <3>2 DEF Quiet, TypeOK, Process
    <3> QED
      BY <1>1, <2>1, <2>2, <3>1, <3>3 DEF Quiet
  <2>3. CASE UNCHANGED <<row, managers, changes, faults, controlClean>>
    BY <1>1, <2>1, <2>3 DEF Quiet, managers
  <2> QED
    BY <2>2, <2>3, AcknowledgeBegan
<1> QED
  BY <1>1, <1>2, <1>3 DEF PaperInv, Paced, Calm, CycleObeysRecord, PaperCycle

(* The steps of a cycle *)
LEMMA PaperInstalls ==
  ASSUME TypeOK, CycleRecords, PaperInv, RefreshInstalls
  PROVE  PaperInv'
<1>1. cycle = "refreshing" /\ UNCHANGED <<mutation, mode, killQueued, loaded>>
  BY DEF RefreshInstalls
<1>2. /\ \/ loaded = mem["worker"].active /\ UNCHANGED <<mem, pendingApplied>>
         \/ /\ mem'["worker"].active = loaded /\ mem'["worker"].kill = loaded.kill
            /\ pendingApplied'["worker"] = NoSnapshot
      /\ \/ status' = "paused" /\ cycle' = "none"
         \/ ~mem'["worker"].kill /\ cycle' = "running" /\ UNCHANGED <<status, startup>>
  BY Installed
<1>3. ASSUME mode = "paper"
      PROVE  /\ status = "running" /\ startup # "acknowledge" /\ Quiet
             /\ mem'["worker"].kill = loaded.kill /\ Quiet'
  <2>1. status = "running" /\ startup # "acknowledge" /\ Quiet
    BY <1>1, <1>3 DEF PaperInv, Paced, Calm
  <2>2. /\ mem'["worker"].kill = loaded.kill
        /\ mem'["worker"].kill = mem'["worker"].active.kill
        /\ pendingApplied'["worker"] = NoSnapshot
    BY <1>2, <2>1 DEF Quiet
  <2>3. startup = "done" => startup' = "done"
    BY DEF RefreshInstalls, BeginOrPause, FinishCycle
  <2> QED
    BY <1>1, <2>1, <2>2, <2>3 DEF Quiet
<1>4. status' = "paused" => status' # "error"
  OBVIOUS
<1> QED
  BY <1>1, <1>2, <1>3, <1>4 DEF PaperInv, Paced, Calm, CycleObeysRecord, PaperCycle

LEMMA PaperEnds ==
  ASSUME TypeOK, CycleRecords, PaperInv, EndCycle
  PROVE  PaperInv'
<1>1. cycle \in {"running", "failing"}
  BY DEF EndCycle
<1>2. /\ UNCHANGED <<mutation, mode, killQueued>>
      /\ pendingApplied'["worker"] = NoSnapshot
      /\ \/ cycle' = "none" /\ UNCHANGED mem
         \/ cycle' = "ending" /\ pendingApplied["worker"] # NoSnapshot
      /\ status' = (IF cycle = "failing" THEN "error" ELSE status)
      /\ startup' \in {startup, "acknowledge"}
      /\ startup' # startup => startup = "first" /\ status' # "error"
  BY Ended
<1>3. ASSUME mode = "paper", Calm'
      PROVE  Quiet' /\ cycle' = "none"
  <2>1. Quiet
    BY <1>2, <1>3 DEF PaperInv, Calm
  <2> QED
    BY <1>2, <2>1 DEF Quiet
<1>4. ASSUME mode = "paper", startup' = "acknowledge"
      PROVE  status' # "error" /\ cycle' = "none"
  <2>1. startup # "acknowledge"
    BY <1>1, <1>4 DEF PaperInv, Paced
  <2>2. status' # "error"
    BY <1>2, <1>4, <2>1
  <2>3. Calm'
    BY <1>2, <2>2 DEF Calm
  <2> QED
    BY <1>3, <1>4, <2>2, <2>3
<1> QED
  BY <1>2, <1>3, <1>4 DEF PaperInv, Paced, CycleObeysRecord, PaperCycle

LEMMA PaperCycles ==
  ASSUME TypeOK, PaperInv, RefreshReads \/ LiveCycleBegins \/ BoundaryWritten \/ RefreshFails
                             \/ Escalate
  PROVE  PaperInv'
<1>1. CASE RefreshReads
  <2>1. /\ status = "running" /\ cycle = "none" /\ cycle' = "refreshing"
        /\ startup = "acknowledge" => mutation["worker"] # Idle
        /\ UNCHANGED <<managers, mode, status, startup, killQueued>>
    BY <1>1 DEF RefreshReads, NextCycle
  <2>2. mode = "paper" => Quiet /\ startup # "acknowledge"
    BY <2>1 DEF PaperInv, Calm, Quiet
  <2> QED
    BY <2>1, <2>2 DEF PaperInv, Paced, Calm, Quiet, CycleObeysRecord, PaperCycle, managers
<1>2. CASE LiveCycleBegins
  BY <1>2 DEF LiveCycleBegins, PaperInv
<1>3. CASE BoundaryWritten
  <2>1. /\ cycle = "ending" /\ cycle' = "none" /\ UNCHANGED <<managers, mode, status, killQueued>>
        /\ startup' = (IF startup = "first" /\ status # "error" THEN "acknowledge" ELSE startup)
    BY <1>3 DEF BoundaryWritten, FinishCycle
  <2> QED
    BY <2>1 DEF PaperInv, Paced, Calm, Quiet, CycleObeysRecord, PaperCycle, managers
<1>4. CASE RefreshFails
  BY <1>4 DEF RefreshFails, PaperInv, Paced, Calm, Quiet, CycleObeysRecord, PaperCycle, managers
<1>5. CASE Escalate
  <2>1. cycle = "running" /\ UNCHANGED <<mode, status, startup, loaded>>
        /\ (mode = "paper" => cycle' = "failing")
    BY <1>5 DEF Escalate
  <2> QED
    BY <2>1 DEF PaperInv, Paced, Calm, CycleObeysRecord, PaperCycle
<1> QED
  BY <1>1, <1>2, <1>3, <1>4, <1>5

LEMMA PaperStep ==
  ASSUME TypeOK, CycleRecords, PaperInv, [Next]_vars
  PROVE  PaperInv'
<1>1. CASE ControlRoutes
  <2>1. PICK op \in Op : Began("control", op)
    BY <1>1, RouteBegan
  <2>2. mem'["worker"] = mem["worker"] /\ mutation'["worker"] = mutation["worker"]
    BY <2>1 DEF Began, Other, Process
  <2> QED
    BY <1>1, <2>2, RouteBegan, PaperUntouched
<1>2. CASE \E p \in Process : Write(p) \/ Log(p) \/ MutationFails(p)
  <2>1. CASE Write("control") \/ Log("control") \/ MutationFails("control")
    <3>1. /\ mutation'["worker"] = mutation["worker"] /\ UNCHANGED <<mem, worker>>
          /\ pendingApplied'["worker"] = pendingApplied["worker"]
      BY <2>1, MutationTypes DEF Process, Other
    <3> QED
      BY <3>1, PaperUntouched
  <2> QED
    BY <1>2, <2>1, PaperMutation DEF Process
<1>3. CASE BootWorker
  <2>1. /\ mem'["worker"].active = row /\ mem'["worker"].kill = row.kill
        /\ mutation'["worker"] = Idle /\ pendingApplied'["worker"] = NoSnapshot
    BY <1>3, RestartedTypes DEF BootWorker, Process
  <2>2. /\ status' = "running" /\ cycle' = "none" /\ startup' = "first" /\ killQueued' = FALSE
    BY <1>3 DEF BootWorker
  <2> QED
    BY <2>1, <2>2 DEF PaperInv, Paced, Calm, Quiet, CycleObeysRecord, PaperCycle
<1>4. CASE BootControl
  <2>1. /\ mem'["worker"] = mem["worker"] /\ mutation'["worker"] = mutation["worker"]
        /\ pendingApplied'["worker"] = pendingApplied["worker"] /\ UNCHANGED worker
    BY <1>4, RestartedTypes DEF BootControl, Process, Other
  <2> QED
    BY <2>1, PaperUntouched
<1>5. CASE Acknowledge
  BY <1>5, PaperAcknowledge
<1>6. CASE RefreshInstalls
  BY <1>6, PaperInstalls
<1>7. CASE EndCycle
  BY <1>7, PaperEnds
<1>8. CASE QueuedKillBegins \/ QueuedKillRejected
  BY <1>8, PaperKill
<1>9. CASE RefreshReads \/ LiveCycleBegins \/ BoundaryWritten \/ RefreshFails \/ Escalate
  BY <1>9, PaperCycles
<1>10. CASE UNCHANGED vars
  BY <1>10, PaperUntouched DEF vars, managers
<1> QED
  BY <1>1, <1>2, <1>3, <1>4, <1>5, <1>6, <1>7, <1>8, <1>9, <1>10 DEF Next, WorkerSteps

LEMMA PaperInit == Init => PaperInv
<1>1. ASSUME Init
      PROVE  Quiet
  <2>1. mem["worker"] = FromRow(FirstRow) /\ mutation["worker"] = Idle
        /\ pendingApplied["worker"] = NoSnapshot /\ ~killQueued
    BY <1>1 DEF Init, Process
  <2> QED
    BY <2>1, FirstRowType, FromRowType DEF Quiet
<1> QED
  BY <1>1 DEF Init, PaperInv, Paced, CycleObeysRecord, PaperCycle

(* A paper cycle only runs on a record whose kill switch was off when the   *)
(* cycle refreshed: also when the refresh found the record that the worker  *)
(* already holds and took over nothing, because nothing of the worker's own *)
(* is under way then and its applied kill switch is that record's.          *)
THEOREM PaperCyclesObey == Spec => []CycleObeysRecord
<1>1. TypeOK /\ CycleRecords /\ PaperInv /\ [Next]_vars => PaperInv'
  BY PaperStep
<1>2. PaperInv => CycleObeysRecord
  BY DEF PaperInv, CycleObeysRecord, PaperCycle
<1> QED
  BY <1>1, <1>2, PaperInit, ConfigTypes, PTL DEF Spec

(* The configuration a paper cycle runs under does not change before the    *)
(* cycle ends, whatever the operators and the engine request meanwhile.     *)
THEOREM PaperCyclesUndisturbed == Spec => AppliedAtBoundary
<1> DEFINE Undisturbed ==
      PaperCycle /\ PaperCycle'
        => /\ mem'["worker"].kill = mem["worker"].kill
           /\ mem'["worker"].paused = mem["worker"].paused
           /\ mem'["worker"].active.applied = mem["worker"].active.applied
<1>1. TypeOK /\ CycleRecords /\ PaperInv /\ [Next]_vars => Undisturbed
  <2> SUFFICES ASSUME TypeOK, CycleRecords, PaperInv, [Next]_vars, PaperCycle, PaperCycle'
               PROVE  mem'["worker"] = mem["worker"] \/ Undisturbed
    OBVIOUS
  <2>1. CASE ControlRoutes
    <3>1. PICK op \in Op : Began("control", op)
      BY <2>1, RouteBegan
    <3> QED
      BY <3>1 DEF Began, Other, Process
  <2>2. CASE \E p \in Process : Write(p) \/ Log(p) \/ MutationFails(p)
    BY <2>2 DEF Write, Log, MutationFails
  <2>3. CASE BootControl
    BY <2>3, RestartedTypes DEF BootControl, Process, Other
  <2>4. CASE Acknowledge
    BY <2>4, PaperAcknowledge DEF PaperCycle
  <2>5. CASE QueuedKillBegins
    BY <2>5, QueuedKillBegan DEF InCycle
  <2>6. CASE BootWorker \/ RefreshInstalls \/ EndCycle
    BY <2>6, Ended DEF BootWorker, RefreshInstalls, PaperCycle
  <2>7. CASE RefreshReads \/ LiveCycleBegins \/ BoundaryWritten \/ RefreshFails \/ Escalate
               \/ QueuedKillRejected
    BY <2>7 DEF RefreshReads, LiveCycleBegins, BoundaryWritten, RefreshFails, Escalate,
                QueuedKillRejected, managers
  <2>8. CASE UNCHANGED vars
    BY <2>8 DEF vars, managers
  <2> QED
    BY <2>1, <2>2, <2>3, <2>4, <2>5, <2>6, <2>7, <2>8 DEF Next, WorkerSteps
<1>2. TypeOK /\ CycleRecords /\ PaperInv /\ [Next]_vars => PaperInv'
  BY PaperStep
<1> QED
  BY <1>1, <1>2, PaperInit, ConfigTypes, PTL DEF Spec, AppliedAtBoundary

-----------------------------------------------------------------------------
(***************************************************************************)
(* What clears a recorded kill.  The worker begins nothing but triggers    *)
(* and acknowledgements, and what it keeps for a boundary is a trigger's;  *)
(* so its record holds the kill when the boundary writes it.  The control  *)
(* service, as long as it agrees with the record, writes the kill again    *)
(* with every mutation but a reset.                                        *)
(***************************************************************************)
WorkerKills ==
  /\ mutation["worker"] # Idle => mutation["worker"].op \in {"trigger", "acknowledge"}
  /\ mutation["worker"].op = "trigger" => mutation["worker"].row.kill /\ mem["worker"].active.kill
  /\ pendingApplied["worker"] # NoSnapshot => mem["worker"].active.kill
  /\ cycle = "ending" => boundary.kill
  /\ cycle = "refreshing" => mode = "paper"

ControlKills ==
  controlClean /\ row.kill /\ mutation["control"].stage = "write" /\ mutation["control"].op # "reset"
    => mutation["control"].row.kill

LEMMA OverlayKill ==
  ASSUME TypeOK, NEW p \in Process, NEW op, NEW paused \in BOOLEAN, NEW kill \in BOOLEAN,
         BeginOverlay(p, op, paused, kill)
  PROVE  mem'[p].active.kill = kill
<1>1. PICK r \in Row : r = mem[p].active
  BY ActiveType DEF TypeOK
<1>2. PICK version, pending, stamped :
        /\ version = (IF InCycle(p) THEN r.applied ELSE r.version)
        /\ pending = InCycle(p) /\ stamped = changes + 1
  OBVIOUS
<1>3. PICK active : active = [r EXCEPT !.paused = paused, !.kill = kill, !.stamp = stamped,
                                       !.pending = pending, !.applied = version]
  OBVIOUS
<1>4. active.kill = kill
  BY <1>3 DEF Row
<1>5. PICK next : /\ next.active = active
                  /\ mem' = [mem EXCEPT ![p] = next]
  <2>1. PICK next : next = [active |-> active, restart |-> FALSE,
              paused |-> IF InCycle(p) THEN mem[p].paused ELSE paused,
              kill   |-> IF InCycle(p) THEN mem[p].kill ELSE kill]
    OBVIOUS
  <2>2. next.active = active
    BY <2>1
  <2>3. mem' = [mem EXCEPT ![p] = next]
    BY <1>1, <1>2, <1>3, <2>1 DEF BeginOverlay, Begin
  <2> QED
    BY <2>2, <2>3
<1> QED
  BY <1>4, <1>5 DEF TypeOK

LEMMA PatchKill ==
  ASSUME TypeOK, NEW needsRestart \in BOOLEAN, BeginPatch(needsRestart)
  PROVE  mem'["control"].active.kill = mem["control"].active.kill
<1>1. PICK r \in Row : r = mem["control"].active
  BY ActiveType DEF TypeOK, Process
<1>2. PICK v, now, stamped, version :
        /\ v = latestVersion + 1 /\ now = (~needsRestart /\ ~InCycle("control"))
        /\ stamped = changes + 1 /\ version = (IF now THEN v ELSE r.applied)
  OBVIOUS
<1>3. PICK active : active = [r EXCEPT !.version = v, !.pending = ~now, !.restart = needsRestart,
                                       !.stamp = stamped, !.applied = version]
  OBVIOUS
<1>4. active.kill = r.kill
  BY <1>3 DEF Row
<1>5. PICK next : next = [active |-> active, restart |-> needsRestart,
             paused |-> IF now THEN r.paused ELSE mem["control"].paused,
             kill   |-> IF now THEN r.kill ELSE mem["control"].kill]
  OBVIOUS
<1>6. next.active = active
  BY <1>5
<1>7. mem' = [mem EXCEPT !["control"] = next]
  BY <1>1, <1>2, <1>3, <1>5 DEF BeginPatch, Begin
<1> QED
  BY <1>1, <1>4, <1>6, <1>7 DEF TypeOK, Process

LEMMA ReloadKill ==
  ASSUME TypeOK, Reload
  PROVE  mem'["control"].active.kill = mem["control"].active.kill
<1>1. PICK r \in Row : r = mem["control"].active
  BY ActiveType DEF TypeOK, Process
<1>2. PICK waits, asks, stamped, version :
        /\ waits = (InCycle("control") \/ mem["control"].restart)
        /\ asks = mem["control"].restart
        /\ stamped = changes + 1 /\ version = (IF waits THEN r.applied ELSE r.version)
  OBVIOUS
<1>3. PICK active : active = [r EXCEPT !.pending = waits, !.restart = asks, !.stamp = stamped,
                                       !.applied = version]
  OBVIOUS
<1>4. active.kill = r.kill
  BY <1>3 DEF Row
<1>5. PICK next : next = [active |-> active, restart |-> asks,
             paused |-> IF waits THEN mem["control"].paused ELSE r.paused,
             kill   |-> IF waits THEN mem["control"].kill ELSE r.kill]
  OBVIOUS
<1>6. next.active = active
  BY <1>5
<1>7. mem' = [mem EXCEPT !["control"] = next]
  BY <1>1, <1>2, <1>3, <1>5 DEF Reload, Begin
<1> QED
  BY <1>1, <1>4, <1>6, <1>7 DEF TypeOK, Process

(* A route but the reset keeps the kill that the service holds. *)
LEMMA RouteKill ==
  ASSUME TypeOK, ControlRoutes
  PROVE  /\ \E op \in Op : Began("control", op)
         /\ mutation'["control"].op # "reset" =>
              (mem["control"].active.kill => mem'["control"].active.kill)
<1> DEFINE Keeps == mem["control"].active.kill => mem'["control"].active.kill
<1>0. /\ "control" \in Process
      /\ mem["control"].active.kill \in BOOLEAN /\ mem["control"].active.paused \in BOOLEAN
  BY ActiveType DEF TypeOK, Process
<1>1. \E op \in Op : Began("control", op)
  BY RouteBegan
<1>2. ASSUME SetPause PROVE Keeps
  <2>1. PICK kill \in BOOLEAN : kill = mem["control"].active.kill
    BY <1>0
  <2>2. BeginOverlay("control", "pause", TRUE, kill)
    BY <1>2, <2>1 DEF SetPause
  <2> QED
    BY <1>0, <2>1, <2>2, OverlayKill
<1>3. ASSUME Resume PROVE Keeps
  BY <1>3 DEF Resume
<1>4. ASSUME EmergencyStop PROVE Keeps
  <2>1. BeginOverlay("control", "trigger", TRUE, TRUE)
    BY <1>4 DEF EmergencyStop, TriggerKill
  <2> QED
    BY <1>0, <2>1, OverlayKill
<1>5. ASSUME ResetKill PROVE mutation'["control"].op = "reset"
  <2>1. BeginOverlay("control", "reset", mem["control"].active.paused, FALSE)
    BY <1>5 DEF ResetKill
  <2>2. Began("control", "reset")
    BY <1>0, <2>1, OverlayBegan DEF Op
  <2> QED
    BY <2>2 DEF Began
<1>6. ASSUME Reload PROVE Keeps
  BY <1>6, ReloadKill
<1>7. ASSUME NEW needsRestart \in BOOLEAN, BeginPatch(needsRestart) PROVE Keeps
  BY <1>7, PatchKill
<1>8. Keeps \/ mutation'["control"].op = "reset"
  BY <1>2, <1>3, <1>4, <1>5, <1>6, <1>7 DEF ControlRoutes
<1> QED
  BY <1>1, <1>8

(* A boundary keeps the kill of the worker's record, and writes it. *)
LEMMA EndedKill ==
  ASSUME TypeOK, EndCycle
  PROVE  /\ mem'["worker"].active.kill = mem["worker"].active.kill
         /\ cycle' = "ending" => boundary'.kill = mem["worker"].active.kill
<1>1. PICK r \in Row : r = mem["worker"].active
  BY ActiveType DEF TypeOK, Process
<1>2. CASE pendingApplied["worker"] = NoSnapshot
  BY <1>2 DEF EndCycle, FinishCycle, managers
<1>3. CASE pendingApplied["worker"] # NoSnapshot
  <2>1. PICK p, stamped : p = pendingApplied["worker"] /\ stamped = changes + 1
    OBVIOUS
  <2>2. PICK active : active = [r EXCEPT !.applied = p.version, !.pending = FALSE, !.stamp = stamped]
    OBVIOUS
  <2>3. active.kill = r.kill
    BY <2>2 DEF Row
  <2>4. PICK next : next = [mem["worker"] EXCEPT !.active = active, !.paused = p.paused,
                                                 !.kill = p.kill]
    OBVIOUS
  <2>5. next.active = active
    BY <2>4 DEF TypeOK, Process, Memory
  <2>6. mem' = [mem EXCEPT !["worker"] = next] /\ boundary' = active
    BY <1>1, <1>3, <2>1, <2>2, <2>4 DEF EndCycle
  <2> QED
    BY <1>1, <2>3, <2>5, <2>6 DEF TypeOK, Process
<1> QED
  BY <1>2, <1>3

LEMMA WorkerKillsKept ==
  ASSUME TypeOK, CycleRecords, PaperInv, WorkerKills, [Next]_vars
  PROVE  WorkerKills'
<1>0. /\ "control" \in Process /\ "worker" \in Process
      /\ "control" \in Other("worker") /\ "worker" \in Other("control")
  BY DEF Process, Other
<1>1. ASSUME mem'["worker"] = mem["worker"], mutation'["worker"] = mutation["worker"],
             pendingApplied'["worker"] = pendingApplied["worker"],
             UNCHANGED <<mode, cycle, boundary>> \/ cycle' \in {"none", "running", "failing"}
      PROVE  WorkerKills'
  BY <1>1 DEF WorkerKills
<1>2. CASE ControlRoutes
  <2>1. PICK op \in Op : Began("control", op)
    BY <1>2, RouteBegan
  <2>2. mem'["worker"] = mem["worker"] /\ mutation'["worker"] = mutation["worker"]
    BY <1>0, <2>1 DEF Began
  <2> QED
    BY <1>1, <1>2, <2>2, RouteBegan DEF worker
<1>3. CASE Write("control") \/ Log("control") \/ MutationFails("control")
  BY <1>0, <1>1, <1>3, MutationTypes DEF worker
<1>4. CASE Write("worker") \/ Log("worker") \/ MutationFails("worker")
  <2>1. /\ mutation["worker"] \in Mutation /\ UNCHANGED <<mem, mode, cycle, boundary>>
        /\ mutation'["worker"] = Idle \/ (mutation'["worker"].op = mutation["worker"].op
                                          /\ mutation'["worker"].stage = "log")
    BY <1>0, <1>4, MutationTypes DEF worker
  <2>2. mutation'["worker"] # Idle => mutation'["worker"].row = mutation["worker"].row
    <3>1. CASE Write("worker")
      BY <2>1, <3>1 DEF Write, TypeOK, Process, Mutation
    <3>2. CASE Log("worker") \/ MutationFails("worker")
      BY <3>2 DEF Log, MutationFails, TypeOK, Process
    <3> QED
      BY <1>4, <3>1, <3>2
  <2>3. mutation["worker"] # Idle
    BY <2>1 DEF Mutation, Op, Idle
  <2>4. pendingApplied'["worker"] # NoSnapshot =>
          pendingApplied["worker"] # NoSnapshot \/ mutation["worker"].op = "trigger"
    <3>1. CASE Log("worker")
      <4>1. mutation["worker"].op \in {"trigger", "acknowledge"}
        BY <2>3 DEF WorkerKills
      <4> QED
        BY <3>1, <4>1 DEF Log, TypeOK, Process
    <3>2. CASE Write("worker") \/ MutationFails("worker")
      BY <3>2 DEF Write, MutationFails
    <3> QED
      BY <1>4, <3>1, <3>2
  <2>5. Idle.op # "trigger"
    BY DEF Idle
  <2> QED
    BY <2>1, <2>2, <2>3, <2>4, <2>5 DEF WorkerKills
<1>5. CASE BootWorker
  <2>1. mutation'["worker"] = Idle /\ pendingApplied'["worker"] = NoSnapshot /\ cycle' = "none"
    BY <1>5, RestartedTypes DEF BootWorker, Process
  <2> QED
    BY <2>1 DEF WorkerKills, Idle
<1>6. CASE BootControl
  BY <1>0, <1>1, <1>6, RestartedTypes DEF BootControl, worker
<1>7. CASE Acknowledge
  <2>1. UNCHANGED <<mode, cycle, boundary>>
    BY <1>7 DEF Acknowledge
  <2>2. CASE UNCHANGED managers
    BY <1>1, <2>1, <2>2 DEF managers
  <2>3. CASE Began("worker", "acknowledge")
    <3>1. mutation'["worker"].op = "acknowledge" /\ mutation["worker"] = Idle
      BY <2>3 DEF Began, CanBegin
    <3>2. pendingApplied'["worker"] = NoSnapshot
      <4>1. Idle.op = "none"
        BY DEF Idle
      <4>2. mutation' # mutation
        BY <3>1, <4>1
      <4>3. pendingApplied' = [pendingApplied EXCEPT !["worker"] = NoSnapshot]
        BY <1>7, <4>2 DEF Acknowledge, managers
      <4> QED
        BY <4>3 DEF TypeOK, Process
    <3> QED
      BY <2>1, <3>1, <3>2 DEF WorkerKills
  <2> QED
    BY <1>7, <2>2, <2>3, AcknowledgeBegan DEF managers
<1>8. CASE RefreshInstalls
  <2>1. cycle = "refreshing" /\ UNCHANGED mutation /\ cycle' \in {"none", "running"}
        /\ (UNCHANGED <<mem, pendingApplied>> \/ pendingApplied'["worker"] = NoSnapshot)
    BY <1>8, Installed DEF RefreshInstalls
  <2>2. Quiet
    BY <2>1 DEF WorkerKills, PaperInv, Paced, Calm
  <2>3. mutation["worker"] # Idle => mutation["worker"].op = "acknowledge"
    BY <2>2 DEF Quiet
  <2> QED
    BY <2>1, <2>2, <2>3 DEF Quiet, WorkerKills, Idle
<1>9. CASE EndCycle
  <2>1. /\ UNCHANGED mutation /\ pendingApplied'["worker"] = NoSnapshot
        /\ cycle' = "none" \/ (cycle' = "ending" /\ pendingApplied["worker"] # NoSnapshot)
    BY <1>9, Ended
  <2> QED
    BY <1>9, <2>1, EndedKill DEF WorkerKills
<1>10. CASE QueuedKillBegins
  <2>1. Began("worker", "trigger") /\ UNCHANGED <<mode, cycle, boundary>>
    BY <1>10, QueuedKillBegan
  <2>2. mem'["worker"].active.kill = TRUE
    BY <1>0, <1>10, OverlayKill DEF QueuedKillBegins, TriggerKill
  <2>3. mutation'["worker"].op = "trigger" /\ mutation'["worker"].row.kill
    <3>1. /\ mutation'["worker"].op = "trigger" /\ mutation'["worker"] \in Mutation
          /\ Agree(mem'["worker"].active, mutation'["worker"].row)
          /\ mem' \in [Process -> Memory]
      BY <2>1 DEF Began
    <3>2. mem'["worker"].active \in Row /\ mutation'["worker"].row \in Row
      BY <1>0, <3>1, ActiveType DEF Mutation
    <3> QED
      BY <2>2, <3>1, <3>2, AgreeFields
  <2> QED
    BY <2>1, <2>2, <2>3 DEF WorkerKills
<1>11. CASE RefreshReads
  BY <1>11 DEF RefreshReads, WorkerKills, managers
<1>12. CASE LiveCycleBegins
  BY <1>1, <1>12 DEF LiveCycleBegins, BeginOrPause, FinishCycle, managers
<1>13. CASE BoundaryWritten \/ RefreshFails
  BY <1>1, <1>13 DEF BoundaryWritten, FinishCycle, RefreshFails, managers
<1>14. CASE Escalate
  BY <1>1, <1>14 DEF Escalate, managers
<1>15. CASE QueuedKillRejected \/ UNCHANGED vars
  BY <1>1, <1>15 DEF QueuedKillRejected, vars, managers, worker
<1> QED
  BY <1>2, <1>3, <1>4, <1>5, <1>6, <1>7, <1>8, <1>9, <1>10, <1>11, <1>12, <1>13, <1>14, <1>15
     DEF Next, WorkerSteps, Process

LEMMA ControlKillsKept ==
  ASSUME TypeOK, CycleRecords, ControlInv, ControlKills, [Next]_vars
  PROVE  ControlKills'
<1> DEFINE m == mutation["control"]
<1>0. /\ "control" \in Process /\ "worker" \in Process
      /\ "control" \in Other("worker") /\ "worker" \in Other("control")
  BY DEF Process, Other
<1>1. ASSUME m' = m, controlClean' => controlClean /\ row' = row
      PROVE  ControlKills'
  BY <1>1 DEF ControlKills
<1>2. CASE ControlRoutes
  <2>1. PICK op \in Op : Began("control", op)
    BY <1>2, RouteKill
  <2>2. /\ UNCHANGED <<row, controlClean>> /\ m = Idle
        /\ Agree(mem'["control"].active, m'.row) /\ m' \in Mutation
        /\ mem' \in [Process -> Memory]
    BY <2>1 DEF Began, CanBegin
  <2>3. /\ mem'["control"].active \in Row /\ m'.row \in Row
        /\ mem["control"].active \in Row /\ row \in Row
    BY <1>0, <2>2, ActiveType DEF Mutation, TypeOK
  <2>4. m'.row.kill = mem'["control"].active.kill
    BY <2>2, <2>3, AgreeFields
  <2>5. controlClean => mem["control"].active.kill = row.kill
    <3>1. m.stage # "write"
      BY <2>2 DEF Idle
    <3> QED
      BY <2>3, <3>1, AgreeFields DEF ControlInv
  <2>6. m'.op # "reset" => (mem["control"].active.kill => mem'["control"].active.kill)
    BY <1>2, RouteKill
  <2> QED
    BY <2>2, <2>4, <2>5, <2>6 DEF ControlKills
<1>3. CASE Write("control") \/ Log("control") \/ MutationFails("control")
  <2>1. m'.stage # "write"
    BY <1>0, <1>3, MutationTypes DEF Idle
  <2> QED
    BY <2>1 DEF ControlKills
<1>4. CASE Write("worker") \/ Log("worker") \/ MutationFails("worker")
  <2>1. m' = m
    BY <1>0, <1>4, MutationTypes
  <2>2. controlClean' => controlClean /\ row' = row
    BY <1>4 DEF Write, Log, MutationFails, repository, TypeOK
  <2> QED
    BY <1>1, <2>1, <2>2
<1>5. CASE BootWorker
  <2>1. m' = m
    BY <1>0, <1>5, RestartedTypes DEF BootWorker
  <2> QED
    BY <1>1, <1>5, <2>1 DEF BootWorker, repository
<1>6. CASE BootControl
  <2>1. m'.stage # "write"
    BY <1>0, <1>6, RestartedTypes DEF BootControl, Idle
  <2> QED
    BY <2>1 DEF ControlKills
<1>7. CASE EndCycle
  BY <1>1, <1>7, Ended
<1>8. CASE QueuedKillBegins \/ Acknowledge
  <2>1. CASE \E op \in Op : Began("worker", op)
    <3>1. PICK op \in Op : Began("worker", op)
      BY <2>1
    <3> QED
      BY <1>0, <1>1, <3>1 DEF Began
  <2>2. CASE UNCHANGED <<row, managers, controlClean>>
    BY <1>1, <2>2 DEF managers
  <2> QED
    BY <1>8, <2>1, <2>2, QueuedKillBegan, AcknowledgeBegan DEF Op
<1>9. CASE RefreshInstalls \/ RefreshReads \/ LiveCycleBegins \/ BoundaryWritten \/ RefreshFails
             \/ Escalate \/ QueuedKillRejected \/ UNCHANGED vars
  <2>1. UNCHANGED mutation
    BY <1>9 DEF RefreshInstalls, RefreshReads, LiveCycleBegins, BoundaryWritten, RefreshFails,
                Escalate, QueuedKillRejected, vars, managers
  <2>2. controlClean' => controlClean /\ row' = row
    BY <1>9 DEF RefreshInstalls, RefreshReads, LiveCycleBegins, BoundaryWritten, RefreshFails,
                Escalate, QueuedKillRejected, vars, repository
  <2> QED
    BY <1>1, <2>1, <2>2
<1> QED
  BY <1>2, <1>3, <1>4, <1>5, <1>6, <1>7, <1>8, <1>9 DEF Next, WorkerSteps, Process

(* A recorded kill is cleared by a reset, by an acknowledgement of a        *)
(* restart, or by a control service that does not know of it: nothing else  *)
(* the operators, the worker or its boundaries write loses it.              *)
THEOREM KillLostOnlySo == Spec => KillLossesKnown
<1> DEFINE LossKnown ==
      row.kill /\ ~row'.kill =>
        \E p \in Process :
          /\ mutation[p].stage = "write" /\ row' = mutation[p].row
          /\ \/ mutation[p].op \in {"reset", "acknowledge"}
             \/ p = "control" /\ ~controlClean
<1>1. Init => WorkerKills /\ ControlKills
  <2> SUFFICES ASSUME Init PROVE WorkerKills /\ ControlKills
    OBVIOUS
  <2>1. /\ mutation["worker"] = Idle /\ mutation["control"] = Idle
        /\ pendingApplied["worker"] = NoSnapshot /\ cycle = "none"
    BY DEF Init, Process
  <2> QED
    BY <2>1 DEF WorkerKills, ControlKills, Idle
<1>2. TypeOK /\ CycleRecords /\ PaperInv /\ [Next]_vars => PaperInv'
  BY PaperStep
<1>3. TypeOK /\ CycleRecords /\ ControlInv /\ [Next]_vars => ControlInv'
  BY ControlStep
<1>4. TypeOK /\ CycleRecords /\ PaperInv /\ WorkerKills /\ [Next]_vars => WorkerKills'
  BY WorkerKillsKept
<1>5. TypeOK /\ CycleRecords /\ ControlInv /\ ControlKills /\ [Next]_vars => ControlKills'
  BY ControlKillsKept
<1>6. TypeOK /\ WorkerKills /\ ControlKills /\ [Next]_vars => LossKnown
  <2> SUFFICES ASSUME TypeOK, WorkerKills, ControlKills, [Next]_vars, row.kill, ~row'.kill
               PROVE  LossKnown
    OBVIOUS
  <2>0. row' # row
    OBVIOUS
  <2>1. BoundaryWritten \/ \E p \in Process : Write(p)
    <3>1. ControlRoutes => row' = row
      BY RouteBegan DEF Began
    <3>2. \A p \in Process : Log(p) \/ MutationFails(p) => row' = row
      BY DEF Log, MutationFails, repository
    <3>3. BootWorker \/ BootControl \/ RefreshReads \/ RefreshInstalls \/ LiveCycleBegins \/ EndCycle
            \/ RefreshFails \/ Escalate \/ QueuedKillRejected \/ UNCHANGED vars => row' = row
      BY DEF BootWorker, BootControl, RefreshReads, RefreshInstalls, LiveCycleBegins, EndCycle,
             RefreshFails, Escalate, QueuedKillRejected, vars, repository
    <3>4. QueuedKillBegins \/ Acknowledge => row' = row
      BY QueuedKillBegan, AcknowledgeBegan DEF Began
    <3> QED
      BY <2>0, <3>1, <3>2, <3>3, <3>4 DEF Next, WorkerSteps
  <2>2. CASE BoundaryWritten
    BY <2>0, <2>2 DEF BoundaryWritten, WorkerKills
  <2>3. CASE Write("worker")
    <3>1. /\ mutation["worker"].stage = "write" /\ row' = mutation["worker"].row
      BY <2>3 DEF Write
    <3>2. mutation["worker"].op = "acknowledge"
      BY <3>1 DEF WorkerKills, Idle
    <3> QED
      BY <3>1, <3>2 DEF Process
  <2>4. CASE Write("control")
    <3>1. /\ mutation["control"].stage = "write" /\ row' = mutation["control"].row
      BY <2>4 DEF Write
    <3>2. mutation["control"].op = "reset" \/ ~controlClean
      BY <3>1 DEF ControlKills
    <3> QED
      BY <3>1, <3>2 DEF Process
  <2> QED
    BY <2>1, <2>2, <2>3, <2>4 DEF Process
<1>7. Init => ControlInv
  BY ControlHolds
<1> QED
  BY <1>1, <1>2, <1>3, <1>4, <1>5, <1>6, <1>7, PaperInit, ConfigTypes, PTL DEF Spec, KillLossesKnown

=============================================================================
