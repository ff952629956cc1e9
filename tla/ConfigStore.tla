----------------------------- MODULE ConfigStore -----------------------------
(***************************************************************************)
(* What the runtime configuration leaves in the database: the versions,    *)
(* the active record and the change log                                    *)
(* (bot/src/persistence/runtime-config-repository.ts), and the signal in   *)
(* Redis (bot/src/storage/runtime-config-store.ts), written call by call   *)
(* by the managers of bot/src/runtime/runtime-config-manager.ts.           *)
(*                                                                         *)
(* A step is one call of the database or of Redis.  The managers are those *)
(* of a control service, of the instance that a redeployment starts next   *)
(* to it, and of the worker, which refreshes.  Module RuntimeConfig has    *)
(* the record's overlay, cycles and restarts in detail; here a record is   *)
(* the versions it names and its kill switch.  Without a database each     *)
(* process has a store of its own, which it takes with it.                 *)
(***************************************************************************)
EXTENDS Integers, Sequences, FiniteSets

CONSTANTS
  Controls,              \* instances of the control service
  SeedMode,              \* the mode of the boot's configuration: "paper" or "live"
  Kinds,                 \* kinds of repository: "postgres", "memory"
  MaxChanges, MaxFaults  \* bounds: mutations and boots that stamp; failing calls and crashes

Worker == "worker"
Process == Controls \cup {Worker}

VARIABLES
  kind,       \* fixed by Init
  store,      \* per place: versions, active record, change log
  signal,     \* per place: the signal state
  mem,        \* per process: the record as its manager has it
  job,        \* per process: its boot or mutation, and the call it is at
  refresh,    \* the worker's refresh: the call it is at, and the record it read
  stuck,      \* per process: the mutation queue holds a rejected promise
  changes, faults,    \* counters that bound the model; changes also stamps
  written, lost       \* history: stamps recorded; those whose writer failed before the log

vars == <<kind, store, signal, mem, job, refresh, stuck, changes, faults, written, lost>>

(* With a database all processes share one place. *)
Home(p) == IF kind = "postgres" THEN "postgres" ELSE p
Place == Process \cup {"postgres"}

(* A version: its id is its place in `versions`, its number has to be       *)
(* unique; its configuration is a mode, and a setting that needs no restart *)
Version(number, previous, config, promoted) ==
  [number |-> number, previous |-> previous, config |-> config, promoted |-> promoted]
NoRow == [requested |-> 0, applied |-> 0, kill |-> FALSE, stamp |-> 0]
Empty == [versions |-> <<>>, active |-> NoRow, log |-> {}]
Down == [at |-> "down", row |-> NoRow, latest |-> 0, patch |-> <<>>, stamp |-> 0,
         promotes |-> FALSE]
NoRefresh == [at |-> "none", row |-> NoRow]
NoSignal == [applied |-> 0, kill |-> FALSE, pending |-> FALSE]

Versions(p) == store[Home(p)].versions
Active(p) == store[Home(p)].active
At(p, place) == job[p].at = place
Goto(p, place) == job' = [job EXCEPT ![p].at = place]

(* getLatestVersionNumber *)
LatestNumber(p) ==
  LET numbers == {Versions(p)[i].number : i \in 1 .. Len(Versions(p))}
  IN  IF numbers = {} THEN 0 ELSE CHOOSE n \in numbers : \A k \in numbers : k <= n

(* loadVersion finds the version. *)
Loads(p, id) == id \in 1 .. Len(Versions(p))

(* A call fails: a fault of the model's budget *)
Fault == faults < MaxFaults /\ faults' = faults + 1

-----------------------------------------------------------------------------
(* Configurations and signals. *)

(* buildRuntimeBehaviorFromSeed: the patch's fields over the base's *)
Patched(config, patch) ==
  [f \in DOMAIN config |-> IF f \in DOMAIN patch THEN patch[f] ELSE config[f]]

(* buildRuntimeBehaviorSeed *)
SeedConfig == [mode |-> SeedMode, setting |-> 0]

(* restartRequiredForPatch *)
NeedsRestart(patch) == "mode" \in DOMAIN patch

Patches == [{"mode"} -> {"paper", "live"}] \cup [{"setting"} -> {1}]

(* A change to live that is no promotion is refused, and logged. *)
Refused(patch, promotes) ==
  "mode" \in DOMAIN patch /\ patch["mode"] = "live" /\ ~promotes

(* buildSignal: what is requested, and whether it is applied *)
SignalOf(row) ==
  [applied |-> row.applied, kill |-> row.kill, pending |-> row.requested # row.applied]

-----------------------------------------------------------------------------
(* The repository. *)

Entry(stamp, version, accepted) == [stamp |-> stamp, version |-> version, accepted |-> accepted]

WithVersion(s, v) == [s EXCEPT !.versions = Append(@, v)]
WithRow(s, row) == [s EXCEPT !.active = row]
WithEntry(s, e) == [s EXCEPT !.log = @ \cup {e}]

(* What seeding adds to a place without an active record *)
Seeded(s, number, stamp, config) ==
  LET id == Len(s.versions) + 1
      v == Version(number, 0, config, FALSE)
      row == [requested |-> id, applied |-> id, kill |-> FALSE, stamp |-> stamp]
  IN  WithEntry(WithRow(WithVersion(s, v), row), Entry(stamp, id, TRUE))

(* UNIQUE (environment, version_number), which the memory does not have *)
NumberTaken(p, number) ==
  kind = "postgres" /\ \E i \in 1 .. Len(Versions(p)) : Versions(p)[i].number = number

-----------------------------------------------------------------------------
(* The boot: initialize(). *)

BootReads(p) ==
  /\ At(p, "down")
  /\ job' = [job EXCEPT ![p] = [Down EXCEPT !.at = IF Active(p) = NoRow THEN "seeding"
                                                   ELSE "loading", !.row = Active(p)]]
  /\ UNCHANGED <<kind, store, signal, mem, refresh, stuck, changes, faults, written, lost>>

(* seedEnvironment, a transaction under an advisory lock.  Who finds that   *)
(* another has seeded takes its version but not its overlay.                *)
Seed(p) ==
  /\ At(p, "seeding")
  /\ \/ /\ Active(p) = NoRow /\ changes < MaxChanges
        /\ changes' = changes + 1
        /\ store' = [store EXCEPT ![Home(p)] =
             Seeded(@, LatestNumber(p) + 1, changes', SeedConfig)]
        /\ mem' = [mem EXCEPT ![p] = store'[Home(p)].active]
        /\ written' = written \cup {changes'}
     \/ /\ Active(p) # NoRow
        /\ mem' = [mem EXCEPT ![p] = [Active(p) EXCEPT !.applied = Active(p).requested, !.kill = FALSE]]
        /\ UNCHANGED <<store, changes, written>>
  /\ Goto(p, "saving")
  /\ UNCHANGED <<kind, signal, refresh, stuck, faults, lost>>

(* The versions that the record names are loaded; one that is missing makes *)
(* the boot throw (the check of the requested one), or is replaced by it.   *)
LoadVersions(p) ==
  /\ At(p, "loading")
  /\ LET row == job[p].row IN
     IF Loads(p, row.requested)
     THEN /\ mem' = [mem EXCEPT ![p] = row]
          /\ Goto(p, "saving")
     ELSE Goto(p, "down") /\ UNCHANGED mem
  /\ UNCHANGED <<kind, store, signal, refresh, stuck, changes, faults, written, lost>>

(* persistSnapshot: an error of Redis is only logged. *)
SaveSignal(p) ==
  /\ At(p, "saving")
  /\ \/ signal' = [signal EXCEPT ![Home(p)] = SignalOf(mem[p])] /\ UNCHANGED faults
     \/ Fault /\ UNCHANGED signal
  /\ Goto(p, "idle")
  /\ UNCHANGED <<kind, store, mem, refresh, stuck, changes, written, lost>>

-----------------------------------------------------------------------------
(* The mutations, one at a time in each process. *)

Begin(p) ==
  /\ At(p, "idle") /\ ~stuck[p]
  /\ changes < MaxChanges /\ changes' = changes + 1
  /\ UNCHANGED <<kind, store, signal, refresh, stuck, faults, written, lost>>

(* applyBehaviorPatch, setMode: the base is the manager's record now. *)
Patch(p, patch, promotes) ==
  /\ p \in Controls
  /\ Begin(p)
  /\ job' = [job EXCEPT ![p] = [at |-> IF Refused(patch, promotes) THEN "refusing" ELSE "latest",
                                row |-> mem[p], latest |-> 0, patch |-> patch,
                                stamp |-> changes', promotes |-> promotes]]
  /\ UNCHANGED mem

ReadLatest(p) ==
  /\ At(p, "latest")
  /\ job' = [job EXCEPT ![p].at = "creating", ![p].latest = LatestNumber(p)]
  /\ UNCHANGED <<kind, store, signal, mem, refresh, stuck, changes, faults, written, lost>>

(* Mutant: the version is created without an await for it, and lost. *)
CreateVersionUnawaited(p) ==
  /\ At(p, "creating")
  /\ LET j == job[p]
         id == Len(Versions(p)) + 1
         row == [j.row EXCEPT !.requested = id, !.stamp = j.stamp]
     IN /\ mem' = [mem EXCEPT ![p] = row]
        /\ job' = [job EXCEPT ![p].at = "writing", ![p].row = row]
  /\ UNCHANGED <<kind, store, signal, refresh, stuck, changes, faults, written, lost>>

(* The new version; then the manager's memory has the record that follows.  *)
CreateVersion(p) ==
  /\ At(p, "creating") /\ ~NumberTaken(p, job[p].latest + 1)
  /\ LET j == job[p]
         id == Len(Versions(p)) + 1
         v == Version(j.latest + 1, j.row.requested,
                      Patched(Versions(p)[j.row.requested].config, j.patch), j.promotes)
         row == [j.row EXCEPT !.requested = id, !.stamp = j.stamp,
                              !.applied = IF NeedsRestart(j.patch) THEN @ ELSE id]
     IN /\ store' = [store EXCEPT ![Home(p)] = WithVersion(@, v)]
        /\ mem' = [mem EXCEPT ![p] = row]
        /\ job' = [job EXCEPT ![p].at = "writing", ![p].row = row]
  /\ UNCHANGED <<kind, signal, refresh, stuck, changes, faults, written, lost>>

(* applyKillSwitchSnapshot; pause, resume and reload write the same way.    *)
(* The worker's engine triggers it in a cycle, which applies it at its end. *)
SetKill(p, kill) ==
  /\ Begin(p)
  /\ p = Worker => kill
  /\ LET row == [mem[p] EXCEPT !.kill = kill, !.stamp = changes',
                               !.applied = IF p = Worker THEN @ ELSE mem[p].requested]
     IN /\ mem' = [mem EXCEPT ![p] = row]
        /\ job' = [job EXCEPT ![p] = [Down EXCEPT !.at = "writing", !.row = row,
                                                  !.stamp = changes']]

(* updateActive *)
WriteRow(p) ==
  /\ At(p, "writing")
  /\ store' = [store EXCEPT ![Home(p)] = WithRow(@, job[p].row)]
  /\ written' = written \cup {job[p].stamp}
  /\ Goto(p, "logging")
  /\ UNCHANGED <<kind, signal, mem, refresh, stuck, changes, faults, lost>>

(* appendChangeLog; what waits for a restart leaves the signal as it is. *)
AppendLog(p) ==
  /\ At(p, "logging") \/ At(p, "refusing")
  /\ store' = [store EXCEPT ![Home(p)] =
       WithEntry(@, Entry(job[p].stamp, job[p].row.requested, At(p, "logging")))]
  /\ Goto(p, IF At(p, "refusing") \/ NeedsRestart(job[p].patch) THEN "idle"
             ELSE IF p = Worker THEN "boundary" ELSE "saving")
  /\ UNCHANGED <<kind, signal, mem, refresh, stuck, changes, faults, written, lost>>

(* endCycle applies the record in memory and writes it whole, without a log *)
(* entry; a refresh may have replaced it, and then nothing is pending.      *)
Boundary(p) ==
  /\ At(p, "boundary")
  /\ IF mem[p].stamp = job[p].stamp
     THEN /\ mem' = [mem EXCEPT ![p].applied = mem[p].requested]
          /\ store' = [store EXCEPT ![Home(p)] = WithRow(@, mem'[p])]
          /\ Goto(p, "saving")
     ELSE Goto(p, "idle") /\ UNCHANGED <<mem, store>>
  /\ UNCHANGED <<kind, signal, refresh, stuck, changes, faults, written, lost>>

(* A call of a mutation is rejected, by its own fault or by the constraint: *)
(* so are all later mutations of the process.  A failing boot exits.        *)
CallFails(p) ==
  /\ \/ At(p, "creating") /\ NumberTaken(p, job[p].latest + 1) /\ UNCHANGED faults
     \/ job[p].at \in {"seeding", "loading", "latest", "creating", "writing", "logging",
                       "refusing"} /\ Fault
  /\ IF job[p].at \in {"seeding", "loading"} THEN Goto(p, "down") /\ UNCHANGED stuck
     ELSE Goto(p, "idle") /\ stuck' = [stuck EXCEPT ![p] = TRUE]
  /\ lost' = IF At(p, "logging") THEN lost \cup {job[p].stamp} ELSE lost
  /\ UNCHANGED <<kind, store, signal, mem, refresh, changes, written>>

(* A process ends, and with it what it kept in its memory. *)
Crash(p) ==
  /\ ~At(p, "down") /\ Fault
  /\ job' = [job EXCEPT ![p] = Down]
  /\ mem' = [mem EXCEPT ![p] = NoRow]
  /\ stuck' = [stuck EXCEPT ![p] = FALSE]
  /\ refresh' = IF p = Worker THEN NoRefresh ELSE refresh
  /\ store' = IF kind = "memory" THEN [store EXCEPT ![p] = Empty] ELSE store
  /\ signal' = IF kind = "memory" THEN [signal EXCEPT ![p] = NoSignal] ELSE signal
  /\ lost' = IF At(p, "logging") THEN lost \cup {job[p].stamp} ELSE lost
  /\ UNCHANGED <<kind, changes, written>>

-----------------------------------------------------------------------------
(* The worker's refresh, which does not wait for its mutations. *)

Refreshing(place) == refresh.at = place
Booted == job[Worker].at \notin {"down", "seeding", "loading"}

RefreshReads ==
  /\ Refreshing("none") /\ Booted
  /\ refresh' = [at |-> IF Active(Worker) = mem[Worker] THEN "saving" ELSE "loading",
                 row |-> Active(Worker)]
  /\ UNCHANGED <<kind, store, signal, mem, job, stuck, changes, faults, written, lost>>

RefreshLoads ==
  /\ Refreshing("loading")
  /\ IF Loads(Worker, refresh.row.requested)
     THEN refresh' = [refresh EXCEPT !.at = "saving"]
          /\ mem' = [mem EXCEPT ![Worker] = refresh.row]
     ELSE refresh' = NoRefresh /\ UNCHANGED mem
  /\ UNCHANGED <<kind, store, signal, job, stuck, changes, faults, written, lost>>

(* The signal is loaded, and saved when it differs. *)
RefreshSaves ==
  /\ Refreshing("saving")
  /\ signal' = [signal EXCEPT ![Home(Worker)] = SignalOf(mem[Worker])]
  /\ refresh' = NoRefresh
  /\ UNCHANGED <<kind, store, mem, job, stuck, changes, faults, written, lost>>

RefreshFails ==
  /\ ~Refreshing("none") /\ Fault
  /\ refresh' = NoRefresh
  /\ UNCHANGED <<kind, store, signal, mem, job, stuck, changes, written, lost>>

-----------------------------------------------------------------------------
Init ==
  /\ kind \in Kinds
  /\ store = [h \in Place |-> Empty] /\ signal = [h \in Place |-> NoSignal]
  /\ mem = [p \in Process |-> NoRow] /\ job = [p \in Process |-> Down]
  /\ refresh = NoRefresh /\ stuck = [p \in Process |-> FALSE]
  /\ changes = 0 /\ faults = 0 /\ written = {} /\ lost = {}

JobStep(p) ==
  \/ BootReads(p) \/ Seed(p) \/ LoadVersions(p) \/ SaveSignal(p)
  \/ ReadLatest(p) \/ CreateVersion(p) \/ WriteRow(p) \/ AppendLog(p) \/ Boundary(p)

Next ==
  \/ \E p \in Process :
       \/ JobStep(p) \/ CallFails(p) \/ Crash(p)
       \/ \E patch \in Patches, promotes \in BOOLEAN :
            (promotes => NeedsRestart(patch)) /\ Patch(p, patch, promotes)
       \/ \E kill \in BOOLEAN : SetKill(p, kill)
  \/ RefreshReads \/ RefreshLoads \/ RefreshSaves \/ RefreshFails

Spec == Init /\ [][Next]_vars

-----------------------------------------------------------------------------
(* The store that operators read and every boot starts from tells the       *)
(* truth, whoever wrote last and wherever a writer failed: the versions     *)
(* that the record and the signal name are there, their numbers are their   *)
(* own, each comes after the one it was made from, and live mode comes with *)
(* a promotion or from that one; what the log calls accepted was recorded;  *)
(* and what is recorded is in the log, unless its writer failed at that     *)
(* very call or is about to make it.                                        *)
HistoryTrue ==
  \A h \in Place :
    LET s == store[h]
        ids == 1 .. Len(s.versions)
        live(i) == s.versions[i].config.mode = "live"
    IN /\ {s.active.requested, s.active.applied, signal[h].applied} \subseteq ids \cup {0}
       /\ \A i, j \in ids : s.versions[i].number = s.versions[j].number => i = j
       /\ \A i \in ids :
            LET v == s.versions[i] IN
            /\ v.previous < i
            /\ live(i) => v.promoted \/ v.previous = 0 \/ live(v.previous)
       /\ \A e \in s.log : e.accepted => e.stamp \in written
       /\ s.active.stamp \notin lost \cup {0}
            => \/ \E e \in s.log : e.stamp = s.active.stamp /\ e.accepted
               \/ \E p \in Process : At(p, "logging") /\ job[p].stamp = s.active.stamp
=============================================================================
