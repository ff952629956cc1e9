------------------------------ MODULE Services ------------------------------
(***************************************************************************)
(* Components of the services that share no state, each for any values of  *)
(* its constants: one call of the execution handler (LiveTrade), the       *)
(* paper runtime (PaperRuntime) and the market data of its cycles          *)
(* (MarketIntake), the store of the configuration (ConfigStore), the       *)
(* control plane's backup (ControlPlaneBackup) and the schema migrations   *)
(* (SchemaMigrations).  MCServices runs them next to each other.           *)
(***************************************************************************)
EXTENDS Integers, Sequences

CONSTANTS
  Payers, BotWallet, HandlerDeployments, MaxVerifications,
  PaperModes, MaxPaperCycles, MaxPaperControls, MaxPaperFaults,
  Adapters, BreakerThreshold, BreakerRecovery, MaxRetries, MaxIntakeTime, MaxTries,
  StoreControls, SeedMode, StoreKinds, MaxStoreChanges, MaxStoreFaults,
  MaxBackupWrites, MaxBackupFaults,
  Migrators, MigrationFiles, SchemaReleases, MaxDeploys, MaxDeployFaults

(* The mark of a transaction that was not built is no wallet. *)
ASSUME TradeConstants == "none" \notin Payers /\ BotWallet \in Payers

ASSUME PaperConstants == MaxPaperCycles \in Nat

(* A breaker opens by a failure at the earliest. *)
ASSUME IntakeConstants ==
  /\ Len(Adapters) \in Nat
  /\ BreakerThreshold \in Nat \ {0} /\ BreakerRecovery \in Nat

ASSUME StoreConstants == SeedMode \in {"paper", "live"}

(* An advisory lock that nobody holds is held by no service. *)
ASSUME MigrationConstants == "none" \notin Migrators

VARIABLES
  deployment, intent, tradeAt, guard, quote, payer, sends, chain, attempt, timedOut,
  tradeReport, evidence, incidents,
  paperRecordedKill, paperJournal, paperSummaries, paperMode, paperUp,
  paperStatus, paperCycleInFlight, paperHalted, paperInterval,
  paperIntervals, paperAt, paperEntry, paperDraft, paperLastState,
  paperLastCycleAt, paperDegraded, paperRecovered, paperCycles,
  paperControls, paperFaults, paperOvertaken, paperOverlaps,
  now, clientBreaker, runtimeBreaker, fetching, tries, refused,
  storeKind, store, storeSignal, storeMem, storeJob, storeRefresh,
  storeStuck, storeChanges, storeFaults, storeWritten, storeLost,
  db, dbSchema, dbJob, dbMem, dbWrites, dbOp, dbFile, dbOutcome, dbFaults,
  dbTorn, dbRaced,
  filesPresent, filesApplied, filesLock, filesDeploy, filesRunning,
  filesDeploys, filesFaults, filesConflict

tradeVars ==
  <<deployment, intent, tradeAt, guard, quote, payer, sends, chain, attempt, timedOut,
    tradeReport, evidence, incidents>>
paperVars ==
  <<paperRecordedKill, paperJournal, paperSummaries, paperMode, paperUp,
    paperStatus, paperCycleInFlight, paperHalted, paperInterval,
    paperIntervals, paperAt, paperEntry, paperDraft, paperLastState,
    paperLastCycleAt, paperDegraded, paperRecovered, paperCycles,
    paperControls, paperFaults, paperOvertaken, paperOverlaps>>
intakeVars ==
  <<now, clientBreaker, runtimeBreaker, fetching, tries, refused>>
storeVars ==
  <<storeKind, store, storeSignal, storeMem, storeJob, storeRefresh,
    storeStuck, storeChanges, storeFaults, storeWritten, storeLost>>
backupVars ==
  <<db, dbSchema, dbJob, dbMem, dbWrites, dbOp, dbFile, dbOutcome, dbFaults,
    dbTorn, dbRaced>>
filesVars ==
  <<filesPresent, filesApplied, filesLock, filesDeploy, filesRunning,
    filesDeploys, filesFaults, filesConflict>>

Trade == INSTANCE LiveTrade WITH
  Wallets <- Payers, Wallet <- BotWallet, Deployments <- HandlerDeployments,
  MaxAttempts <- MaxVerifications, at <- tradeAt, report <- tradeReport

Paper == INSTANCE PaperRuntime WITH
  Modes <- PaperModes, MaxCycles <- MaxPaperCycles, MaxControls <- MaxPaperControls,
  MaxFaults <- MaxPaperFaults,
  recordedKill <- paperRecordedKill, journal <- paperJournal,
  summaries <- paperSummaries, mode <- paperMode, up <- paperUp,
  status <- paperStatus, cycleInFlight <- paperCycleInFlight,
  halted <- paperHalted, interval <- paperInterval,
  intervals <- paperIntervals, at <- paperAt, entry <- paperEntry,
  draft <- paperDraft, lastState <- paperLastState,
  lastCycleAt <- paperLastCycleAt, degraded <- paperDegraded,
  recovered <- paperRecovered, cycles <- paperCycles,
  controls <- paperControls, faults <- paperFaults,
  overtaken <- paperOvertaken, overlaps <- paperOverlaps

Intake == INSTANCE MarketIntake WITH
  Threshold <- BreakerThreshold, RecoveryTime <- BreakerRecovery, MaxTime <- MaxIntakeTime

Store == INSTANCE ConfigStore WITH
  Controls <- StoreControls, Kinds <- StoreKinds,
  MaxChanges <- MaxStoreChanges, MaxFaults <- MaxStoreFaults,
  kind <- storeKind, signal <- storeSignal, mem <- storeMem,
  job <- storeJob, refresh <- storeRefresh, stuck <- storeStuck,
  changes <- storeChanges, faults <- storeFaults, written <- storeWritten,
  lost <- storeLost

Backup == INSTANCE ControlPlaneBackup WITH
  MaxWrites <- MaxBackupWrites, MaxFaults <- MaxBackupFaults,
  schema <- dbSchema, job <- dbJob, mem <- dbMem, writes <- dbWrites,
  op <- dbOp, file <- dbFile, outcome <- dbOutcome, faults <- dbFaults,
  torn <- dbTorn, raced <- dbRaced

Migrations == INSTANCE SchemaMigrations WITH
  Services <- Migrators, Files <- MigrationFiles, Releases <- SchemaReleases,
  MaxFaults <- MaxDeployFaults,
  present <- filesPresent, applied <- filesApplied, lock <- filesLock,
  deploy <- filesDeploy, running <- filesRunning, deploys <- filesDeploys,
  faults <- filesFaults, conflict <- filesConflict

(* What the execution handler reports is true of the chain (see LiveTrade). *)
ReportsTrue == Trade!ReportsTrue

(* The handler is the call that the live runtime of LiveCycle takes it to   *)
(* be: it sends after it was admitted, once, and before it says it did.     *)
Call == INSTANCE HandlerCall WITH
  Key <- {"call"}, phase <- [k \in {"call"} |-> Trade!CallPhase],
  sends <- [k \in {"call"} |-> sends]
HandlerIsCall == Call!Spec

(* The paper runtime's summaries and journal agree, and it has its interval *)
(* while it is running (see PaperRuntime).                                  *)
PaperRuntimeTrue == Paper!SummariesTrue /\ Paper!RunningIsArmed

(* A failing adapter is let alone (see MarketIntake). *)
ProbesSpaced == Intake!ProbesSpaced

(* The stored configuration and its history agree (see ConfigStore). *)
HistoryTrue == Store!HistoryTrue

(* A restore brings back the backup (see ControlPlaneBackup). *)
RestoreFaithful == Backup!RestoreFaithful

(* Running services have their migrations (see SchemaMigrations). *)
SchemaSound == Migrations!SchemaSound
=============================================================================
