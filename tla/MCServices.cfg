SPECIFICATION MCSpec
CONSTANTS
  Event <- MCEvent
  Time = {0, 4, 31}
  MaxEvaluations = 4
  Payers = {"bot", "other"}
  BotWallet = "bot"
  HandlerDeployments <- MCDeployments
  MaxVerifications = 3
  PaperModes = {"paper", "dry"}
  MaxPaperCycles = 2
  MaxPaperControls = 2
  MaxPaperFaults = 2
  Adapters <- MCAdapters
  BreakerThreshold = 2
  BreakerRecovery = 2
  MaxRetries = 1
  MaxIntakeTime = 4
  MaxTries = 4
  StoreControls = {"control", "next"}
  SeedMode = "paper"
  StoreKinds = {"postgres", "memory"}
  MaxStoreChanges = 3
  MaxStoreFaults = 1
  MaxBackupWrites = 3
  MaxBackupFaults = 1
  Migrators = {"bot", "control", "worker"}
  MigrationFiles <- MCFiles
  SchemaReleases <- MCReleases
  MaxDeploys = 3
  MaxDeployFaults = 2
  JournalKeys = {"request"}
  DestinationNames <- MCNames
  NotificationTypes = {"alert_opened"}
  JournalDeployments <- MCJournals
  DeliveryOutcomes = {"sent", "failed"}
  JournalQueries <- MCQueries
  SinkCooldown = 2
  JournalDay = 4
  JournalWeek = 8
  MaxJournalWindow = 8
  EnoughDeliveries = 2
  JournalPageSize = 1
  MaxJournalPage = 2
  MaxJournalOffset = 3
  JournalStep = 4
  MaxJournalClock = 8
  MaxJournalEvents = 2
  MaxJournalIds = 2
  SidecarTokens <- MCTokens
  SidecarAnswers <- MCAnswers
  MaxSidecarTime = 1
  MaxSidecarTicks = 1
  MaxSidecarFaults = 1
CHECK_DEADLOCK FALSE
INVARIANTS
  RunsJustified
  Earned
  CadenceCoversSuppression
  TornJournalOverclaimsNothing
  PaperRuntimeTrue
  ReportsTrue
  
  HistoryTrue
  JournalToldTrue
  
  SchemaSound
  SidecarJournalTrue
PROPERTIES
  RedeliveryMovesNothing
