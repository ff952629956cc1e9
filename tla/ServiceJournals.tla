--------------------------- MODULE ServiceJournals ---------------------------
(***************************************************************************)
(* The journals of the services: the one of the event gate (WorkerJournal, *)
(* which GatePipeline extends) and, sharing no state with it, the one of   *)
(* restart notifications (DeliveryJournal) and the one of the sidecar loop *)
(* (SidecarLoop), each for any values of its constants.                    *)
(***************************************************************************)
EXTENDS GatePipeline

CONSTANTS
  JournalKeys, DestinationNames, NotificationTypes, JournalDeployments, DeliveryOutcomes,
  JournalQueries, SinkCooldown, JournalDay, JournalWeek, MaxJournalWindow, EnoughDeliveries,
  JournalPageSize, MaxJournalPage, MaxJournalOffset,
  JournalStep, MaxJournalClock, MaxJournalEvents, MaxJournalIds,
  SidecarTokens, SidecarAnswers, MaxSidecarTime, MaxSidecarTicks, MaxSidecarFaults

(* Every destination has a name of its own; a client asks for no more than  *)
(* a page may hold.                                                         *)
ASSUME JournalConstants ==
  /\ JournalDeployments \subseteq [store : {"postgres", "memory"}, sinks : {"routed", "legacy"}]
  /\ DestinationNames \in Seq(STRING)
  /\ \A m, n \in DOMAIN DestinationNames : DestinationNames[m] = DestinationNames[n] => m = n
  /\ \A n \in DOMAIN DestinationNames : DestinationNames[n] # "none"
  /\ \A query \in JournalQueries : query.from \in Int /\ query.to \in Int
  /\ JournalDay \in Nat /\ JournalWeek \in Nat /\ JournalStep \in Nat
  /\ MaxJournalPage \in Nat /\ JournalPageSize \in 1..MaxJournalPage
  /\ MaxJournalOffset \in Nat /\ MaxJournalIds \in Nat

VARIABLES
  service, alerts, ids, events, counter, clock, read,
  loop, sidecarFile, registry, starting, sidecarStopped, sidecarClock, sidecarTicks,
  sidecarFaults, early, reported, lost

journalVars ==
  <<service, alerts, ids, events, counter, clock, read>>
sidecarVars ==
  <<loop, sidecarFile, registry, starting, sidecarStopped, sidecarClock, sidecarTicks,
    sidecarFaults, early, reported, lost>>

Journal == INSTANCE DeliveryJournal WITH
  Keys <- JournalKeys, Names <- DestinationNames, Types <- NotificationTypes,
  Deployments <- JournalDeployments, Outcomes <- DeliveryOutcomes, Queries <- JournalQueries,
  Cooldown <- SinkCooldown, Day <- JournalDay, Week <- JournalWeek,
  MaxWindow <- MaxJournalWindow, Enough <- EnoughDeliveries,
  PageSize <- JournalPageSize, MaxPage <- MaxJournalPage, MaxOffset <- MaxJournalOffset,
  Step <- JournalStep, MaxClock <- MaxJournalClock, MaxEvents <- MaxJournalEvents,
  MaxIds <- MaxJournalIds

Sidecar == INSTANCE SidecarLoop WITH
  Tokens <- SidecarTokens, Answers <- SidecarAnswers,
  MaxTime <- MaxSidecarTime, MaxTicks <- MaxSidecarTicks, MaxFaults <- MaxSidecarFaults,
  file <- sidecarFile, stopped <- sidecarStopped, clock <- sidecarClock,
  ticks <- sidecarTicks, faults <- sidecarFaults

ASSUME SidecarConstants ==
  /\ SidecarTokens \in Seq(STRING)
  /\ SidecarAnswers \subseteq Seq(Sidecar!RawCandidate)

(* Readers of the journal miss nothing, and memory and Postgres answer      *)
(* alike (see DeliveryJournal).                                             *)
JournalToldTrue == Journal!ReadsWhole /\ Journal!StoresAgree

(* The sidecar's journal tells what its ticks did (see SidecarLoop). *)
SidecarJournalTrue == Sidecar!SidecarJournalTrue
=============================================================================
