------------------------------ MODULE MCServices ------------------------------
(***************************************************************************)
(* Parts of the services that share no state in these models: the event    *)
(* gate, the paper runtime, its market data, the store of its              *)
(* configuration, the journal of restart notifications, the backup of the  *)
(* control plane, schema migrations, the worker's sidecar loop, and one     *)
(* call of the execution handler.  A behaviour explores one of them and    *)
(* leaves the others as they began.                                        *)
(*                                                                         *)
(* The events are of one token and one wallet, chosen to differ in         *)
(* cooldown class, in route and in the stage that stops them.              *)
(***************************************************************************)
EXTENDS Services, ServiceJournals, TLC

Base == [entity |-> "x", type |-> "update", valid |-> TRUE, toxic |-> FALSE,
         promotion |-> FALSE, suppression |-> FALSE, riskSpike |-> FALSE, conflict |-> FALSE,
         confidence |-> 85, integrity |-> 60, freshness |-> 60, convergence |-> 50,
         transition |-> 40, severityScore |-> 40, trusted |-> 0,
         severity |-> "medium", state |-> "stable", group |-> "none"]
Token == [family |-> "lowcap"] @@ Base
Wallet == [family |-> "shadow"] @@ Base

TokenSmall == Token
TokenPrime == [Token EXCEPT !.severity = "critical"]
TokenDeferred == [Token EXCEPT !.confidence = 70, !.convergence = 30]
WalletDeep == [Wallet EXCEPT !.transition = 80, !.state = "notable_change"]
WalletSpike == [Wallet EXCEPT !.riskSpike = TRUE]

MCEvent == {TokenSmall, TokenPrime, TokenDeferred, WalletDeep, WalletSpike}

VARIABLE side

(* A control service with its worker, or with the instance that a           *)
(* redeployment starts next to it; one fault                                *)
StoreBound == "down" \in {storeJob'["next"].at, storeJob'["worker"].at}

(* One alert whose row may be replaced; a day is one step of the clock, and *)
(* a client asks for what is critical by now, or for a window of the past.  *)
Production == [store |-> "postgres", sinks |-> "routed"]
Ask(to, severity) ==
  [from |-> -1, to |-> to, destination |-> {}, severity |-> severity, status |-> {}]
MCNames == <<"primary", "secondary">>
MCJournals ==
  {Production, [Production EXCEPT !.store = "memory"], [Production EXCEPT !.sinks = "legacy"]}
MCQueries == {Ask(-1, {"critical"}), Ask(3, {})}

(* The client begins after a first day, and a behaviour ends with it; two   *)
(* events about an alert, or one event and two ids.                         *)
JournalBound ==
  /\ read.pc # "done"
  /\ read'.pc # "idle" => clock >= 4
  /\ Len(events') + ids' <= 3

(* A release, the next one with a file in between, and one whose file was   *)
(* edited                                                                   *)
Earlier == [file \in {"001", "003"} |-> "a"]
Later == [file \in {"001", "002", "003"} |-> "a"]
Edited == ("001" :> "a") @@ ("003" :> "b")
MCFiles == <<"001", "002", "003">>
MCReleases == {Earlier, Later, Edited}

(* A discovery that accepts two tokens of three, of which one expires soon *)
Raw(token, level, ttl) ==
  [token |-> token, level |-> level, recommendation |-> "monitor", ttl |-> ttl]
MCTokens == <<"a", "b">>
MCAnswers == {<<Raw("b", 95, 2), Raw("b", 69, 2), Raw("a", 72, 1)>>}

(* Everything in place, and one thing at a time amiss *)
Ready ==
  [liveTrading |-> TRUE, realRpc |-> TRUE, hasWallet |-> TRUE, rpc |-> "object",
   signer |-> "remote", signerWallet |-> "bot", tokensAgree |-> TRUE, keysAgree |-> TRUE]
MCDeployments ==
  {Ready, [Ready EXCEPT !.rpc = "web3"], [Ready EXCEPT !.rpc = "blind"],
   [Ready EXCEPT !.liveTrading = FALSE], [Ready EXCEPT !.realRpc = FALSE],
   [Ready EXCEPT !.signer = "none"], [Ready EXCEPT !.signer = "disabled"],
   [Ready EXCEPT !.signerWallet = "other"], [Ready EXCEPT !.tokensAgree = FALSE],
   [Ready EXCEPT !.keysAgree = FALSE],
   [Ready EXCEPT !.rpc = "none", !.hasWallet = FALSE, !.signer = "none"]}

(* The adapters of a paper cycle, whose breakers open with the second       *)
(* failure for two ticks *)
MCAdapters == <<"dexpaprika", "moralis">>

MCInit ==
  /\ Init /\ Paper!Init /\ Intake!Init /\ Store!Init /\ Journal!Init
  /\ Backup!Init /\ Migrations!Init /\ Sidecar!Init /\ Trade!Init
  /\ side \in {"gate", "paper", "intake", "store", "journal", "backup", "files", "sidecar",
              "trade"}
  /\ side # "backup" => dbSchema = "ready"
  /\ side # "sidecar" => loop.directory
  /\ side # "journal" => service = Production
  /\ side # "paper" => paperMode = "paper"
  /\ side # "store" => storeKind = "postgres"
  /\ side # "trade" => deployment = Ready /\ intent = [mode |-> "live", dryRun |-> FALSE]

MCNext ==
  /\ UNCHANGED side
  /\ \/ side = "gate" /\ Next
        /\ UNCHANGED <<paperVars, intakeVars, storeVars, journalVars, backupVars, filesVars, sidecarVars, tradeVars>>
     \/ side = "paper" /\ Paper!Next
        /\ UNCHANGED <<vars, intakeVars, storeVars, journalVars, backupVars, filesVars, sidecarVars, tradeVars>>
     \/ side = "intake" /\ Intake!Next
        /\ UNCHANGED <<vars, paperVars, storeVars, journalVars, backupVars, filesVars, sidecarVars, tradeVars>>
     \/ side = "store" /\ Store!Next /\ StoreBound
        /\ UNCHANGED <<vars, paperVars, intakeVars, journalVars, backupVars, filesVars, sidecarVars, tradeVars>>
     \/ side = "journal" /\ Journal!Next /\ JournalBound
        /\ UNCHANGED <<vars, paperVars, intakeVars, storeVars, backupVars, filesVars, sidecarVars, tradeVars>>
     \/ side = "backup" /\ Backup!Next
        /\ UNCHANGED <<vars, paperVars, intakeVars, storeVars, journalVars, filesVars, sidecarVars, tradeVars>>
     \/ side = "files" /\ Migrations!Next
        /\ UNCHANGED <<vars, paperVars, intakeVars, storeVars, journalVars, backupVars, sidecarVars, tradeVars>>
     \/ side = "sidecar" /\ Sidecar!Next
        /\ UNCHANGED <<vars, paperVars, intakeVars, storeVars, journalVars, backupVars, filesVars, tradeVars>>
     \/ side = "trade" /\ Trade!Next
        /\ UNCHANGED <<vars, paperVars, intakeVars, storeVars, journalVars, backupVars, filesVars, sidecarVars>>

MCSpec ==
  MCInit /\ [][MCNext]_<<vars, paperVars, intakeVars, storeVars, journalVars, backupVars, filesVars,
                        sidecarVars, tradeVars, side>>
=============================================================================
