------------------------------ MODULE LiveTrade ------------------------------
(***************************************************************************)
(* One call of the execution handler (agents/execution.agent.ts): the      *)
(* guardrail's admission, the checks before the trade, quote and swap      *)
(* (adapters/dex-execution), the remote signer (adapters/signer and the    *)
(* signer service, src/signer), the transaction's submission, the search   *)
(* for its receipt, and the evidence and incident the handler writes.      *)
(*                                                                         *)
(* LiveControl and LiveCycle have this call as a choice between success,   *)
(* failure and rejection; here is what each of them says of the chain.     *)
(* A step runs from one await to the next.  The process may die at any     *)
(* await, and what was submitted goes its own way.                         *)
(***************************************************************************)
EXTENDS Integers, Sequences

CONSTANTS
  Wallets, Wallet,      \* payers a transaction may have; of these, the bot's own
  Deployments,          \* the environments and dependencies to be considered
  MaxAttempts           \* LIVE_VERIFY_MAX_ATTEMPTS, at least 1

(* liveTrading and realRpc are what LIVE_TRADING, RPC_MODE and RPC_URL say; *)
(* `hasWallet`, `rpc` and `signer` are what the handler was given: an rpc   *)
(* client is the program's own ("web3"), an object whose functions stand    *)
(* alone, or one that knows no receipts.  The last three are the signer     *)
(* service's: its wallet, and whether it shares token and key id.           *)
Deployment ==
  [liveTrading : BOOLEAN, realRpc : BOOLEAN, hasWallet : BOOLEAN,
   rpc : {"none", "web3", "object", "blind"}, signer : {"none", "disabled", "remote"},
   signerWallet : Wallets, tokensAgree : BOOLEAN, keysAgree : BOOLEAN]

Intent == [mode : {"live", "paper", "dry", "unset"}, dryRun : BOOLEAN]

VARIABLES
  deployment, intent,
  at,                   \* the await the handler is at, or how it ended
  guard,                \* the guardrail's part: admission and finalization
  quote, payer,         \* the quote; who pays for the transaction that was built
  sends, chain,         \* how often one was submitted; what has become of it
  attempt, timedOut,    \* of the search for the receipt
  report,               \* the report, once there is one
  evidence, incidents   \* what was recorded

vars == <<deployment, intent, at, guard, quote, payer, sends, chain, attempt, timedOut,
          report, evidence, incidents>>

Live == intent.mode = "live"
HasVerifyDeps == deployment.rpc # "none" /\ deployment.hasWallet
HasLiveSwapDeps == HasVerifyDeps /\ deployment.signer # "none"
HasAnyLiveDeps == deployment.rpc # "none" \/ deployment.hasWallet \/ deployment.signer # "none"

(* `verification` is the report's verification artifact *)
Failure(stage, code) ==
  [success |-> FALSE, stage |-> stage, code |-> code, verification |-> "none"]
Unconfirmed(code) == [Failure("verification", code) EXCEPT !.verification = "unconfirmed"]
Success == [success |-> TRUE, stage |-> "none", code |-> "none", verification |-> "none"]
Confirmed == [Success EXCEPT !.verification = "confirmed"]
NoReport == Failure("running", "none")
Incomplete == Failure("preflight", "live_dependency_incomplete")
BuildFailed == Failure("swap_build", "live_swap_build_failed")

Record(kind, holds) == evidence' = Append(evidence, [kind |-> kind, holds |-> holds])

-----------------------------------------------------------------------------
(* finalize: the guardrail is told first, then the evidence is written.     *)
Finish(r) ==
  /\ report' = r
  /\ guard' = IF guard # "inFlight" THEN guard ELSE IF r.success THEN "success" ELSE "failure"
  /\ at' = IF Live THEN "summary" ELSE "returned"

Moves(where) == at' = where /\ UNCHANGED <<report, guard>>

(* The repository rejects a record outside the handler's try. *)
Rejected == Moves("rejected") /\ UNCHANGED <<evidence, incidents>>

AfterOutcome == IF report.success THEN "returned" ELSE "incident"

RecordSummary ==
  /\ at = "summary"
  /\ \/ Record("execution_summary", report.success)
        /\ Moves(IF report.verification # "none" THEN "outcome" ELSE AfterOutcome)
        /\ UNCHANGED incidents
     \/ Rejected
  /\ UNCHANGED <<deployment, intent, quote, payer, sends, chain, attempt, timedOut>>

RecordOutcome ==
  /\ at = "outcome"
  /\ \/ Record("verification_outcome", report.verification = "confirmed")
        /\ Moves(AfterOutcome) /\ UNCHANGED incidents
     \/ Rejected
  /\ UNCHANGED <<deployment, intent, quote, payer, sends, chain, attempt, timedOut>>

(* Codes of the guardrail's refusals, and the codes of critical incidents *)
Refusals ==
  {"micro_live_blocked", "micro_live_failure_threshold_reached", "micro_live_config_invalid"}
Critical ==
  {"micro_live_failure_threshold_reached", "micro_live_config_invalid",
   "live_verification_failed", "live_verification_timeout", "live_swap_build_failed"}

RecordIncident ==
  /\ at = "incident"
  /\ \/ incidents' = Append(incidents,
          [type |-> IF report.code \in Refusals THEN "live_guardrail_refused" ELSE "live_execution_refused",
           critical |-> report.code \in Critical])
        /\ Moves("returned") /\ UNCHANGED evidence
     \/ Rejected
  /\ UNCHANGED <<deployment, intent, quote, payer, sends, chain, attempt, timedOut>>

-----------------------------------------------------------------------------
(* The handler, up to the swap.  When the guardrail refuses, and why, is    *)
(* LiveControl's matter.                                                    *)

Begin ==
  /\ at = "idle"
  /\ IF Live THEN at' = "decision" /\ guard' \in {"inFlight", "refused"}
             ELSE at' = "verify" /\ UNCHANGED guard
  /\ UNCHANGED <<deployment, intent, quote, payer, sends, chain, attempt, timedOut, report,
                 evidence, incidents>>

RecordDecision ==
  /\ at = "decision"
  /\ \/ /\ guard = "refused"
        /\ Record("live_refusal_summary", FALSE)
        /\ \E code \in Refusals : Finish(Failure("preflight", code))
        /\ UNCHANGED incidents
     \/ /\ guard = "inFlight"
        /\ Record("decision_summary", TRUE)
        /\ Moves("verify") /\ UNCHANGED incidents
     \/ Rejected
  /\ UNCHANGED <<deployment, intent, quote, payer, sends, chain, attempt, timedOut>>

(* verifyBeforeTrade asks the chain for token and balance; an error is a no.*)
VerifyBeforeTrade ==
  /\ at = "verify"
  /\ IF Live /\ HasAnyLiveDeps /\ ~HasLiveSwapDeps THEN Finish(Incomplete)
     ELSE \E passed \in IF HasVerifyDeps THEN BOOLEAN ELSE {TRUE} :
            IF ~passed THEN Finish(Failure("none", "none"))
            ELSE IF Live /\ ~deployment.liveTrading THEN Finish(Incomplete)
            ELSE Moves(IF Live THEN "attempt" ELSE "swap")
  /\ UNCHANGED <<deployment, intent, quote, payer, sends, chain, attempt, timedOut, evidence, incidents>>

RecordAttempt ==
  /\ at = "attempt"
  /\ \/ Record("execution_attempt_summary", TRUE) /\ Moves("quote") /\ UNCHANGED incidents
     \/ Rejected
  /\ UNCHANGED <<deployment, intent, quote, payer, sends, chain, attempt, timedOut>>

(* getQuote, or another quoteFetcher whose quote lacks a field or is old *)
FetchQuote ==
  /\ at = "quote"
  /\ \/ quote' \in {"good", "invalid", "stale"} /\ Moves("swap")
     \/ UNCHANGED quote /\ Finish(Failure("quote", "live_quote_failed"))
  /\ UNCHANGED <<deployment, intent, payer, sends, chain, attempt, timedOut, evidence, incidents>>

(* What executeSwap returned, if it succeeded without a transaction, is     *)
(* refused for a live intent.                                               *)
SwapReturned(r) ==
  IF Live /\ r.success /\ (payer = "none" \/ r.verification # "confirmed")
  THEN Moves("unproven") ELSE Finish(r)

(* This record is written inside the try. *)
RefuseUnproven ==
  /\ at = "unproven"
  /\ \/ /\ Record("verification_outcome", FALSE)
        /\ Finish(IF payer = "none" THEN Failure("send", "live_send_ambiguous")
                                    ELSE Failure("verification", "live_verification_failed"))
     \/ UNCHANGED evidence /\ Finish(BuildFailed)
  /\ UNCHANGED <<deployment, intent, quote, payer, sends, chain, attempt, timedOut, incidents>>

-----------------------------------------------------------------------------
(* executeSwap.  The handler gives every intent a mode before it calls it.  *)

SwapMode ==
  IF intent.mode # "unset" THEN intent.mode ELSE IF intent.dryRun THEN "dry" ELSE "paper"

BeginSwap ==
  /\ at = "swap"
  /\ IF intent.dryRun \/ SwapMode # "live" THEN SwapReturned(Success)
     ELSE IF ~deployment.realRpc THEN Finish(BuildFailed)
     ELSE IF ~HasLiveSwapDeps THEN SwapReturned(Incomplete)
     ELSE IF quote = "invalid" THEN SwapReturned(Failure("quote", "live_quote_invalid"))
     ELSE IF quote = "stale" THEN SwapReturned(Failure("quote", "live_quote_stale"))
     ELSE Moves("build")
  /\ UNCHANGED <<deployment, intent, quote, payer, sends, chain, attempt, timedOut, evidence, incidents>>

(* The provider builds a transaction for the wallet; whose it is, is for    *)
(* the signer to see.                                                       *)
BuildSwap ==
  /\ at = "build"
  /\ \/ payer' \in Wallets /\ Moves("sign")
     \/ /\ UNCHANGED payer
        /\ \/ SwapReturned(BuildFailed)
           \/ SwapReturned(Failure("payload_validate", "live_swap_payload_invalid"))
  /\ UNCHANGED <<deployment, intent, quote, sends, chain, attempt, timedOut, evidence, incidents>>

(* The signer service signs for its own wallet only, and answers only who   *)
(* has its token.  Every refusal but that is an error status, which the     *)
(* client calls unavailable.                                                *)
BackendSigns ==
  deployment.signerWallet = Wallet /\ deployment.keysAgree /\ payer = deployment.signerWallet

ServiceAnswer ==
  IF ~deployment.tokensAgree THEN "SIGNER_AUTH_FAILED"
  ELSE IF BackendSigns THEN "signed" ELSE "SIGNER_UNAVAILABLE"

SignerAnswers ==
  IF deployment.signer = "disabled" THEN {"SIGNER_DISABLED"}
  ELSE {ServiceAnswer, "SIGNER_TIMEOUT", "SIGNER_UNAVAILABLE", "SIGNER_BAD_RESPONSE"}

(* mapSignerFailureCode.  That the signed transaction is another wallet's   *)
(* counts as a bad response.                                                *)
SigningFailure(answer) ==
  CASE answer = "SIGNER_DISABLED" -> "live_signer_disabled"
    [] answer = "SIGNER_TIMEOUT" -> "live_signer_timeout"
    [] answer = "SIGNER_AUTH_FAILED" -> "live_signer_auth_failed"
    [] answer = "SIGNER_UNAVAILABLE" -> "live_signer_unavailable"
    [] OTHER -> "live_signer_response_invalid"

SignSwap ==
  /\ at = "sign"
  /\ \E answer \in SignerAnswers :
       IF answer = "signed" /\ payer = Wallet THEN Moves("send")
       ELSE SwapReturned(Failure("signing", SigningFailure(answer)))
  /\ UNCHANGED <<deployment, intent, quote, payer, sends, chain, attempt, timedOut, evidence, incidents>>

(* The handler takes sendRawTransaction off the client without binding it:  *)
(* the program's own client throws before it asks anybody.  Another client  *)
(* submits the transaction and may still throw, or answer nothing.          *)
Submitted == sends' = sends + 1 /\ chain' = "pending"
NotSubmitted == UNCHANGED <<sends, chain>>

SendRawTransaction ==
  /\ at = "send"
  /\ \/ /\ deployment.rpc \in {"object", "blind"} /\ Submitted
        /\ \/ deployment.rpc = "object" /\ Moves("confirm") /\ attempt' = 1
           \/ /\ deployment.rpc = "blind" /\ UNCHANGED attempt
              /\ SwapReturned(Unconfirmed("live_verification_failed"))
           \/ UNCHANGED attempt /\ SwapReturned(Failure("send", "live_send_ambiguous"))
     \/ /\ UNCHANGED attempt
        /\ NotSubmitted \/ (deployment.rpc # "web3" /\ Submitted)
        /\ SwapReturned(Failure("send", "live_send_failed"))
  /\ UNCHANGED <<deployment, intent, quote, payer, timedOut, evidence, incidents>>

-----------------------------------------------------------------------------
(* The search for the receipt.  A receipt is nothing, or has a status and   *)
(* perhaps an error; a failed transaction is confirmed as well, with one.   *)
Receipt(err, status) == [err |-> err, status |-> status]
Receipts ==
  {Receipt(FALSE, "none"), Receipt(FALSE, "processed")} \cup
  CASE chain = "landed" -> {Receipt(FALSE, "confirmed"), Receipt(FALSE, "finalized")}
    [] chain = "failed" -> {Receipt(TRUE, "confirmed"), Receipt(FALSE, "failed")}
    [] OTHER -> {}

(* Mutant: the status is looked at before the error. *)
ClassifyReceiptByStatus(r) ==
  IF r.status \in {"confirmed", "finalized"} THEN "confirmed"
  ELSE IF r.err \/ r.status = "failed" THEN "rejected"
  ELSE "pending"

(* classifyReceipt; "pending" stands for "unknown" too *)
ClassifyReceipt(r) ==
  IF r.err THEN "rejected"
  ELSE IF r.status \in {"confirmed", "finalized"} THEN "confirmed"
  ELSE IF r.status = "failed" THEN "rejected" ELSE "pending"

(* An attempt that leaves it open is followed by another after a while.     *)
Unresolved(late) ==
  /\ timedOut' = (timedOut \/ late)
  /\ IF attempt < MaxAttempts THEN Moves("confirm") /\ attempt' = attempt + 1
     ELSE /\ UNCHANGED attempt
          /\ SwapReturned(Unconfirmed(IF timedOut' THEN "live_verification_timeout"
                                                   ELSE "live_verification_failed"))

FindReceipt ==
  /\ at = "confirm"
  /\ \/ \E r \in Receipts :
          \/ /\ ClassifyReceipt(r) = "confirmed" /\ SwapReturned(Confirmed)
             /\ UNCHANGED <<attempt, timedOut>>
          \/ /\ ClassifyReceipt(r) = "rejected"
             /\ SwapReturned(Unconfirmed("live_verification_failed"))
             /\ UNCHANGED <<attempt, timedOut>>
          \/ ClassifyReceipt(r) = "pending" /\ Unresolved(FALSE)
     \/ \E late \in BOOLEAN : Unresolved(late)
  /\ UNCHANGED <<deployment, intent, quote, payer, sends, chain, evidence, incidents>>

-----------------------------------------------------------------------------
(* The cluster, whoever waits for it *)
ChainDecides ==
  /\ chain = "pending"
  /\ chain' \in {"landed", "failed", "dropped"}
  /\ UNCHANGED <<deployment, intent, at, guard, quote, payer, sends, attempt, timedOut, report,
                 evidence, incidents>>

Ended == {"returned", "rejected", "dead"}

Crash ==
  /\ at \notin Ended \cup {"idle"}
  /\ at' = "dead"
  /\ UNCHANGED <<deployment, intent, guard, quote, payer, sends, chain, attempt, timedOut, report,
                 evidence, incidents>>

Init ==
  /\ deployment \in Deployments /\ intent \in Intent
  /\ at = "idle" /\ guard = "idle" /\ quote = "none" /\ payer = "none"
  /\ sends = 0 /\ chain = "none" /\ attempt = 0 /\ timedOut = FALSE
  /\ report = NoReport /\ evidence = <<>> /\ incidents = <<>>

Next ==
  \/ Begin \/ RecordDecision \/ VerifyBeforeTrade \/ RecordAttempt \/ FetchQuote
  \/ BeginSwap \/ BuildSwap \/ SignSwap \/ SendRawTransaction \/ FindReceipt
  \/ RefuseUnproven \/ RecordSummary \/ RecordOutcome \/ RecordIncident
  \/ ChainDecides \/ Crash

Spec == Init /\ [][Next]_vars

-----------------------------------------------------------------------------
Recorded(kind) == \E i \in DOMAIN evidence : evidence[i].kind = kind
Reported == at \in {"summary", "outcome", "incident", "returned", "rejected", "dead"} /\ report # NoReport

(* What the handler says of a trade is true of the chain, whoever fails on  *)
(* the way and wherever the process dies.  A transaction is submitted once, *)
(* for the bot's wallet, of an admitted live intent whose decision and      *)
(* attempt are on record.  A trade reported as successful has landed and is *)
(* counted as one by the guardrail, which is told before the evidence is    *)
(* written; a failure before the send means that nothing was submitted (so  *)
(* only failures of "send" and "verification" leave it open); and a call    *)
(* that rejects with its slot leaked has submitted nothing.                 *)
ReportsTrue ==
  /\ sends > 0 =>
       /\ sends = 1 /\ payer = Wallet /\ guard \in {"inFlight", "success", "failure"}
       /\ Recorded("decision_summary") /\ Recorded("execution_attempt_summary")
  /\ Reported /\ report.success /\ Live => sends = 1 /\ chain = "landed" /\ guard = "success"
  /\ Reported /\ ~report.success /\ report.stage \notin {"send", "verification"} => sends = 0
  /\ at = "rejected" /\ guard = "inFlight" => sends = 0
  /\ \A i \in DOMAIN evidence :
       evidence[i].holds /\ evidence[i].kind \in {"execution_summary", "verification_outcome"}
         => chain = "landed"

(* How far the live runtime sees the call: what LiveCycle knows of it.      *)
CallPhase ==
  IF ~Live THEN "called"
  ELSE CASE at = "idle" -> "called"
         [] at = "returned" -> IF report.success THEN "succeeded" ELSE "failed"
         [] at \in {"rejected", "dead"} -> "thrown"
         [] OTHER -> IF guard = "refused" THEN "refused"
                     ELSE IF sends = 0 THEN "executing" ELSE "sent"
=============================================================================
