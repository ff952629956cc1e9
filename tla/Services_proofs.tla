--------------------------- MODULE Services_proofs ---------------------------
(***************************************************************************)
(* Theorems about the components of Services, for every value of their     *)
(* constants.                                                              *)
(***************************************************************************)
EXTENDS Services, TLAPS

-----------------------------------------------------------------------------
(* The execution handler *)

(* The awaits before anything is submitted, and before there is a report *)
Before ==
  {"idle", "decision", "verify", "attempt", "quote", "swap", "build", "sign", "send", "unproven"}
Working == Before \cup {"confirm"}
Recording == {"summary", "outcome", "incident"}

(* Where only a live intent comes to *)
LiveOnly ==
  {"decision", "attempt", "quote", "build", "sign", "send", "unproven", "confirm"} \cup Recording

Attempted == {"quote", "swap", "build", "sign", "send", "unproven", "confirm"}

(* What the await the handler is at says of the transaction *)
Whereabouts ==
  /\ tradeAt \in Working \cup Recording \cup Trade!Ended
  /\ tradeAt \in LiveOnly => Trade!Live
  /\ tradeAt \in Before => sends = 0
  /\ tradeAt \in Working => tradeReport = Trade!NoReport
  /\ tradeAt \in Recording => tradeReport # Trade!NoReport
  /\ tradeAt \in Working \ {"sign", "send", "confirm"} => payer = "none"
  /\ tradeAt \in {"send", "confirm"} => payer = BotWallet
  /\ tradeAt = "confirm" => sends = 1
  /\ tradeAt = "rejected" /\ guard = "inFlight" => sends = 0

(* and of the guardrail *)
Admitted ==
  /\ ~Trade!Live => guard = "idle"
  /\ tradeAt = "decision" => guard \in {"inFlight", "refused"}
  /\ Trade!Live /\ tradeAt \in Working \ {"idle", "decision"} =>
       guard = "inFlight" /\ Trade!Recorded("decision_summary")
  /\ Trade!Live /\ tradeAt \in Attempted => Trade!Recorded("execution_attempt_summary")

SentOnce ==
  /\ sends \in {0, 1}
  /\ sends = 0 => chain = "none"
  /\ sends = 1 =>
       /\ Trade!Live /\ payer = BotWallet /\ guard \in {"inFlight", "success", "failure"}
       /\ Trade!Recorded("decision_summary") /\ Trade!Recorded("execution_attempt_summary")

(* Report r is true of what was submitted and what became of it. *)
Honest(r, submitted, outcome) ==
  /\ r # Trade!NoReport /\ r.success \in BOOLEAN
  /\ r.success /\ Trade!Live => submitted = 1 /\ outcome = "landed" /\ r.verification = "confirmed"
  /\ ~r.success /\ r.stage \notin {"send", "verification"} => submitted = 0
  /\ r.verification = "confirmed" => r.success

ReportTrue ==
  tradeReport # Trade!NoReport =>
    /\ Honest(tradeReport, sends, chain)
    /\ guard # "inFlight"
    /\ Trade!Live /\ tradeReport.success => guard = "success"

Kind ==
  {"live_refusal_summary", "decision_summary", "execution_attempt_summary", "execution_summary",
   "verification_outcome"}
Item == [kind : Kind, holds : BOOLEAN]
Says(item) == item.holds /\ item.kind \in {"execution_summary", "verification_outcome"}

EvidenceTrue ==
  /\ evidence \in Seq(Item)
  /\ \A i \in DOMAIN evidence : Says(evidence[i]) => chain = "landed"

TradeInv == Whereabouts /\ Admitted /\ SentOnce /\ ReportTrue /\ EvidenceTrue
-----------------------------------------------------------------------------
(* The reports *)

LEMMA Reports ==
  /\ \A stage, code :
       /\ Trade!Failure(stage, code).success = FALSE
       /\ Trade!Failure(stage, code).stage = stage
       /\ Trade!Failure(stage, code).verification = "none"
       /\ stage # "running" => Trade!Failure(stage, code) # Trade!NoReport
  /\ \A code :
       /\ Trade!Unconfirmed(code).success = FALSE
       /\ Trade!Unconfirmed(code).stage = "verification"
       /\ Trade!Unconfirmed(code).verification = "unconfirmed"
       /\ Trade!Unconfirmed(code) # Trade!NoReport
  /\ Trade!Success.success = TRUE /\ Trade!Success.verification = "none"
  /\ Trade!Success # Trade!NoReport
  /\ Trade!Confirmed.success = TRUE /\ Trade!Confirmed.verification = "confirmed"
  /\ Trade!Confirmed # Trade!NoReport
<1>1. ASSUME NEW stage, NEW code
      PROVE  /\ Trade!Failure(stage, code).success = FALSE
             /\ Trade!Failure(stage, code).stage = stage
             /\ Trade!Failure(stage, code).verification = "none"
             /\ stage # "running" => Trade!Failure(stage, code) # Trade!NoReport
  BY DEF Trade!Failure, Trade!NoReport
<1>2. ASSUME NEW code
      PROVE  /\ Trade!Unconfirmed(code).success = FALSE
             /\ Trade!Unconfirmed(code).stage = "verification"
             /\ Trade!Unconfirmed(code).verification = "unconfirmed"
             /\ Trade!Unconfirmed(code) # Trade!NoReport
  <2>1. /\ Trade!Unconfirmed(code).success = FALSE
        /\ Trade!Unconfirmed(code).stage = "verification"
        /\ Trade!Unconfirmed(code).verification = "unconfirmed"
    BY DEF Trade!Unconfirmed, Trade!Failure
  <2>2. Trade!NoReport.stage = "running"
    BY DEF Trade!NoReport, Trade!Failure
  <2> QED
    BY <2>1, <2>2
<1>3. Trade!Success.success = TRUE /\ Trade!Success.verification = "none" /\ Trade!NoReport.success = FALSE
  BY DEF Trade!Success, Trade!NoReport, Trade!Failure
<1>4. Trade!Confirmed.success = TRUE /\ Trade!Confirmed.verification = "confirmed"
  BY DEF Trade!Confirmed, Trade!Success
<1> QED
  BY <1>1, <1>2, <1>3, <1>4

(* A failure is honest if it is one of the send or the verification, or     *)
(* nothing was submitted.                                                   *)
LEMMA FailuresHonest ==
  ASSUME NEW submitted, NEW outcome
  PROVE  /\ \A stage, code :
              stage # "running" /\ (stage \notin {"send", "verification"} => submitted = 0)
                => Honest(Trade!Failure(stage, code), submitted, outcome)
         /\ \A code : Honest(Trade!Unconfirmed(code), submitted, outcome)
BY Reports DEF Honest

(* A record is appended: what was recorded stays, and what it says is true. *)
LEMMA Appended ==
  ASSUME NEW item \in Item, evidence' = Append(evidence, item), EvidenceTrue,
         UNCHANGED chain, Says(item) => chain = "landed"
  PROVE  /\ EvidenceTrue' /\ \E i \in DOMAIN evidence' : evidence'[i].kind = item.kind
         /\ \A k : Trade!Recorded(k) => Trade!Recorded(k)'
<1>2. evidence \in Seq(Item)
  BY DEF EvidenceTrue
<1>3. /\ evidence' \in Seq(Item) /\ Len(evidence) \in Nat
      /\ DOMAIN evidence' = 1..(Len(evidence) + 1) /\ DOMAIN evidence = 1..Len(evidence)
      /\ evidence'[Len(evidence) + 1] = item
      /\ \A i \in 1..Len(evidence) : evidence'[i] = evidence[i]
  BY <1>2
<1>4. \A i \in DOMAIN evidence' : Says(evidence'[i]) => chain' = "landed"
  <2> TAKE i \in DOMAIN evidence'
  <2>1. CASE i \in 1..Len(evidence)
    BY <1>3, <2>1 DEF EvidenceTrue
  <2>2. CASE i = Len(evidence) + 1
    BY <1>3, <2>2
  <2> QED
    BY <1>3, <2>1, <2>2
<1>5. \E i \in DOMAIN evidence' : evidence'[i].kind = item.kind
  BY <1>3
<1>6. ASSUME NEW k, Trade!Recorded(k) PROVE Trade!Recorded(k)'
  BY <1>3, <1>6 DEF Trade!Recorded
<1>7. EvidenceTrue'
  BY <1>3, <1>4 DEF EvidenceTrue, Says
<1> QED
  BY <1>5, <1>6, <1>7

LEMMA Records ==
  ASSUME NEW kind \in Kind, Trade!Record(kind, TRUE), EvidenceTrue, UNCHANGED chain,
         kind \in {"execution_summary", "verification_outcome"} => chain = "landed"
  PROVE  EvidenceTrue' /\ Trade!Recorded(kind)' /\ \A k : Trade!Recorded(k) => Trade!Recorded(k)'
<1>1. PICK item \in Item : item = [kind |-> kind, holds |-> TRUE]
  BY DEF Item
<1>2. evidence' = Append(evidence, item) /\ item.kind = kind /\ (Says(item) => chain = "landed")
  BY <1>1 DEF Trade!Record, Says
<1> QED
  BY <1>2, Appended DEF Trade!Recorded

LEMMA RecordsRefusal ==
  ASSUME NEW kind \in Kind, Trade!Record(kind, FALSE), EvidenceTrue, UNCHANGED chain
  PROVE  EvidenceTrue' /\ \A k : Trade!Recorded(k) => Trade!Recorded(k)'
<1>1. PICK item \in Item : item = [kind |-> kind, holds |-> FALSE]
  BY DEF Item
<1>2. evidence' = Append(evidence, item) /\ ~Says(item)
  BY <1>1 DEF Trade!Record, Says
<1> QED
  BY <1>2, Appended

-----------------------------------------------------------------------------
(* The handler has an honest report: the guardrail is told of it.           *)
LEMMA Finished ==
  ASSUME TradeInv, NEW r, Trade!Finish(r), Honest(r, sends', chain'), UNCHANGED intent,
         tradeAt \in Working, tradeAt # "idle",
         guard = "refused" => tradeAt = "decision" /\ ~r.success,
         SentOnce', EvidenceTrue'
  PROVE  TradeInv'
<1>1. /\ tradeReport' = r /\ tradeAt' = IF Trade!Live THEN "summary" ELSE "returned"
      /\ guard' = IF guard # "inFlight" THEN guard ELSE IF r.success THEN "success" ELSE "failure"
      /\ Trade!Live' = Trade!Live
  BY DEF Trade!Finish, Trade!Live
<1>2. guard' # "inFlight" /\ (Trade!Live /\ r.success => guard' = "success")
  BY <1>1 DEF TradeInv, Admitted, Working, Before
<1>3. Whereabouts'
  BY <1>1, <1>2 DEF Whereabouts, Working, Before, Recording, LiveOnly, Trade!Ended, Honest
<1>4. Admitted'
  BY <1>1 DEF TradeInv, Admitted, Working, Before, Attempted
<1>5. ReportTrue'
  BY <1>1, <1>2 DEF ReportTrue, Honest
<1> QED
  BY <1>3, <1>4, <1>5 DEF TradeInv

(* The handler goes on; guard, transaction and report are as they were.     *)
LEMMA MovedOn ==
  ASSUME TradeInv, UNCHANGED <<intent, guard, tradeReport, sends, chain>>,
         Whereabouts', Admitted', EvidenceTrue', \A k : Trade!Recorded(k) => Trade!Recorded(k)',
         sends = 1 => payer' = payer
  PROVE  TradeInv'
<1>1. Trade!Live' = Trade!Live
  BY DEF Trade!Live
<1>2. SentOnce'
  BY <1>1 DEF TradeInv, SentOnce
<1>3. ReportTrue'
  BY <1>1 DEF TradeInv, ReportTrue, Honest
<1> QED
  BY <1>2, <1>3 DEF TradeInv

(* The repository rejects a record. *)
LEMMA RejectedStep ==
  ASSUME TradeInv, Trade!Rejected, UNCHANGED <<intent, payer, sends, chain>>,
         tradeAt \in Recording \/ sends = 0
  PROVE  TradeInv'
<1>1. tradeAt' = "rejected" /\ UNCHANGED <<tradeReport, guard, evidence>>
  BY DEF Trade!Rejected, Trade!Moves
<1>2. tradeAt \in Recording => guard # "inFlight"
  BY DEF TradeInv, Whereabouts, ReportTrue
<1>3. Whereabouts'
  BY <1>1, <1>2 DEF TradeInv, Whereabouts, Working, Before, Recording, LiveOnly, Trade!Ended
<1>4. Admitted'
  BY <1>1 DEF TradeInv, Admitted, Working, Before, Attempted, Trade!Live
<1>5. EvidenceTrue' /\ \A k : Trade!Recorded(k) => Trade!Recorded(k)'
  BY <1>1 DEF TradeInv, EvidenceTrue, Trade!Recorded
<1> QED
  BY <1>1, <1>3, <1>4, <1>5, MovedOn

(* A failure that is honest ends the call, if nothing was submitted by it.  *)
LEMMA FailedBefore ==
  ASSUME TradeInv, tradeAt \in Before \ {"idle", "decision"}, UNCHANGED <<intent, sends, chain>>,
         NEW r, Trade!Finish(r), ~r.success, r.success \in BOOLEAN, r # Trade!NoReport,
         r.verification # "confirmed", EvidenceTrue'
  PROVE  TradeInv'
<1>1. sends = 0 /\ sends' = 0
  BY DEF TradeInv, Whereabouts
<1>2. Honest(r, sends', chain')
  BY <1>1 DEF Honest
<1>3. SentOnce'
  BY <1>1 DEF TradeInv, SentOnce
<1>4. guard # "refused"
  BY DEF TradeInv, Admitted, Whereabouts, Working, Before
<1> QED
  BY <1>2, <1>3, <1>4, Finished DEF Working

-----------------------------------------------------------------------------
(* The steps of the handler *)

LEMMA BeginKeeps == ASSUME TradeInv, Trade!Begin PROVE TradeInv'
<1>1. UNCHANGED <<intent, tradeReport, sends, chain, payer, evidence>> /\ tradeAt = "idle" /\ Trade!Live' = Trade!Live
  BY DEF Trade!Begin, Trade!Live
<1>2. sends = 0
  BY <1>1 DEF TradeInv, Whereabouts, Before
<1>3. Whereabouts'
  BY <1>1 DEF Trade!Begin, TradeInv, Whereabouts, Working, Before, Recording, LiveOnly, Trade!Ended
<1>4. Admitted'
  BY <1>1 DEF TradeInv, Trade!Begin, Admitted, Working, Before, Attempted
<1>5. SentOnce' /\ ReportTrue' /\ EvidenceTrue'
  BY <1>1, <1>2 DEF TradeInv, Whereabouts, Working, Before, SentOnce, ReportTrue, EvidenceTrue
<1> QED
  BY <1>3, <1>4, <1>5 DEF TradeInv

LEMMA RecordDecisionKeeps == ASSUME TradeInv, Trade!RecordDecision PROVE TradeInv'
<1>1. /\ UNCHANGED <<intent, payer, sends, chain>> /\ tradeAt = "decision" /\ sends = 0
      /\ Trade!Live /\ Trade!Live' = Trade!Live
  BY DEF Trade!RecordDecision, TradeInv, Whereabouts, Before, LiveOnly, Trade!Live
<1>2. ASSUME guard = "refused", Trade!Record("live_refusal_summary", FALSE), NEW code \in Trade!Refusals,
             Trade!Finish(Trade!Failure("preflight", code))
      PROVE  TradeInv'
  <2>1. PICK r : r = Trade!Failure("preflight", code)
    OBVIOUS
  <2>2. ~r.success /\ Honest(r, sends', chain')
    BY <1>1, <2>1, Reports, FailuresHonest
  <2>3. EvidenceTrue'
    <3>1. "live_refusal_summary" \in Kind
      BY DEF Kind
    <3>2. EvidenceTrue /\ UNCHANGED chain
      BY <1>1 DEF TradeInv
    <3>3. Trade!Record("live_refusal_summary", FALSE)
      BY <1>2
    <3> QED
      BY <3>1, <3>2, <3>3, RecordsRefusal
  <2>4. SentOnce'
    BY <1>1 DEF TradeInv, SentOnce
  <2> QED
    BY <1>1, <1>2, <2>1, <2>2, <2>3, <2>4, Finished DEF Working, Before
<1>3. ASSUME guard = "inFlight", Trade!Record("decision_summary", TRUE), Trade!Moves("verify")
      PROVE  TradeInv'
  <2>1. EvidenceTrue' /\ Trade!Recorded("decision_summary")' /\ \A k : Trade!Recorded(k) => Trade!Recorded(k)'
    BY <1>1, <1>3, Records DEF TradeInv, Kind
  <2>2. tradeAt' = "verify" /\ UNCHANGED <<tradeReport, guard>>
    BY <1>3 DEF Trade!Moves
  <2>3. Whereabouts'
    BY <1>1, <2>2 DEF TradeInv, Whereabouts, Working, Before, Recording, LiveOnly, Trade!Ended
  <2>4. Admitted'
    BY <1>1, <1>3, <2>1, <2>2 DEF Admitted, Working, Before, Attempted
  <2> QED
    BY <1>1, <2>1, <2>2, <2>3, <2>4, MovedOn
<1>4. CASE Trade!Rejected
  BY <1>1, <1>4, RejectedStep
<1> QED
  BY <1>2, <1>3, <1>4 DEF Trade!RecordDecision

LEMMA VerifyKeeps == ASSUME TradeInv, Trade!VerifyBeforeTrade PROVE TradeInv'
<1>1. /\ UNCHANGED <<intent, payer, sends, chain, evidence>> /\ tradeAt = "verify"
      /\ Trade!Live' = Trade!Live
      /\ tradeAt \in Before \ {"idle", "decision"}
  BY DEF Trade!VerifyBeforeTrade, Trade!Live, Before
<1>2. EvidenceTrue' /\ \A k : Trade!Recorded(k) => Trade!Recorded(k)'
  BY <1>1 DEF TradeInv, EvidenceTrue, Trade!Recorded
<1>3. ASSUME NEW r, Trade!Finish(r), r \in {Trade!Incomplete, Trade!Failure("none", "none")}
      PROVE  TradeInv'
  <2>1. ~r.success /\ r.success \in BOOLEAN /\ r # Trade!NoReport /\ r.verification # "confirmed"
    <3>1. Trade!Incomplete = Trade!Failure("preflight", "live_dependency_incomplete")
      BY DEF Trade!Incomplete
    <3>2. CASE r = Trade!Failure("preflight", "live_dependency_incomplete")
      BY <3>2, Reports
    <3>3. CASE r = Trade!Failure("none", "none")
      BY <3>3, Reports
    <3> QED
      BY <1>3, <3>1, <3>2, <3>3
  <2> QED
    BY <1>1, <1>2, <1>3, <2>1, FailedBefore
<1>4. ASSUME Trade!Moves(IF Trade!Live THEN "attempt" ELSE "swap")
      PROVE  TradeInv'
  <2>1. tradeAt' = (IF Trade!Live THEN "attempt" ELSE "swap") /\ UNCHANGED <<tradeReport, guard>>
    BY <1>4 DEF Trade!Moves
  <2>2. Whereabouts'
    BY <1>1, <2>1 DEF TradeInv, Whereabouts, Working, Before, Recording, LiveOnly, Trade!Ended
  <2>3. Admitted'
    BY <1>1, <1>2, <2>1 DEF TradeInv, Admitted, Working, Before, Attempted
  <2> QED
    BY <1>1, <1>2, <2>1, <2>2, <2>3, MovedOn
<1>5. \/ \E r \in {Trade!Incomplete, Trade!Failure("none", "none")} : Trade!Finish(r)
      \/ Trade!Moves(IF Trade!Live THEN "attempt" ELSE "swap")
  BY DEF Trade!VerifyBeforeTrade
<1> QED
  BY <1>3, <1>4, <1>5

LEMMA RecordAttemptKeeps == ASSUME TradeInv, Trade!RecordAttempt PROVE TradeInv'
<1>1. /\ UNCHANGED <<intent, payer, sends, chain>> /\ tradeAt = "attempt" /\ sends = 0
      /\ Trade!Live /\ Trade!Live' = Trade!Live
  BY DEF Trade!RecordAttempt, TradeInv, Whereabouts, Before, LiveOnly, Trade!Live
<1>2. ASSUME Trade!Record("execution_attempt_summary", TRUE), Trade!Moves("quote")
      PROVE  TradeInv'
  <2>1. /\ EvidenceTrue' /\ Trade!Recorded("execution_attempt_summary")'
        /\ \A k : Trade!Recorded(k) => Trade!Recorded(k)'
    BY <1>1, <1>2, Records DEF TradeInv, Kind
  <2>2. tradeAt' = "quote" /\ UNCHANGED <<tradeReport, guard>>
    BY <1>2 DEF Trade!Moves
  <2>3. Whereabouts'
    BY <1>1, <2>2 DEF TradeInv, Whereabouts, Working, Before, Recording, LiveOnly, Trade!Ended
  <2>4. Admitted'
    BY <1>1, <2>1, <2>2 DEF TradeInv, Admitted, Working, Before, Attempted
  <2> QED
    BY <1>1, <2>1, <2>2, <2>3, <2>4, MovedOn
<1>3. CASE Trade!Rejected
  BY <1>1, <1>3, RejectedStep
<1> QED
  BY <1>2, <1>3 DEF Trade!RecordAttempt

LEMMA FetchQuoteKeeps == ASSUME TradeInv, Trade!FetchQuote PROVE TradeInv'
<1>1. /\ UNCHANGED <<intent, payer, sends, chain, evidence>> /\ tradeAt = "quote"
      /\ Trade!Live' = Trade!Live
      /\ tradeAt \in Before \ {"idle", "decision"}
  BY DEF Trade!FetchQuote, Trade!Live, Before
<1>2. EvidenceTrue' /\ \A k : Trade!Recorded(k) => Trade!Recorded(k)'
  BY <1>1 DEF TradeInv, EvidenceTrue, Trade!Recorded
<1>3. ASSUME Trade!Moves("swap")
      PROVE  TradeInv'
  <2>1. tradeAt' = "swap" /\ UNCHANGED <<tradeReport, guard>>
    BY <1>3 DEF Trade!Moves
  <2>2. Whereabouts'
    BY <1>1, <2>1 DEF TradeInv, Whereabouts, Working, Before, Recording, LiveOnly, Trade!Ended
  <2>3. Admitted'
    BY <1>1, <1>2, <2>1 DEF TradeInv, Admitted, Working, Before, Attempted
  <2> QED
    BY <1>1, <1>2, <2>1, <2>2, <2>3, MovedOn
<1>4. CASE Trade!Finish(Trade!Failure("quote", "live_quote_failed"))
  <2>1. PICK r : r = Trade!Failure("quote", "live_quote_failed")
    OBVIOUS
  <2>2. ~r.success /\ r.success \in BOOLEAN /\ r # Trade!NoReport /\ r.verification # "confirmed"
    BY <2>1, Reports
  <2> QED
    BY <1>1, <1>2, <1>4, <2>1, <2>2, FailedBefore
<1> QED
  BY <1>3, <1>4 DEF Trade!FetchQuote

(* What executeSwap returns ends the call if it is a failure.               *)
LEMMA SwapFails == ASSUME NEW r, Trade!SwapReturned(r), ~r.success PROVE Trade!Finish(r)
BY DEF Trade!SwapReturned

LEMMA BeginSwapKeeps == ASSUME TradeInv, Trade!BeginSwap PROVE TradeInv'
<1>1. /\ UNCHANGED <<intent, payer, sends, chain, evidence>> /\ tradeAt = "swap"
      /\ Trade!Live' = Trade!Live
      /\ tradeAt \in Before \ {"idle", "decision"}
  BY DEF Trade!BeginSwap, Trade!Live, Before
<1>2. EvidenceTrue' /\ \A k : Trade!Recorded(k) => Trade!Recorded(k)'
  BY <1>1 DEF TradeInv, EvidenceTrue, Trade!Recorded
<1>3. sends = 0 /\ payer = "none" /\ guard # "refused"
  BY <1>1 DEF TradeInv, Whereabouts, Admitted, Working, Before
<1>4. Trade!SwapMode = "live" <=> Trade!Live
  BY DEF Trade!SwapMode, Trade!Live
<1>5. ASSUME Trade!SwapReturned(Trade!Success)
      PROVE  TradeInv'
  <2>1. CASE Trade!Live
    <3>1. tradeAt' = "unproven" /\ UNCHANGED <<tradeReport, guard>>
      BY <1>3, <1>5, <2>1, Reports DEF Trade!SwapReturned, Trade!Moves
    <3>2. Whereabouts'
      BY <1>1, <2>1, <3>1 DEF TradeInv, Whereabouts, Working, Before, Recording, LiveOnly,
         Trade!Ended
    <3>3. Admitted'
      BY <1>1, <1>2, <2>1, <3>1 DEF TradeInv, Admitted, Working, Before, Attempted
    <3> QED
      BY <1>1, <1>2, <3>1, <3>2, <3>3, MovedOn
  <2>2. CASE ~Trade!Live
    <3>1. Trade!Finish(Trade!Success)
      BY <1>5, <2>2 DEF Trade!SwapReturned
    <3>2. Honest(Trade!Success, sends', chain')
      BY <2>2, Reports DEF Honest
    <3>3. SentOnce'
      BY <1>1, <1>3 DEF TradeInv, SentOnce
    <3> QED
      BY <1>1, <1>2, <1>3, <3>1, <3>2, <3>3, Finished DEF Working, Before
  <2> QED
    BY <2>1, <2>2
<1>6. ASSUME NEW stage, NEW code, stage # "running",
             \/ Trade!Finish(Trade!Failure(stage, code)) \/ Trade!SwapReturned(Trade!Failure(stage, code))
      PROVE  TradeInv'
  <2>1. PICK r : r = Trade!Failure(stage, code)
    OBVIOUS
  <2>2. ~r.success /\ r.success \in BOOLEAN /\ r # Trade!NoReport /\ r.verification # "confirmed"
    BY <1>6, <2>1, Reports
  <2>3. Trade!Finish(r)
    BY <1>6, <2>1, <2>2, SwapFails
  <2> QED
    BY <1>1, <1>2, <2>2, <2>3, FailedBefore
<1>7. ASSUME Trade!Moves("build"), Trade!Live
      PROVE  TradeInv'
  <2>1. tradeAt' = "build" /\ UNCHANGED <<tradeReport, guard>>
    BY <1>7 DEF Trade!Moves
  <2>2. Whereabouts'
    BY <1>1, <1>7, <2>1 DEF TradeInv, Whereabouts, Working, Before, Recording, LiveOnly,
       Trade!Ended
  <2>3. Admitted'
    BY <1>1, <1>2, <2>1 DEF TradeInv, Admitted, Working, Before, Attempted
  <2> QED
    BY <1>1, <1>2, <2>1, <2>2, <2>3, MovedOn
<1>8. \/ Trade!SwapReturned(Trade!Success)
      \/ Trade!Finish(Trade!Failure("swap_build", "live_swap_build_failed"))
      \/ Trade!SwapReturned(Trade!Failure("preflight", "live_dependency_incomplete"))
      \/ Trade!SwapReturned(Trade!Failure("quote", "live_quote_invalid"))
      \/ Trade!SwapReturned(Trade!Failure("quote", "live_quote_stale"))
      \/ Trade!Moves("build") /\ Trade!Live
  BY <1>4 DEF Trade!BeginSwap, Trade!BuildFailed, Trade!Incomplete
<1> QED
  BY <1>5, <1>6, <1>7, <1>8

LEMMA BuildSwapKeeps == ASSUME TradeInv, Trade!BuildSwap PROVE TradeInv'
<1>1. /\ UNCHANGED <<intent, sends, chain, evidence>> /\ tradeAt = "build"
      /\ Trade!Live' = Trade!Live
      /\ tradeAt \in Before \ {"idle", "decision"} /\ sends = 0 /\ Trade!Live
  BY DEF Trade!BuildSwap, Trade!Live, Before, TradeInv, Whereabouts, LiveOnly
<1>2. EvidenceTrue' /\ \A k : Trade!Recorded(k) => Trade!Recorded(k)'
  BY <1>1 DEF TradeInv, EvidenceTrue, Trade!Recorded
<1>3. ASSUME Trade!Moves("sign")
      PROVE  TradeInv'
  <2>1. tradeAt' = "sign" /\ UNCHANGED <<tradeReport, guard>>
    BY <1>3 DEF Trade!Moves
  <2>2. Whereabouts'
    BY <1>1, <2>1 DEF TradeInv, Whereabouts, Working, Before, Recording, LiveOnly, Trade!Ended
  <2>3. Admitted'
    BY <1>1, <1>2, <2>1 DEF TradeInv, Admitted, Working, Before, Attempted
  <2> QED
    BY <1>1, <1>2, <2>1, <2>2, <2>3, MovedOn
<1>4. ASSUME NEW stage, NEW code, stage # "running", Trade!SwapReturned(Trade!Failure(stage, code))
      PROVE  TradeInv'
  <2>1. PICK r : r = Trade!Failure(stage, code)
    OBVIOUS
  <2>2. ~r.success /\ r.success \in BOOLEAN /\ r # Trade!NoReport /\ r.verification # "confirmed"
    BY <1>4, <2>1, Reports
  <2>3. Trade!Finish(r)
    BY <1>4, <2>1, <2>2, SwapFails
  <2> QED
    BY <1>1, <1>2, <2>2, <2>3, FailedBefore
<1>5. \/ Trade!Moves("sign")
      \/ Trade!SwapReturned(Trade!Failure("swap_build", "live_swap_build_failed"))
      \/ Trade!SwapReturned(Trade!Failure("payload_validate", "live_swap_payload_invalid"))
  BY DEF Trade!BuildSwap, Trade!BuildFailed
<1> QED
  BY <1>3, <1>4, <1>5

LEMMA SignSwapKeeps == ASSUME TradeInv, Trade!SignSwap PROVE TradeInv'
<1>1. /\ UNCHANGED <<intent, payer, sends, chain, evidence>> /\ tradeAt = "sign"
      /\ Trade!Live' = Trade!Live
      /\ tradeAt \in Before \ {"idle", "decision"} /\ sends = 0 /\ Trade!Live
  BY DEF Trade!SignSwap, Trade!Live, Before, TradeInv, Whereabouts, LiveOnly
<1>2. EvidenceTrue' /\ \A k : Trade!Recorded(k) => Trade!Recorded(k)'
  BY <1>1 DEF TradeInv, EvidenceTrue, Trade!Recorded
<1>3. ASSUME payer = BotWallet, Trade!Moves("send")
      PROVE  TradeInv'
  <2>1. tradeAt' = "send" /\ UNCHANGED <<tradeReport, guard>>
    BY <1>3 DEF Trade!Moves
  <2>2. Whereabouts'
    BY <1>1, <1>3, <2>1 DEF TradeInv, Whereabouts, Working, Before, Recording, LiveOnly,
       Trade!Ended
  <2>3. Admitted'
    BY <1>1, <1>2, <2>1 DEF TradeInv, Admitted, Working, Before, Attempted
  <2> QED
    BY <1>1, <1>2, <2>1, <2>2, <2>3, MovedOn
<1>4. ASSUME NEW code, Trade!SwapReturned(Trade!Failure("signing", code))
      PROVE  TradeInv'
  <2>1. PICK r : r = Trade!Failure("signing", code)
    OBVIOUS
  <2>2. ~r.success /\ r.success \in BOOLEAN /\ r # Trade!NoReport /\ r.verification # "confirmed"
    BY <1>4, <2>1, Reports
  <2>3. Trade!Finish(r)
    BY <1>4, <2>1, <2>2, SwapFails
  <2> QED
    BY <1>1, <1>2, <2>2, <2>3, FailedBefore
<1>5. \/ payer = BotWallet /\ Trade!Moves("send")
      \/ \E code : Trade!SwapReturned(Trade!Failure("signing", code))
  BY DEF Trade!SignSwap
<1> QED
  BY <1>3, <1>4, <1>5

(* A failure after the transaction may have been submitted *)
LEMMA FailedAfter ==
  ASSUME TradeInv, tradeAt \in {"send", "confirm"}, UNCHANGED <<intent, payer, evidence>>,
         sends' \in {0, 1}, sends' = 0 => chain' = "none",
         NEW r, Trade!SwapReturned(r), r.success = FALSE, r # Trade!NoReport,
         r.verification # "confirmed",
         r.stage \in {"send", "verification"},
         \A i \in DOMAIN evidence : Says(evidence[i]) => chain' = "landed"
  PROVE  TradeInv'
<1>1. Trade!Finish(r) /\ Honest(r, sends', chain')
  BY SwapFails DEF Honest
<1>2. Trade!Live /\ Trade!Live' = Trade!Live /\ payer = BotWallet /\ guard = "inFlight"
      /\ Trade!Recorded("decision_summary") /\ Trade!Recorded("execution_attempt_summary")
  BY DEF TradeInv, Whereabouts, Admitted, LiveOnly, Working, Before, Attempted, Trade!Live
<1>3. guard' = "failure"
  BY <1>1, <1>2 DEF Trade!Finish
<1>4. SentOnce'
  BY <1>2, <1>3 DEF SentOnce, Trade!Recorded
<1>5. EvidenceTrue'
  BY DEF TradeInv, EvidenceTrue
<1> QED
  BY <1>1, <1>2, <1>4, <1>5, Finished DEF Working, Before

LEMMA SendKeeps == ASSUME TradeInv, Trade!SendRawTransaction PROVE TradeInv'
<1>1. /\ UNCHANGED <<intent, payer, evidence>> /\ tradeAt = "send" /\ Trade!Live' = Trade!Live
      /\ sends = 0 /\ Trade!Live /\ payer = BotWallet
      /\ guard = "inFlight" /\ Trade!Recorded("decision_summary")
      /\ Trade!Recorded("execution_attempt_summary")
  BY DEF Trade!SendRawTransaction, Trade!Live, Working, Before, TradeInv, Whereabouts, Admitted,
     LiveOnly, Attempted
<1>2. Trade!Recorded("decision_summary")' /\ Trade!Recorded("execution_attempt_summary")'
  BY <1>1 DEF Trade!Recorded
<1>3. Trade!Submitted \/ Trade!NotSubmitted
  BY DEF Trade!SendRawTransaction
<1>4. sends' \in {0, 1}
  BY <1>1, <1>3 DEF Trade!Submitted, Trade!NotSubmitted
<1>5. /\ sends' = 0 => chain' = "none"
      /\ \A i \in DOMAIN evidence : ~Says(evidence[i])
      /\ sends' = 1 \/ UNCHANGED <<sends, chain>>
  BY <1>1, <1>3 DEF TradeInv, SentOnce, EvidenceTrue, Trade!Submitted, Trade!NotSubmitted
<1>6. ASSUME NEW r, Trade!SwapReturned(r), r.success = FALSE, r # Trade!NoReport,
             r.verification # "confirmed", r.stage \in {"send", "verification"}
      PROVE  TradeInv'
  BY <1>1, <1>4, <1>5, <1>6, FailedAfter
<1>7. ASSUME Trade!Submitted, Trade!Moves("confirm")
      PROVE  TradeInv'
  <2>1. tradeAt' = "confirm" /\ UNCHANGED <<tradeReport, guard>> /\ sends' = 1
    BY <1>1, <1>7 DEF Trade!Moves, Trade!Submitted
  <2>2. Whereabouts'
    BY <1>1, <2>1 DEF TradeInv, Whereabouts, Working, Before, Recording, LiveOnly, Trade!Ended
  <2>3. Admitted'
    BY <1>1, <1>2, <2>1 DEF TradeInv, Admitted, Working, Before, Attempted
  <2>4. SentOnce'
    BY <1>1, <1>2, <2>1 DEF SentOnce
  <2>5. ReportTrue' /\ EvidenceTrue'
    BY <1>1, <1>5, <2>1
    DEF TradeInv, Whereabouts, Working, Before, ReportTrue, EvidenceTrue
  <2> QED
    BY <2>2, <2>3, <2>4, <2>5 DEF TradeInv
<1>8. \/ Trade!Submitted /\ Trade!Moves("confirm")
      \/ Trade!SwapReturned(Trade!Unconfirmed("live_verification_failed"))
      \/ Trade!SwapReturned(Trade!Failure("send", "live_send_ambiguous"))
      \/ Trade!SwapReturned(Trade!Failure("send", "live_send_failed"))
  BY DEF Trade!SendRawTransaction
<1>9. ASSUME NEW code, Trade!SwapReturned(Trade!Unconfirmed(code)) PROVE TradeInv'
  <2>1. PICK r : r = Trade!Unconfirmed(code)
    OBVIOUS
  <2> QED
    BY <1>6, <1>9, <2>1, Reports
<1>10. ASSUME NEW code, Trade!SwapReturned(Trade!Failure("send", code)) PROVE TradeInv'
  <2>1. PICK r : r = Trade!Failure("send", code)
    OBVIOUS
  <2> QED
    BY <1>6, <1>10, <2>1, Reports
<1> QED
  BY <1>7, <1>8, <1>9, <1>10

(* A receipt that classifies as confirmed is one of a transaction that      *)
(* landed.                                                                  *)
LEMMA ConfirmedLanded ==
  ASSUME NEW r \in Trade!Receipts, Trade!ClassifyReceipt(r) = "confirmed"
  PROVE  chain = "landed"
BY DEF Trade!Receipts, Trade!Receipt, Trade!ClassifyReceipt

LEMMA FindReceiptKeeps ==
  ASSUME "none" \notin Payers, BotWallet \in Payers, TradeInv, Trade!FindReceipt
  PROVE  TradeInv'
<1>1. /\ UNCHANGED <<intent, payer, sends, chain, evidence>> /\ tradeAt = "confirm"
      /\ Trade!Live' = Trade!Live
      /\ sends = 1 /\ Trade!Live /\ payer = BotWallet /\ guard = "inFlight"
  BY DEF Trade!FindReceipt, Trade!Live, Working, Before, TradeInv, Whereabouts, Admitted, LiveOnly
<1>2. EvidenceTrue' /\ \A k : Trade!Recorded(k) => Trade!Recorded(k)'
  BY <1>1 DEF TradeInv, EvidenceTrue, Trade!Recorded
<1>3. ASSUME NEW code, Trade!SwapReturned(Trade!Unconfirmed(code))
      PROVE  TradeInv'
  <2>1. PICK r : r = Trade!Unconfirmed(code)
    OBVIOUS
  <2>2. /\ r.success = FALSE /\ r # Trade!NoReport /\ r.verification # "confirmed"
        /\ r.stage \in {"send", "verification"}
    BY <2>1, Reports
  <2>3. \A i \in DOMAIN evidence : Says(evidence[i]) => chain' = "landed"
    BY <1>1 DEF TradeInv, EvidenceTrue
  <2>4. /\ Trade!SwapReturned(r) /\ tradeAt \in {"send", "confirm"}
        /\ sends' \in {0, 1} /\ (sends' = 0 => chain' = "none")
        /\ UNCHANGED <<intent, payer, evidence>>
    BY <1>1, <1>3, <2>1
  <2> QED
    BY <2>2, <2>3, <2>4, FailedAfter
<1>4. ASSUME Trade!Moves("confirm")
      PROVE  TradeInv'
  <2>1. tradeAt' = "confirm" /\ UNCHANGED <<tradeReport, guard>>
    BY <1>4 DEF Trade!Moves
  <2>2. Whereabouts'
    BY <1>1, <2>1 DEF TradeInv, Whereabouts, Working, Before, Recording, LiveOnly, Trade!Ended
  <2>3. Admitted'
    BY <1>1, <1>2, <2>1 DEF TradeInv, Admitted, Working, Before, Attempted
  <2> QED
    BY <1>1, <1>2, <2>1, <2>2, <2>3, MovedOn
<1>5. ASSUME NEW late, Trade!Unresolved(late)
      PROVE  TradeInv'
  <2>1. Trade!Moves("confirm") \/ \E code : Trade!SwapReturned(Trade!Unconfirmed(code))
    BY <1>5 DEF Trade!Unresolved
  <2> QED
    BY <1>3, <1>4, <2>1
<1>6. ASSUME NEW r \in Trade!Receipts, Trade!ClassifyReceipt(r) = "confirmed", Trade!SwapReturned(Trade!Confirmed)
      PROVE  TradeInv'
  <2>1. chain = "landed"
    BY <1>6, ConfirmedLanded
  <2>2. Trade!Finish(Trade!Confirmed)
    BY <1>1, <1>6, Reports DEF Trade!SwapReturned
  <2>3. Honest(Trade!Confirmed, sends', chain')
    BY <1>1, <2>1, Reports DEF Honest
  <2>4. guard' = "success"
    BY <1>1, <2>2, Reports DEF Trade!Finish
  <2>5. SentOnce'
    BY <1>1, <1>2, <2>4 DEF TradeInv, SentOnce
  <2> QED
    BY <1>1, <1>2, <2>2, <2>3, <2>5, Finished DEF Working
<1> QED
  BY <1>3, <1>5, <1>6 DEF Trade!FindReceipt

LEMMA RefuseUnprovenKeeps == ASSUME TradeInv, Trade!RefuseUnproven PROVE TradeInv'
<1>1. /\ UNCHANGED <<intent, payer, sends, chain>> /\ tradeAt = "unproven"
      /\ tradeAt \in Before \ {"idle", "decision"}
  BY DEF Trade!RefuseUnproven, Before
<1>2. ASSUME NEW stage, NEW code, stage # "running", Trade!Finish(Trade!Failure(stage, code)), EvidenceTrue'
      PROVE  TradeInv'
  <2>1. PICK r : r = Trade!Failure(stage, code)
    OBVIOUS
  <2>2. ~r.success /\ r.success \in BOOLEAN /\ r # Trade!NoReport /\ r.verification # "confirmed"
    BY <1>2, <2>1, Reports
  <2> QED
    BY <1>1, <1>2, <2>1, <2>2, FailedBefore
<1>3. EvidenceTrue'
  <2>1. EvidenceTrue /\ UNCHANGED chain
    BY <1>1 DEF TradeInv
  <2>2. CASE UNCHANGED evidence
    BY <2>1, <2>2 DEF EvidenceTrue
  <2>3. CASE Trade!Record("verification_outcome", FALSE)
    BY <2>1, <2>3, RecordsRefusal DEF Kind
  <2> QED
    BY <2>2, <2>3 DEF Trade!RefuseUnproven
<1>4. \/ Trade!Finish(Trade!Failure("send", "live_send_ambiguous"))
      \/ Trade!Finish(Trade!Failure("verification", "live_verification_failed"))
      \/ Trade!Finish(Trade!Failure("swap_build", "live_swap_build_failed"))
  BY DEF Trade!RefuseUnproven, Trade!BuildFailed
<1> QED
  BY <1>2, <1>3, <1>4

(* A record of what the report says, and on to the next one *)
LEMMA Recounted ==
  ASSUME TradeInv, tradeAt \in Recording, UNCHANGED <<intent, payer, sends, chain>>,
         NEW to \in Recording \cup {"returned"}, Trade!Moves(to),
         EvidenceTrue', \A k : Trade!Recorded(k) => Trade!Recorded(k)'
  PROVE  TradeInv'
<1>1. Trade!Live' = Trade!Live /\ Trade!Live /\ tradeReport # Trade!NoReport
  BY DEF Trade!Live, TradeInv, Whereabouts, LiveOnly
<1>2. tradeAt' = to /\ UNCHANGED <<tradeReport, guard>>
  BY DEF Trade!Moves
<1>3. Whereabouts'
  BY <1>1, <1>2 DEF TradeInv, Whereabouts, Working, Before, Recording, LiveOnly, Trade!Ended
<1>4. Admitted'
  BY <1>1, <1>2 DEF Admitted, Working, Before, Recording, Attempted
<1> QED
  BY <1>2, <1>3, <1>4, MovedOn

LEMMA RecordSummaryKeeps == ASSUME TradeInv, Trade!RecordSummary PROVE TradeInv'
<1>1. UNCHANGED <<intent, payer, sends, chain>> /\ tradeAt \in Recording
  BY DEF Trade!RecordSummary, Recording
<1>2. Trade!Live /\ Honest(tradeReport, sends, chain)
  BY <1>1 DEF TradeInv, Whereabouts, LiveOnly, ReportTrue
<1>3. ASSUME NEW to, Trade!Moves(to),
             to = (IF tradeReport.verification # "none" THEN "outcome" ELSE Trade!AfterOutcome),
             Trade!Record("execution_summary", tradeReport.success)
      PROVE  TradeInv'
  <2>1. to \in Recording \cup {"returned"}
    BY <1>3 DEF Trade!AfterOutcome, Recording
  <2>2. EvidenceTrue /\ UNCHANGED chain /\ "execution_summary" \in Kind
    BY <1>1 DEF TradeInv, Kind
  <2>3. EvidenceTrue' /\ \A k : Trade!Recorded(k) => Trade!Recorded(k)'
    <3>1. CASE tradeReport.success
      <4>1. Trade!Record("execution_summary", TRUE) /\ chain = "landed"
        BY <1>2, <1>3, <3>1 DEF Honest, Trade!Record
      <4> QED
        BY <2>2, <4>1, Records
    <3>2. CASE ~tradeReport.success
      <4>1. Trade!Record("execution_summary", FALSE)
        BY <1>2, <1>3, <3>2 DEF Honest, Trade!Record
      <4> QED
        BY <2>2, <4>1, RecordsRefusal
    <3> QED
      BY <3>1, <3>2
  <2> QED
    BY <1>1, <1>3, <2>1, <2>3, Recounted
<1>4. CASE Trade!Rejected
  BY <1>1, <1>4, RejectedStep
<1> QED
  BY <1>3, <1>4 DEF Trade!RecordSummary

LEMMA RecordOutcomeKeeps == ASSUME TradeInv, Trade!RecordOutcome PROVE TradeInv'
<1>1. UNCHANGED <<intent, payer, sends, chain>> /\ tradeAt \in Recording
  BY DEF Trade!RecordOutcome, Recording
<1>2. Trade!Live /\ Honest(tradeReport, sends, chain)
  BY <1>1 DEF TradeInv, Whereabouts, LiveOnly, ReportTrue
<1>3. ASSUME Trade!Moves(Trade!AfterOutcome), Trade!Record("verification_outcome", tradeReport.verification = "confirmed")
      PROVE  TradeInv'
  <2>1. Trade!AfterOutcome \in Recording \cup {"returned"}
    BY DEF Trade!AfterOutcome, Recording
  <2>2. EvidenceTrue /\ UNCHANGED chain /\ "verification_outcome" \in Kind
    BY <1>1 DEF TradeInv, Kind
  <2>3. EvidenceTrue' /\ \A k : Trade!Recorded(k) => Trade!Recorded(k)'
    <3>1. CASE tradeReport.verification = "confirmed"
      <4>1. Trade!Record("verification_outcome", TRUE) /\ chain = "landed"
        BY <1>2, <1>3, <3>1 DEF Honest, Trade!Record
      <4> QED
        BY <2>2, <4>1, Records
    <3>2. CASE tradeReport.verification # "confirmed"
      <4>1. Trade!Record("verification_outcome", FALSE)
        BY <1>3, <3>2 DEF Trade!Record
      <4> QED
        BY <2>2, <4>1, RecordsRefusal
    <3> QED
      BY <3>1, <3>2
  <2>4. PICK to : to = Trade!AfterOutcome
    OBVIOUS
  <2> QED
    BY <1>1, <1>3, <2>1, <2>3, <2>4, Recounted
<1>4. CASE Trade!Rejected
  BY <1>1, <1>4, RejectedStep
<1> QED
  BY <1>3, <1>4 DEF Trade!RecordOutcome

LEMMA RecordIncidentKeeps == ASSUME TradeInv, Trade!RecordIncident PROVE TradeInv'
<1>1. UNCHANGED <<intent, payer, sends, chain>> /\ tradeAt \in Recording
  BY DEF Trade!RecordIncident, Recording
<1>2. ASSUME Trade!Moves("returned"), UNCHANGED evidence
      PROVE  TradeInv'
  <2>1. EvidenceTrue' /\ \A k : Trade!Recorded(k) => Trade!Recorded(k)'
    BY <1>1, <1>2 DEF TradeInv, EvidenceTrue, Trade!Recorded
  <2> QED
    BY <1>1, <1>2, <2>1, Recounted
<1>3. CASE Trade!Rejected
  BY <1>1, <1>3, RejectedStep
<1> QED
  BY <1>2, <1>3 DEF Trade!RecordIncident

(* The cluster decides, or the process dies. *)
LEMMA ElsewhereKeeps == ASSUME TradeInv, Trade!ChainDecides \/ Trade!Crash PROVE TradeInv'
<1>1. UNCHANGED <<intent, guard, payer, sends, tradeReport, evidence>> /\ Trade!Live' = Trade!Live
  BY DEF Trade!ChainDecides, Trade!Crash, Trade!Live
<1>2. CASE Trade!ChainDecides
  <2>1. UNCHANGED tradeAt /\ chain = "pending"
    BY <1>2 DEF Trade!ChainDecides
  <2>2. Whereabouts' /\ Admitted'
    BY <1>1, <2>1 DEF TradeInv, Whereabouts, Admitted, Trade!Recorded
  <2>3. SentOnce' /\ ReportTrue' /\ EvidenceTrue'
    BY <1>1, <2>1 DEF TradeInv, SentOnce, ReportTrue, Honest, EvidenceTrue, Trade!Recorded
  <2> QED
    BY <2>2, <2>3 DEF TradeInv
<1>3. CASE Trade!Crash
  <2>1. UNCHANGED chain /\ tradeAt' = "dead"
    BY <1>3 DEF Trade!Crash
  <2>2. Whereabouts' /\ Admitted'
    BY <1>1, <2>1
    DEF TradeInv, Whereabouts, Admitted, Working, Before, Recording, LiveOnly, Trade!Ended,
        Attempted
  <2>3. EvidenceTrue' /\ \A k : Trade!Recorded(k) => Trade!Recorded(k)'
    BY <1>1, <2>1 DEF TradeInv, EvidenceTrue, Trade!Recorded
  <2> QED
    BY <1>1, <2>1, <2>2, <2>3, MovedOn
<1> QED
  BY <1>2, <1>3

LEMMA TradeStep ==
  ASSUME "none" \notin Payers, BotWallet \in Payers, TradeInv, [Trade!Next]_(Trade!vars)
  PROVE  TradeInv'
<1>1. CASE UNCHANGED Trade!vars
  <2>1. UNCHANGED <<intent, tradeAt, guard, payer, sends, chain, tradeReport, evidence>>
    BY <1>1 DEF Trade!vars
  <2> QED
    BY <2>1 DEF TradeInv, Whereabouts, Admitted, SentOnce, ReportTrue, EvidenceTrue, Honest,
                Trade!Recorded, Trade!Live
<1> QED
  BY <1>1, BeginKeeps, RecordDecisionKeeps, VerifyKeeps, RecordAttemptKeeps, FetchQuoteKeeps,
     BeginSwapKeeps, BuildSwapKeeps, SignSwapKeeps, SendKeeps, FindReceiptKeeps,
     RefuseUnprovenKeeps, RecordSummaryKeeps, RecordOutcomeKeeps, RecordIncidentKeeps,
     ElsewhereKeeps DEF Trade!Next

LEMMA InvReportsTrue == TradeInv => Trade!ReportsTrue
<1> SUFFICES ASSUME TradeInv PROVE Trade!ReportsTrue
  OBVIOUS
<1>1. sends > 0 =>
        /\ sends = 1 /\ payer = BotWallet /\ guard \in {"inFlight", "success", "failure"}
        /\ Trade!Recorded("decision_summary") /\ Trade!Recorded("execution_attempt_summary")
  BY DEF TradeInv, SentOnce
<1>2. Trade!Reported /\ tradeReport.success /\ Trade!Live => sends = 1 /\ chain = "landed" /\ guard = "success"
  BY DEF TradeInv, ReportTrue, Honest, Trade!Reported
<1>3. Trade!Reported /\ ~tradeReport.success /\ tradeReport.stage \notin {"send", "verification"} => sends = 0
  BY DEF TradeInv, ReportTrue, Honest, Trade!Reported
<1>4. tradeAt = "rejected" /\ guard = "inFlight" => sends = 0
  BY DEF TradeInv, Whereabouts
<1>5. \A i \in DOMAIN evidence : Says(evidence[i]) => chain = "landed"
  BY DEF TradeInv, EvidenceTrue
<1> QED
  BY <1>1, <1>2, <1>3, <1>4, <1>5 DEF Trade!ReportsTrue, Says

LEMMA TradeInit == Trade!Init => TradeInv
BY DEF Trade!Init, TradeInv, Whereabouts, Admitted, SentOnce, ReportTrue, EvidenceTrue, Working,
       Before, Recording, LiveOnly, Trade!Ended, Attempted

(* Whatever deployment the handler runs in and whoever fails on the way,    *)
(* what it reports and records of a trade is true of the chain: one send    *)
(* at most, for the bot's wallet, admitted and recorded before it; success  *)
(* only of what landed; and no doubt left but by a failed send or           *)
(* verification (LiveTrade says what that means).  The only assumption is   *)
(* that the mark of a missing transaction is no wallet.                     *)
THEOREM ReportsAlwaysTrue == Trade!Spec => []ReportsTrue
<1>1. TradeInv /\ [Trade!Next]_(Trade!vars) => TradeInv'
  BY TradeStep, TradeConstants
<1>2. TradeInv => ReportsTrue
  BY InvReportsTrue DEF ReportsTrue
<1> QED
  BY <1>1, <1>2, TradeInit, PTL DEF Trade!Spec

-----------------------------------------------------------------------------
(* The handler as the live runtime sees it *)

UnderWay == tradeAt \notin Trade!Ended \cup {"idle"}

(* The guardrail's part of an admitted call ends with its report. *)
SameAdmission ==
  guard' = guard \/ (guard = "inFlight" /\ guard' \in {"success", "failure"})

(* What one step of a live intent's call may do to what is seen of it:     *)
(* nothing, begin it, take it on, send its transaction, throw or answer.    *)
Unseen == UNCHANGED <<tradeAt, guard, sends, tradeReport>>
Begins ==
  /\ tradeAt = "idle" /\ tradeAt' = "decision"
  /\ guard' \in {"inFlight", "refused"} /\ UNCHANGED sends
TakenOn == UnderWay /\ UnderWay' /\ SameAdmission /\ UNCHANGED sends
Sends ==
  /\ tradeAt = "send" /\ UnderWay' /\ SameAdmission
  /\ sends' = sends + 1
Throws == UnderWay /\ tradeAt' \in {"rejected", "dead"} /\ UNCHANGED sends
Answers ==
  /\ tradeAt \in Recording /\ tradeAt' = "returned"
  /\ UNCHANGED <<guard, sends, tradeReport>>

Seen == Unseen \/ Begins \/ TakenOn \/ Sends \/ Throws \/ Answers

(* A report of a live intent is on record before it is returned. *)
LEMMA FinishSeen ==
  ASSUME Trade!Live, NEW r, Trade!Finish(r)
  PROVE  UnderWay' /\ SameAdmission
BY DEF Trade!Finish, UnderWay, SameAdmission, Trade!Ended

LEMMA ReturnedSeen ==
  ASSUME Trade!Live, NEW r, Trade!SwapReturned(r)
  PROVE  UnderWay' /\ SameAdmission
<1>1. CASE Trade!Moves("unproven")
  BY <1>1 DEF Trade!Moves, UnderWay, SameAdmission, Trade!Ended
<1>2. CASE Trade!Finish(r)
  BY <1>2, FinishSeen
<1> QED
  BY <1>1, <1>2 DEF Trade!SwapReturned

LEMMA MovesSeen ==
  ASSUME NEW to, to \notin Trade!Ended \cup {"idle"}, Trade!Moves(to)
  PROVE  UnderWay' /\ SameAdmission
BY DEF Trade!Moves, UnderWay, SameAdmission

LEMMA RejectedSeen ==
  ASSUME UnderWay, Trade!Rejected, UNCHANGED sends
  PROVE  Throws
BY DEF Trade!Rejected, Trade!Moves, Throws

(* The steps before the swap, and the swap's up to the signature *)
LEMMA EarlySeen ==
  ASSUME Trade!Live,
         \/ Trade!RecordDecision \/ Trade!VerifyBeforeTrade \/ Trade!RecordAttempt
         \/ Trade!FetchQuote \/ Trade!BeginSwap \/ Trade!BuildSwap \/ Trade!SignSwap
         \/ Trade!RefuseUnproven
  PROVE  Seen
<1>1. UnderWay /\ UNCHANGED sends
  BY DEF Trade!RecordDecision, Trade!VerifyBeforeTrade, Trade!RecordAttempt, Trade!FetchQuote,
         Trade!BeginSwap, Trade!BuildSwap, Trade!SignSwap, Trade!RefuseUnproven, UnderWay,
         Trade!Ended
<1>2. \/ Trade!Rejected
      \/ \E r : Trade!Finish(r) \/ Trade!SwapReturned(r)
      \/ \E to \in {"verify", "attempt", "swap", "quote", "build", "sign", "send"} : Trade!Moves(to)
  BY DEF Trade!RecordDecision, Trade!VerifyBeforeTrade, Trade!RecordAttempt, Trade!FetchQuote,
         Trade!BeginSwap, Trade!BuildSwap, Trade!SignSwap, Trade!RefuseUnproven
<1>3. CASE Trade!Rejected
  BY <1>1, <1>3, RejectedSeen DEF Seen
<1>4. CASE \E r : Trade!Finish(r) \/ Trade!SwapReturned(r)
  BY <1>1, <1>4, FinishSeen, ReturnedSeen DEF Seen, TakenOn
<1>5. CASE \E to \in {"verify", "attempt", "swap", "quote", "build", "sign", "send"} : Trade!Moves(to)
  BY <1>1, <1>5, MovesSeen DEF Seen, TakenOn, Trade!Ended
<1> QED
  BY <1>2, <1>3, <1>4, <1>5

LEMMA SendSeen == ASSUME Trade!Live, Trade!SendRawTransaction PROVE Seen
<1>1. tradeAt = "send" /\ UnderWay
  BY DEF Trade!SendRawTransaction, UnderWay, Trade!Ended
<1>2. UnderWay' /\ SameAdmission
  <2>1. Trade!Moves("confirm") \/ \E r : Trade!SwapReturned(r)
    BY DEF Trade!SendRawTransaction
  <2> QED
    BY <2>1, MovesSeen, ReturnedSeen DEF Trade!Ended
<1>3. UNCHANGED sends \/ sends' = sends + 1
  BY DEF Trade!SendRawTransaction, Trade!Submitted, Trade!NotSubmitted
<1> QED
  BY <1>1, <1>2, <1>3 DEF Seen, TakenOn, Sends

LEMMA FindSeen == ASSUME Trade!Live, Trade!FindReceipt PROVE Seen
<1>1. UnderWay /\ UNCHANGED sends
  BY DEF Trade!FindReceipt, UnderWay, Trade!Ended
<1>2. Trade!Moves("confirm") \/ \E r : Trade!SwapReturned(r)
  BY DEF Trade!FindReceipt, Trade!Unresolved
<1> QED
  BY <1>1, <1>2, MovesSeen, ReturnedSeen DEF Seen, TakenOn, Trade!Ended

LEMMA RecordSeen ==
  ASSUME Trade!RecordSummary \/ Trade!RecordOutcome \/ Trade!RecordIncident
  PROVE  Seen
<1>1. tradeAt \in Recording /\ UnderWay /\ UNCHANGED sends
  BY DEF Trade!RecordSummary, Trade!RecordOutcome, Trade!RecordIncident, Recording, UnderWay,
         Trade!Ended
<1>2. Trade!Rejected \/ \E to \in {"outcome", "incident", "returned"} : Trade!Moves(to)
  BY DEF Trade!RecordSummary, Trade!RecordOutcome, Trade!RecordIncident, Trade!AfterOutcome
<1>3. CASE Trade!Rejected
  BY <1>1, <1>3, RejectedSeen DEF Seen
<1>4. CASE Trade!Moves("returned")
  BY <1>1, <1>4 DEF Trade!Moves, Seen, Answers
<1>5. CASE Trade!Moves("outcome") \/ Trade!Moves("incident")
  BY <1>1, <1>5, MovesSeen DEF Seen, TakenOn, Trade!Ended
<1> QED
  BY <1>2, <1>3, <1>4, <1>5

LEMMA StepSeen ==
  ASSUME Trade!Live, [Trade!Next]_(Trade!vars)
  PROVE  Seen
<1>1. CASE Trade!Begin
  BY <1>1 DEF Trade!Begin, Seen, Begins
<1>2. CASE Trade!ChainDecides \/ UNCHANGED Trade!vars
  BY <1>2 DEF Trade!ChainDecides, Trade!vars, Seen, Unseen
<1>3. CASE Trade!Crash
  BY <1>3 DEF Trade!Crash, Seen, Throws, UnderWay
<1> QED
  BY <1>1, <1>2, <1>3, EarlySeen, SendSeen, FindSeen, RecordSeen DEF Trade!Next

(* The intent stays what it was. *)
LEMMA IntentStays == ASSUME [Trade!Next]_(Trade!vars) PROVE UNCHANGED intent
BY DEF Trade!Next, Trade!vars, Trade!Begin, Trade!RecordDecision, Trade!VerifyBeforeTrade,
       Trade!RecordAttempt, Trade!FetchQuote, Trade!BeginSwap, Trade!BuildSwap, Trade!SignSwap,
       Trade!SendRawTransaction, Trade!FindReceipt, Trade!RefuseUnproven, Trade!RecordSummary,
       Trade!RecordOutcome, Trade!RecordIncident, Trade!ChainDecides, Trade!Crash

(* The phase of the call, by the await it is at *)
PhaseKnown ==
  /\ ~Trade!Live => Trade!CallPhase = "called" /\ sends = 0
  /\ Trade!Live /\ tradeAt = "idle" => Trade!CallPhase = "called"
  /\ Trade!Live /\ tradeAt = "returned" =>
       Trade!CallPhase = IF tradeReport.success THEN "succeeded" ELSE "failed"
  /\ Trade!Live /\ tradeAt \in {"rejected", "dead"} => Trade!CallPhase = "thrown"
  /\ Trade!Live /\ UnderWay =>
       Trade!CallPhase = IF guard = "refused" THEN "refused"
                         ELSE IF sends = 0 THEN "executing" ELSE "sent"

LEMMA PhasesKnown == TradeInv => PhaseKnown
<1> SUFFICES ASSUME TradeInv PROVE PhaseKnown
  OBVIOUS
<1>1. ~Trade!Live => sends = 0
  BY DEF TradeInv, SentOnce
<1>2. ~Trade!Live \/ tradeAt = "idle" => Trade!CallPhase = "called"
  BY DEF Trade!CallPhase
<1>3. Trade!Live /\ tradeAt = "returned" =>
        Trade!CallPhase = IF tradeReport.success THEN "succeeded" ELSE "failed"
  <2>1. tradeAt = "returned" => tradeAt # "idle" /\ tradeAt \notin {"rejected", "dead"}
    OBVIOUS
  <2> QED
    BY <2>1, Zenon DEF Trade!CallPhase
<1>4. Trade!Live /\ tradeAt \in {"rejected", "dead"} => Trade!CallPhase = "thrown"
  BY DEF Trade!CallPhase
<1>5. ASSUME Trade!Live, UnderWay
      PROVE  Trade!CallPhase = IF guard = "refused" THEN "refused"
                               ELSE IF sends = 0 THEN "executing" ELSE "sent"
  BY <1>5 DEF Trade!CallPhase, UnderWay, Trade!Ended
<1> QED
  BY <1>1, <1>2, <1>3, <1>4, <1>5 DEF PhaseKnown

CallPhases == [k \in {"call"} |-> Trade!CallPhase]
CallSends == [k \in {"call"} |-> sends]
CallChange == Call!Next \/ UNCHANGED <<CallPhases, CallSends>>

(* The call's steps, when only its phase changes or its sends as well *)
LEMMA PhaseStep ==
  ASSUME UNCHANGED sends,
         \/ Trade!CallPhase' = Trade!CallPhase
         \/ Trade!CallPhase = "called" /\ Trade!CallPhase' \in {"executing", "refused"}
         \/ Trade!CallPhase = "sent" /\ Trade!CallPhase' = "succeeded"
         \/ /\ Trade!CallPhase \in {"refused", "executing", "sent"}
            /\ Trade!CallPhase' \in {"failed", "thrown"}
  PROVE  CallChange
<1>1. CallPhases' = [CallPhases EXCEPT !["call"] = Trade!CallPhase'] /\ UNCHANGED CallSends
  BY DEF CallPhases, CallSends
<1>2. CallPhases["call"] = Trade!CallPhase
  BY DEF CallPhases
<1>3. CASE Trade!CallPhase' = Trade!CallPhase
  BY <1>1, <1>3 DEF CallChange, CallPhases
<1>4. CASE Trade!CallPhase = "called" /\ Trade!CallPhase' \in {"executing", "refused"}
  <2>1. Call!Admit("call") \/ Call!Refuse("call")
    BY <1>1, <1>2, <1>4 DEF Call!Admit, Call!Refuse, Call!Becomes, CallPhases, CallSends
  <2> QED
    BY <2>1 DEF CallChange, Call!Next
<1>5. CASE Trade!CallPhase = "sent" /\ Trade!CallPhase' = "succeeded"
  <2>1. Call!Succeed("call")
    BY <1>1, <1>2, <1>5 DEF Call!Succeed, Call!Becomes, CallPhases, CallSends
  <2> QED
    BY <2>1 DEF CallChange, Call!Next
<1>6. CASE /\ Trade!CallPhase \in {"refused", "executing", "sent"}
           /\ Trade!CallPhase' \in {"failed", "thrown"}
  <2>1. Call!Fail("call") \/ Call!Throw("call")
    BY <1>1, <1>2, <1>6
       DEF Call!Fail, Call!Throw, Call!Becomes, Call!UnderWay, CallPhases, CallSends
  <2> QED
    BY <2>1 DEF CallChange, Call!Next
<1> QED
  BY <1>3, <1>4, <1>5, <1>6

LEMMA CallSent ==
  ASSUME sends = 0, sends' = 1, Trade!CallPhase = "executing", Trade!CallPhase' = "sent"
  PROVE  CallChange
<1>1. /\ CallPhases' = [CallPhases EXCEPT !["call"] = "sent"]
      /\ CallSends' = [CallSends EXCEPT !["call"] = 1]
  BY DEF CallPhases, CallSends
<1>2. CallPhases["call"] = "executing" /\ CallSends["call"] = 0
  BY DEF CallPhases, CallSends
<1>3. Call!Send("call")
  BY <1>1, <1>2 DEF Call!Send, Call!Becomes, CallPhases, CallSends
<1> QED
  BY <1>3 DEF CallChange, Call!Next

LEMMA CallStep ==
  ASSUME TradeInv, TradeInv', PhaseKnown, PhaseKnown', [Trade!Next]_(Trade!vars)
  PROVE  CallChange
<1>1. UNCHANGED intent /\ Trade!Live' = Trade!Live
  BY IntentStays DEF Trade!Live
<1>2. CASE ~Trade!Live
  BY <1>1, <1>2, PhaseStep DEF PhaseKnown
<1>3. CASE Trade!Live
  <2>1. Trade!Live' /\ Seen
    BY <1>1, <1>3, StepSeen
  <2>2. sends \in {0, 1} /\ sends' \in {0, 1} /\ (sends' = 1 => guard' # "refused")
    BY DEF TradeInv, SentOnce
  <2>3. CASE Unseen
    <3>1. Trade!CallPhase' = Trade!CallPhase
      BY <1>1, <2>3 DEF Unseen, Trade!CallPhase
    <3> QED
      BY <2>3, <3>1, PhaseStep DEF Unseen
  <2>4. CASE Begins
    <3>1. UnderWay' /\ sends = 0 /\ sends' = 0
      BY <2>4 DEF Begins, UnderWay, Trade!Ended, TradeInv, Whereabouts, Before
    <3>2. Trade!CallPhase = "called" /\ Trade!CallPhase' \in {"executing", "refused"}
      BY <1>3, <2>1, <2>4, <3>1 DEF Begins, PhaseKnown
    <3> QED
      BY <2>4, <3>2, PhaseStep DEF Begins
  <2>5. CASE TakenOn
    <3>1. Trade!CallPhase' = Trade!CallPhase
      BY <1>3, <2>1, <2>5 DEF TakenOn, SameAdmission, PhaseKnown
    <3> QED
      BY <2>5, <3>1, PhaseStep DEF TakenOn
  <2>6. CASE Sends
    <3>1. UnderWay /\ sends = 0 /\ sends' = 1
      BY <2>6 DEF Sends, UnderWay, Trade!Ended, TradeInv, Whereabouts, Before
    <3>2. guard # "refused" /\ guard' # "refused"
      BY <2>2, <2>6, <3>1 DEF Sends, SameAdmission
    <3>3. Trade!CallPhase = "executing" /\ Trade!CallPhase' = "sent"
      BY <1>3, <2>1, <2>6, <3>1, <3>2 DEF Sends, PhaseKnown
    <3> QED
      BY <3>1, <3>3, CallSent
  <2>7. CASE Throws
    <3>1. Trade!CallPhase \in {"refused", "executing", "sent"} /\ Trade!CallPhase' = "thrown"
      BY <1>3, <2>1, <2>7 DEF Throws, PhaseKnown
    <3> QED
      BY <2>7, <3>1, PhaseStep DEF Throws
  <2>8. CASE Answers
    <3>1. UnderWay /\ tradeReport # Trade!NoReport
      BY <2>8 DEF Answers, UnderWay, Recording, Trade!Ended, TradeInv, Whereabouts
    <3>2. Trade!CallPhase \in {"refused", "executing", "sent"}
      BY <1>3, <3>1 DEF PhaseKnown
    <3>3. CASE tradeReport.success
      <4>1. sends = 1 /\ guard = "success"
        BY <1>3, <3>1, <3>3 DEF TradeInv, ReportTrue, Honest
      <4>2. Trade!CallPhase = "sent" /\ Trade!CallPhase' = "succeeded"
        BY <1>3, <2>1, <2>8, <3>1, <3>3, <4>1 DEF Answers, PhaseKnown
      <4> QED
        BY <2>8, <4>2, PhaseStep DEF Answers
    <3>4. CASE ~tradeReport.success
      <4>1. Trade!CallPhase' = "failed"
        BY <2>1, <2>8, <3>4 DEF Answers, PhaseKnown
      <4> QED
        BY <2>8, <3>2, <4>1, PhaseStep DEF Answers
    <3> QED
      BY <3>3, <3>4
  <2> QED
    BY <2>1, <2>3, <2>4, <2>5, <2>6, <2>7, <2>8 DEF Seen
<1> QED
  BY <1>2, <1>3

LEMMA CallInit == Trade!Init => Call!Init
<1> SUFFICES ASSUME Trade!Init PROVE Call!Init
  OBVIOUS
<1>1. tradeAt = "idle" /\ sends = 0
  BY DEF Trade!Init
<1>2. Trade!CallPhase = "called"
  BY <1>1 DEF Trade!CallPhase
<1> QED
  BY <1>1, <1>2 DEF Call!Init

(* The execution handler, with all its records, quotes, signatures and      *)
(* searches and wherever the process dies, is the call that the live        *)
(* runtime takes it to be: what LiveCycle chooses freely between the        *)
(* guardrail's admission and the handler's answer is what the handler does. *)
THEOREM HandlerImplementsCall == Trade!Spec => HandlerIsCall
<1>1. TradeInv /\ [Trade!Next]_(Trade!vars) => TradeInv'
  BY TradeStep, TradeConstants
<1>2. TradeInv => PhaseKnown
  BY PhasesKnown
<1>3. TradeInv /\ TradeInv' /\ PhaseKnown /\ PhaseKnown' /\ [Trade!Next]_(Trade!vars) =>
        [Call!Next]_<<[k \in {"call"} |-> Trade!CallPhase], [k \in {"call"} |-> sends]>>
  BY CallStep DEF CallChange, CallPhases, CallSends
<1> QED
  BY <1>1, <1>2, <1>3, TradeInit, CallInit, PTL DEF Trade!Spec, HandlerIsCall, Call!Spec

-----------------------------------------------------------------------------
(* The market data of a paper cycle.  That the client's breaker never       *)
(* refuses what the runtime's lets through needs to know how far each has   *)
(* counted: between a request and the runtime's judgement of it the client  *)
(* may be one failure ahead.                                                *)

Adapter == Intake!Adapter
Breaker == [healthy : BOOLEAN, failures : Nat, since : Int]

(* An open breaker has counted to the threshold, and opened by now. *)
WellFormed(h) ==
  /\ h.failures <= BreakerThreshold
  /\ h.healthy <=> h.failures < BreakerThreshold
  /\ h.healthy => h.since = -1
  /\ ~h.healthy => h.since \in 0 .. now

(* The runtime's breaker has counted the attempts since one succeeded. *)
Counted(a) ==
  LET h == runtimeBreaker[a]
      n == Len(tries[a])
  IN  /\ h.failures = IF n < BreakerThreshold THEN n ELSE BreakerThreshold
      /\ n >= BreakerThreshold => h.since = tries[a][n]

Judging(a) == fetching.place = "failed" /\ a = Intake!Current

(* The client's breaker is behind the runtime's, or one failure ahead while *)
(* the runtime has yet to count it.                                         *)
Follows(a) ==
  LET c == clientBreaker[a]
      r == runtimeBreaker[a]
  IN  IF Judging(a) THEN c.failures <= r.failures + 1
      ELSE c.failures <= r.failures /\ (~c.healthy => ~r.healthy /\ c.since <= r.since)

Spaced(a) ==
  \A k \in BreakerThreshold .. Len(tries[a]) - 1 : tries[a][k + 1] - tries[a][k] >= BreakerRecovery

IntakeTypes ==
  /\ now \in Nat /\ refused = FALSE
  /\ clientBreaker \in [Adapter -> Breaker] /\ runtimeBreaker \in [Adapter -> Breaker]
  /\ tries \in [Adapter -> Seq(Nat)]
  /\ fetching \in [place : {"idle", "next", "request", "received", "failed"},
                   adapter : Nat \ {0}, attempt : Nat]

(* Whoever is asked, may be. *)
Asked ==
  /\ fetching.place \in {"request", "received", "failed"} =>
       fetching.adapter <= Len(Adapters) /\ Intake!IsHealthy(runtimeBreaker[Intake!Current])
  /\ fetching.place = "received" => clientBreaker[Intake!Current] = Intake!Sound

IntakeInv ==
  /\ IntakeTypes /\ Asked
  /\ \A a \in Adapter :
       /\ WellFormed(clientBreaker[a]) /\ WellFormed(runtimeBreaker[a])
       /\ Counted(a) /\ Follows(a) /\ Spaced(a)

(* What a breaker makes of another failure. *)
LEMMA FailureCounted ==
  ASSUME now \in Nat, NEW h \in Breaker, WellFormed(h)
  PROVE  /\ Intake!Reported(h, FALSE) \in Breaker
         /\ WellFormed(Intake!Reported(h, FALSE))
         /\ Intake!Reported(h, FALSE).failures
              = IF h.failures + 1 < BreakerThreshold THEN h.failures + 1 ELSE BreakerThreshold
         /\ ~Intake!Reported(h, FALSE).healthy => Intake!Reported(h, FALSE).since = now
<1> DEFINE n == h.failures + 1
<1>0. n \in Nat /\ BreakerThreshold \in Nat
  BY IntakeConstants DEF Breaker
<1>1. CASE n < BreakerThreshold
  <2>1. PICK r : r = Intake!Reported(h, FALSE)
    OBVIOUS
  <2>2. r = [h EXCEPT !.failures = n]
    BY <1>0, <1>1, <2>1 DEF Intake!Reported
  <2>3. r \in Breaker /\ r.failures = n /\ r.healthy = h.healthy /\ r.since = h.since
    BY <1>0, <2>2 DEF Breaker
  <2>4. h.healthy = TRUE
    BY <1>0, <1>1 DEF Breaker, WellFormed
  <2>5. h.since = -1
    BY <2>4 DEF WellFormed
  <2>6. WellFormed(r)
    BY <1>0, <1>1, <2>3, <2>4, <2>5 DEF WellFormed
  <2> QED
    BY <1>1, <2>1, <2>3, <2>4, <2>6
<1>2. CASE ~(n < BreakerThreshold)
  <2>1. PICK r : r = Intake!Reported(h, FALSE)
    OBVIOUS
  <2>2. r = [healthy |-> FALSE, failures |-> BreakerThreshold, since |-> now]
    BY <1>0, <1>2, <2>1 DEF Intake!Reported
  <2>3. r \in Breaker /\ r.failures = BreakerThreshold /\ r.healthy = FALSE /\ r.since = now
    BY <1>0, <2>2 DEF Breaker
  <2>4. WellFormed(r)
    BY <1>0, <2>3 DEF WellFormed
  <2> QED
    BY <1>2, <2>1, <2>3, <2>4
<1> QED
  BY <1>1, <1>2

LEMMA SoundIsWellFormed ==
  /\ Intake!Sound \in Breaker /\ WellFormed(Intake!Sound)
  /\ Intake!Sound.healthy /\ Intake!Sound.failures = 0
BY IntakeConstants DEF Intake!Sound, Intake!Never, Breaker, WellFormed

LEMMA CurrentIsAdapter ==
  ASSUME IntakeTypes, fetching.adapter <= Len(Adapters)
  PROVE  Intake!Current \in Adapter
BY IntakeConstants DEF IntakeTypes, Adapter, Intake!Adapter, Intake!Current

LEMMA IntakeInit == Intake!Init => IntakeInv
<1> SUFFICES ASSUME Intake!Init PROVE IntakeInv
  OBVIOUS
<1>1. IntakeTypes
  BY SoundIsWellFormed DEF Intake!Init, IntakeTypes, Intake!Idle, Adapter
<1>2. Asked
  BY DEF Intake!Init, Asked, Intake!Idle
<1>3. ASSUME NEW a \in Adapter
      PROVE  /\ WellFormed(clientBreaker[a]) /\ WellFormed(runtimeBreaker[a])
             /\ Counted(a) /\ Follows(a) /\ Spaced(a)
  <2>1. clientBreaker[a] = Intake!Sound /\ runtimeBreaker[a] = Intake!Sound /\ tries[a] = <<>>
    BY <1>3 DEF Intake!Init, Adapter
  <2>2. ~Judging(a)
    BY DEF Intake!Init, Judging, Intake!Idle
  <2> QED
    BY <2>1, <2>2, SoundIsWellFormed, IntakeConstants DEF Counted, Follows, Spaced
<1> QED
  BY <1>1, <1>2, <1>3 DEF IntakeInv

(* A step of the fetch that reports to no breaker *)
LEMMA Going ==
  ASSUME IntakeInv,
         UNCHANGED now, UNCHANGED clientBreaker, UNCHANGED runtimeBreaker, UNCHANGED tries,
         UNCHANGED refused, IntakeTypes', Asked',
         \A a \in Adapter :
           Judging(a)' => Judging(a) \/ clientBreaker[a].failures <= runtimeBreaker[a].failures + 1,
         \A a \in Adapter : Judging(a) => Judging(a)'
  PROVE  IntakeInv'
<1>1. ASSUME NEW a \in Adapter PROVE Follows(a)'
  BY DEF IntakeInv, Follows
<1>2. ASSUME NEW a \in Adapter
      PROVE  (WellFormed(clientBreaker[a]) /\ WellFormed(runtimeBreaker[a]) /\ Counted(a)
              /\ Spaced(a))'
  BY DEF IntakeInv, WellFormed, Counted, Spaced
<1> QED
  BY <1>1, <1>2 DEF IntakeInv

(* The steps that report to no breaker *)
LEMMA GoingSteps ==
  ASSUME IntakeInv,
         Intake!Begin \/ Intake!Skip \/ Intake!Retry \/ Intake!NoData
  PROVE  IntakeInv'
<1>1. /\ UNCHANGED now /\ UNCHANGED clientBreaker /\ UNCHANGED runtimeBreaker
      /\ UNCHANGED tries /\ UNCHANGED refused
  BY DEF Intake!Begin, Intake!Skip, Intake!Retry, Intake!NoData, Intake!breakers
<1>2. fetching.place # "failed"
  BY DEF Intake!Begin, Intake!Skip, Intake!Retry, Intake!NoData, Intake!At
<1>3. /\ fetching' \in [place : {"idle", "next", "request"}, adapter : Nat \ {0}, attempt : Nat]
      /\ fetching'.place = "request" =>
           fetching.place = "request" /\ fetching'.adapter = fetching.adapter
  <2>1. fetching \in [place : {"idle", "next", "request", "received", "failed"},
                      adapter : Nat \ {0}, attempt : Nat]
    BY DEF IntakeInv, IntakeTypes
  <2>2. CASE Intake!Begin \/ Intake!NoData
    BY <2>2 DEF Intake!Begin, Intake!NoData, Intake!Idle
  <2>3. CASE Intake!Skip
    <3>1. fetching.place = "next" /\ fetching' = [fetching EXCEPT !.adapter = @ + 1]
      BY <2>3 DEF Intake!Skip, Intake!At
    <3> QED
      BY <2>1, <3>1
  <2>4. CASE Intake!Retry
    <3>1. fetching.place = "request" /\ fetching' = [fetching EXCEPT !.attempt = @ + 1]
      BY <2>4 DEF Intake!Retry, Intake!At
    <3> QED
      BY <2>1, <3>1
  <2> QED
    BY <2>2, <2>3, <2>4
<1>4. IntakeTypes'
  BY <1>1, <1>3 DEF IntakeInv, IntakeTypes
<1>5. Asked'
  BY <1>1, <1>3 DEF IntakeInv, Asked, Intake!Current, Intake!IsHealthy
<1>6. ASSUME NEW a \in Adapter PROVE ~Judging(a) /\ ~Judging(a)'
  BY <1>2, <1>3 DEF Judging
<1> QED
  BY <1>1, <1>4, <1>5, <1>6, Going

(* What the runtime's breaker lets through, the client's does not refuse. *)
LEMMA NeverRefused ==
  ASSUME IntakeInv, Intake!Fetch
  PROVE  Intake!IsHealthy(clientBreaker[Intake!Current])
<1> DEFINE a == Intake!Current
<1>1. a \in Adapter
  BY CurrentIsAdapter DEF IntakeInv, Intake!Fetch
<1>2. PICK c \in Breaker : c = clientBreaker[a]
  BY <1>1 DEF IntakeInv, IntakeTypes
<1>3. PICK r \in Breaker : r = runtimeBreaker[a]
  BY <1>1 DEF IntakeInv, IntakeTypes
<1>4. ~Judging(a)
  BY DEF Intake!Fetch, Intake!At, Judging
<1>5. ~c.healthy => ~r.healthy /\ c.since <= r.since
  BY <1>1, <1>2, <1>3, <1>4 DEF IntakeInv, Follows
<1>6. ~c.healthy => c.since \in 0 .. now
  BY <1>1, <1>2 DEF IntakeInv, WellFormed
<1>7. Intake!IsHealthy(r)
  BY <1>3 DEF Intake!Fetch
<1>8. now \in Nat
  BY DEF IntakeInv, IntakeTypes
<1>9. ~c.healthy => now - c.since >= BreakerRecovery
  BY <1>5, <1>6, <1>7, <1>8, IntakeConstants DEF Intake!IsHealthy, Intake!Never, Breaker
<1>10. Intake!IsHealthy(c)
  BY <1>6, <1>8, <1>9 DEF Intake!IsHealthy, Intake!Never
<1> QED
  BY <1>2, <1>10

LEMMA FetchStep ==
  ASSUME IntakeInv, Intake!Fetch
  PROVE  IntakeInv'
<1>1. /\ UNCHANGED now /\ UNCHANGED clientBreaker /\ UNCHANGED runtimeBreaker
      /\ UNCHANGED tries
  BY DEF Intake!Fetch, Intake!breakers
<1>2. UNCHANGED refused /\ fetching' = [fetching EXCEPT !.place = "request", !.attempt = 0]
  BY NeverRefused DEF Intake!Fetch
<1>3. fetching \in [place : {"idle", "next", "request", "received", "failed"},
                    adapter : Nat \ {0}, attempt : Nat]
  BY DEF IntakeInv, IntakeTypes
<1>4. fetching' = [place |-> "request", adapter |-> fetching.adapter, attempt |-> 0]
  BY <1>2, <1>3
<1>5. IntakeTypes'
  BY <1>1, <1>2, <1>3, <1>4 DEF IntakeInv, IntakeTypes
<1>6. fetching.adapter <= Len(Adapters) /\ Intake!IsHealthy(runtimeBreaker[Intake!Current])
  BY DEF Intake!Fetch
<1>7. Asked'
  BY <1>1, <1>4, <1>6 DEF Asked, Intake!Current, Intake!IsHealthy
<1>8. ASSUME NEW a \in Adapter PROVE ~Judging(a) /\ ~Judging(a)'
  BY <1>4 DEF Judging, Intake!Fetch, Intake!At
<1> QED
  BY <1>1, <1>2, <1>5, <1>7, <1>8, Going

LEMMA UnusableStep ==
  ASSUME IntakeInv, Intake!Unusable
  PROVE  IntakeInv'
<1>1. /\ UNCHANGED now /\ UNCHANGED clientBreaker /\ UNCHANGED runtimeBreaker
      /\ UNCHANGED tries /\ UNCHANGED refused
  BY DEF Intake!Unusable, Intake!breakers
<1>2. fetching.place = "received" /\ fetching' = [fetching EXCEPT !.place = "failed"]
  BY DEF Intake!Unusable, Intake!At, Intake!Goto
<1>3. fetching \in [place : {"idle", "next", "request", "received", "failed"},
                    adapter : Nat \ {0}, attempt : Nat]
  BY DEF IntakeInv, IntakeTypes
<1>4. fetching' = [place |-> "failed", adapter |-> fetching.adapter, attempt |-> fetching.attempt]
  BY <1>2, <1>3
<1>5. IntakeTypes'
  BY <1>1, <1>3, <1>4 DEF IntakeInv, IntakeTypes
<1>6. Asked'
  BY <1>1, <1>2, <1>4 DEF IntakeInv, Asked, Intake!Current, Intake!IsHealthy
<1>7. ASSUME NEW a \in Adapter, Judging(a)'
      PROVE  clientBreaker[a].failures <= runtimeBreaker[a].failures + 1
  <2>1. a = Intake!Current
    BY <1>4, <1>7 DEF Judging, Intake!Current
  <2>2. clientBreaker[a].failures = 0
    BY <1>2, <2>1, SoundIsWellFormed DEF IntakeInv, Asked
  <2>3. runtimeBreaker[a].failures \in Nat
    BY DEF IntakeInv, IntakeTypes, Breaker
  <2> QED
    BY <2>2, <2>3
<1>8. ASSUME NEW a \in Adapter PROVE ~Judging(a)
  BY <1>2 DEF Judging
<1> QED
  BY <1>1, <1>5, <1>6, <1>7, <1>8, Going

LEMMA TickStep ==
  ASSUME IntakeInv, Intake!Tick
  PROVE  IntakeInv'
<1>1. /\ UNCHANGED clientBreaker /\ UNCHANGED runtimeBreaker /\ UNCHANGED fetching
      /\ UNCHANGED tries /\ UNCHANGED refused /\ now' = now + 1
  BY DEF Intake!Tick, Intake!breakers
<1>2. now \in Nat /\ IntakeTypes'
  BY <1>1 DEF IntakeInv, IntakeTypes
<1>3. ASSUME NEW a \in Adapter
      PROVE  (WellFormed(clientBreaker[a]) /\ WellFormed(runtimeBreaker[a]) /\ Counted(a)
              /\ Follows(a) /\ Spaced(a))'
  <2>1. (Counted(a) /\ Follows(a) /\ Spaced(a))'
    BY <1>1 DEF IntakeInv, Counted, Follows, Spaced, Judging, Intake!Current
  <2>2. (WellFormed(clientBreaker[a]) /\ WellFormed(runtimeBreaker[a]))'
    BY <1>1, <1>2 DEF IntakeInv, WellFormed
  <2> QED
    BY <2>1, <2>2
<1>4. Asked'
  <2>1. ASSUME fetching.place \in {"request", "received", "failed"}
        PROVE  /\ fetching.adapter <= Len(Adapters)
               /\ Intake!IsHealthy(runtimeBreaker[Intake!Current])'
    <3>1. /\ fetching.adapter <= Len(Adapters)
          /\ Intake!IsHealthy(runtimeBreaker[Intake!Current])
      BY <2>1 DEF IntakeInv, Asked
    <3>2. runtimeBreaker[Intake!Current].since \in Int
      BY <3>1, CurrentIsAdapter DEF IntakeInv, IntakeTypes, Breaker
    <3> QED
      BY <1>1, <1>2, <3>1, <3>2, IntakeConstants DEF Intake!IsHealthy, Intake!Current
  <2> QED
    BY <1>1, <2>1 DEF IntakeInv, Asked, Intake!Current
<1> QED
  BY <1>2, <1>3, <1>4 DEF IntakeInv

(* The request was answered, and the client's breaker with it. *)
LEMMA RequestSucceedsStep ==
  ASSUME IntakeInv, Intake!RequestSucceeds
  PROVE  IntakeInv'
<1> DEFINE b == Intake!Current
<1>1. /\ UNCHANGED now /\ UNCHANGED runtimeBreaker /\ UNCHANGED tries /\ UNCHANGED refused
      /\ fetching.place = "request" /\ fetching' = [fetching EXCEPT !.place = "received"]
  BY DEF Intake!RequestSucceeds, Intake!At, Intake!Goto
<1>2. fetching \in [place : {"idle", "next", "request", "received", "failed"},
                    adapter : Nat \ {0}, attempt : Nat]
  BY DEF IntakeInv, IntakeTypes
<1>3. fetching' = [place |-> "received", adapter |-> fetching.adapter, attempt |-> fetching.attempt]
  BY <1>1, <1>2
<1>4. b \in Adapter /\ fetching.adapter <= Len(Adapters) /\ Intake!IsHealthy(runtimeBreaker[b])
  BY <1>1, CurrentIsAdapter DEF IntakeInv, Asked
<1>5. clientBreaker \in [Adapter -> Breaker]
  BY DEF IntakeInv, IntakeTypes
<1>6. clientBreaker' = [clientBreaker EXCEPT ![b] = Intake!Sound]
  BY DEF Intake!RequestSucceeds, Intake!Reported
<1>7. clientBreaker' \in [Adapter -> Breaker] /\ clientBreaker'[b] = Intake!Sound
  BY <1>4, <1>5, <1>6, SoundIsWellFormed
<1>8. IntakeTypes'
  BY <1>1, <1>2, <1>3, <1>7 DEF IntakeInv, IntakeTypes
<1>9. Asked'
  BY <1>1, <1>3, <1>4, <1>7 DEF Asked, Intake!Current, Intake!IsHealthy, Intake!Sound, Intake!Never
<1>10. ASSUME NEW a \in Adapter
       PROVE  (WellFormed(clientBreaker[a]) /\ WellFormed(runtimeBreaker[a]) /\ Counted(a)
               /\ Follows(a) /\ Spaced(a))'
  <2>1. (WellFormed(runtimeBreaker[a]) /\ Counted(a) /\ Spaced(a))'
    BY <1>1 DEF IntakeInv, WellFormed, Counted, Spaced
  <2>2. ~Judging(a) /\ ~Judging(a)'
    BY <1>1, <1>3 DEF Judging
  <2>3. CASE a = b
    <3>1. runtimeBreaker[a].failures \in Nat
      BY DEF IntakeInv, IntakeTypes, Breaker
    <3>2. WellFormed(clientBreaker[a])'
      BY <1>1, <1>7, <2>3, SoundIsWellFormed DEF WellFormed
    <3>3. Follows(a)'
      BY <1>1, <1>7, <2>2, <2>3, <3>1, SoundIsWellFormed DEF Follows
    <3> QED
      BY <2>1, <3>2, <3>3
  <2>4. CASE a # b
    <3>1. clientBreaker'[a] = clientBreaker[a]
      BY <1>5, <1>6, <2>4
    <3> QED
      BY <1>1, <2>1, <2>2, <3>1 DEF IntakeInv, WellFormed, Follows
  <2> QED
    BY <2>3, <2>4
<1> QED
  BY <1>8, <1>9, <1>10 DEF IntakeInv

(* The request failed: the client's breaker counts it first. *)
LEMMA RequestFailsStep ==
  ASSUME IntakeInv, Intake!RequestFails
  PROVE  IntakeInv'
<1> DEFINE b == Intake!Current
<1>1. /\ UNCHANGED now /\ UNCHANGED runtimeBreaker /\ UNCHANGED tries /\ UNCHANGED refused
      /\ fetching.place = "request" /\ fetching' = [fetching EXCEPT !.place = "failed"]
  BY DEF Intake!RequestFails, Intake!At, Intake!Goto
<1>2. fetching \in [place : {"idle", "next", "request", "received", "failed"},
                    adapter : Nat \ {0}, attempt : Nat]
  BY DEF IntakeInv, IntakeTypes
<1>3. fetching' = [place |-> "failed", adapter |-> fetching.adapter, attempt |-> fetching.attempt]
  BY <1>1, <1>2
<1>4. b \in Adapter /\ fetching.adapter <= Len(Adapters) /\ Intake!IsHealthy(runtimeBreaker[b])
  BY <1>1, CurrentIsAdapter DEF IntakeInv, Asked
<1>5. clientBreaker \in [Adapter -> Breaker] /\ now \in Nat
  BY DEF IntakeInv, IntakeTypes
<1>6. PICK c : c = Intake!Reported(clientBreaker[b], FALSE)
  OBVIOUS
<1>7. clientBreaker' = [clientBreaker EXCEPT ![b] = c]
  BY <1>6 DEF Intake!RequestFails
<1>8. PICK h \in Breaker : h = clientBreaker[b] /\ WellFormed(h)
  BY <1>4, <1>5 DEF IntakeInv
<1>9. /\ c \in Breaker /\ WellFormed(c)
      /\ c.failures = IF h.failures + 1 < BreakerThreshold THEN h.failures + 1 ELSE BreakerThreshold
  BY <1>5, <1>6, <1>8, FailureCounted
<1>10. clientBreaker' \in [Adapter -> Breaker] /\ clientBreaker'[b] = c
  BY <1>4, <1>5, <1>7, <1>9
<1>11. IntakeTypes'
  BY <1>1, <1>2, <1>3, <1>10 DEF IntakeInv, IntakeTypes
<1>12. Asked'
  BY <1>1, <1>3, <1>4 DEF Asked, Intake!Current, Intake!IsHealthy
<1>13. ASSUME NEW a \in Adapter
       PROVE  (WellFormed(clientBreaker[a]) /\ WellFormed(runtimeBreaker[a]) /\ Counted(a)
               /\ Follows(a) /\ Spaced(a))'
  <2>1. (WellFormed(runtimeBreaker[a]) /\ Counted(a) /\ Spaced(a))'
    BY <1>1 DEF IntakeInv, WellFormed, Counted, Spaced
  <2>2. ~Judging(a) /\ (Judging(a)' <=> a = b)
    BY <1>1, <1>3 DEF Judging, Intake!Current
  <2>3. CASE a = b
    <3>1. runtimeBreaker[a].failures \in Nat /\ h.failures \in Nat
      BY DEF IntakeInv, IntakeTypes, Breaker
    <3>2. h.failures <= runtimeBreaker[a].failures
      BY <1>8, <2>2, <2>3 DEF IntakeInv, Follows
    <3>3. c.failures <= runtimeBreaker[a].failures + 1
      BY <1>9, <3>1, <3>2, IntakeConstants
    <3>4. WellFormed(clientBreaker[a])'
      BY <1>1, <1>9, <1>10, <2>3 DEF WellFormed
    <3>5. Follows(a)'
      BY <1>1, <1>10, <2>2, <2>3, <3>3 DEF Follows
    <3> QED
      BY <2>1, <3>4, <3>5
  <2>4. CASE a # b
    <3>1. clientBreaker'[a] = clientBreaker[a]
      BY <1>5, <1>7, <2>4
    <3> QED
      BY <1>1, <2>1, <2>2, <2>4, <3>1 DEF IntakeInv, WellFormed, Follows
  <2> QED
    BY <2>3, <2>4
<1> QED
  BY <1>11, <1>12, <1>13 DEF IntakeInv

(* The data was good: both breakers are closed, and the history is cleared. *)
LEMMA AcceptStep ==
  ASSUME IntakeInv, Intake!Accept
  PROVE  IntakeInv'
<1> DEFINE b == Intake!Current
<1>1. /\ UNCHANGED now /\ UNCHANGED clientBreaker /\ UNCHANGED refused
      /\ fetching.place = "received" /\ fetching' = Intake!Idle
  BY DEF Intake!Accept, Intake!At
<1>2. b \in Adapter /\ clientBreaker[b] = Intake!Sound
  BY <1>1, CurrentIsAdapter DEF IntakeInv, Asked
<1>3. /\ clientBreaker \in [Adapter -> Breaker] /\ runtimeBreaker \in [Adapter -> Breaker]
      /\ tries \in [Adapter -> Seq(Nat)]
  BY DEF IntakeInv, IntakeTypes
<1>4. /\ runtimeBreaker' = [runtimeBreaker EXCEPT ![b] = Intake!Sound]
      /\ tries' = [tries EXCEPT ![b] = <<>>]
  BY DEF Intake!Accept, Intake!Reported
<1>5. /\ runtimeBreaker' \in [Adapter -> Breaker] /\ runtimeBreaker'[b] = Intake!Sound
      /\ tries' \in [Adapter -> Seq(Nat)] /\ tries'[b] = <<>>
  BY <1>2, <1>3, <1>4, SoundIsWellFormed
<1>6. IntakeTypes' /\ Asked'
  BY <1>1, <1>3, <1>5 DEF IntakeInv, IntakeTypes, Asked, Intake!Idle
<1>7. ASSUME NEW a \in Adapter
      PROVE  (WellFormed(clientBreaker[a]) /\ WellFormed(runtimeBreaker[a]) /\ Counted(a)
              /\ Follows(a) /\ Spaced(a))'
  <2>1. ~Judging(a) /\ ~Judging(a)'
    BY <1>1 DEF Judging, Intake!Idle
  <2>2. CASE a = b
    <3>1. (WellFormed(clientBreaker[a]) /\ WellFormed(runtimeBreaker[a]))'
      BY <1>1, <1>2, <1>5, <2>2, SoundIsWellFormed DEF WellFormed
    <3>2. (Counted(a) /\ Spaced(a))'
      BY <1>5, <2>2, SoundIsWellFormed, IntakeConstants DEF Counted, Spaced
    <3>3. Follows(a)'
      BY <1>1, <1>2, <1>5, <2>1, <2>2, SoundIsWellFormed DEF Follows
    <3> QED
      BY <3>1, <3>2, <3>3
  <2>3. CASE a # b
    <3>1. runtimeBreaker'[a] = runtimeBreaker[a] /\ tries'[a] = tries[a]
      BY <1>3, <1>4, <2>3
    <3> QED
      BY <1>1, <2>1, <3>1 DEF IntakeInv, WellFormed, Follows, Counted, Spaced
  <2> QED
    BY <2>2, <2>3
<1> QED
  BY <1>6, <1>7 DEF IntakeInv

(* The runtime counts a failure.  If its breaker was open it was long       *)
(* enough, since the last attempt.                                          *)
LEMMA FailedStep ==
  ASSUME IntakeInv, Intake!Failed
  PROVE  IntakeInv'
<1> DEFINE b == Intake!Current
<1>1. /\ UNCHANGED now /\ UNCHANGED clientBreaker /\ UNCHANGED refused
      /\ fetching.place = "failed"
      /\ fetching' = [fetching EXCEPT !.place = "next", !.adapter = @ + 1]
  BY DEF Intake!Failed, Intake!At
<1>2. b \in Adapter /\ Intake!IsHealthy(runtimeBreaker[b])
  BY <1>1, CurrentIsAdapter DEF IntakeInv, Asked
<1>3. /\ clientBreaker \in [Adapter -> Breaker] /\ runtimeBreaker \in [Adapter -> Breaker]
      /\ tries \in [Adapter -> Seq(Nat)] /\ now \in Nat
      /\ fetching \in [place : {"idle", "next", "request", "received", "failed"},
                       adapter : Nat \ {0}, attempt : Nat]
  BY DEF IntakeInv, IntakeTypes
<1>4. fetching' = [place |-> "next", adapter |-> fetching.adapter + 1, attempt |-> fetching.attempt]
  BY <1>1, <1>3
<1>5. PICK r : r = Intake!Reported(runtimeBreaker[b], FALSE)
  OBVIOUS
<1>6. /\ runtimeBreaker' = [runtimeBreaker EXCEPT ![b] = r]
      /\ tries' = [tries EXCEPT ![b] = Append(tries[b], now)]
  BY <1>5 DEF Intake!Failed
<1>7. PICK h \in Breaker : h = runtimeBreaker[b] /\ WellFormed(h)
  BY <1>2, <1>3 DEF IntakeInv
<1>8. /\ r \in Breaker /\ WellFormed(r) /\ (~r.healthy => r.since = now)
      /\ r.failures = IF h.failures + 1 < BreakerThreshold THEN h.failures + 1 ELSE BreakerThreshold
  BY <1>3, <1>5, <1>7, FailureCounted
<1>9. PICK s \in Seq(Nat) : s = tries[b]
  BY <1>2, <1>3
<1>10. /\ Append(s, now) \in Seq(Nat) /\ Len(Append(s, now)) = Len(s) + 1 /\ Len(s) \in Nat
       /\ \A k \in 1 .. Len(s) : Append(s, now)[k] = s[k]
       /\ Append(s, now)[Len(s) + 1] = now
  BY <1>3
<1>11. /\ runtimeBreaker' \in [Adapter -> Breaker] /\ runtimeBreaker'[b] = r
       /\ tries' \in [Adapter -> Seq(Nat)] /\ tries'[b] = Append(s, now)
  BY <1>2, <1>3, <1>6, <1>8, <1>9, <1>10
<1>12. fetching'.place = "next" /\ fetching'.adapter \in Nat \ {0} /\ fetching'.attempt \in Nat
  BY <1>3, <1>4
<1>13. IntakeTypes' /\ Asked'
  BY <1>1, <1>3, <1>4, <1>11, <1>12 DEF IntakeInv, IntakeTypes, Asked
<1>14. /\ h.failures = IF Len(s) < BreakerThreshold THEN Len(s) ELSE BreakerThreshold
       /\ Len(s) >= BreakerThreshold => h.since = s[Len(s)]
  BY <1>2, <1>7, <1>9 DEF IntakeInv, Counted
<1>15. Len(s) >= BreakerThreshold => now - s[Len(s)] >= BreakerRecovery
  <2>1. ASSUME Len(s) >= BreakerThreshold PROVE ~h.healthy /\ h.since = s[Len(s)]
    BY <1>7, <1>10, <1>14, <2>1, IntakeConstants DEF WellFormed
  <2> QED
    BY <1>2, <1>7, <2>1 DEF Intake!IsHealthy
<1>16. /\ r.failures = IF Len(s) + 1 < BreakerThreshold THEN Len(s) + 1 ELSE BreakerThreshold
       /\ Len(s) + 1 >= BreakerThreshold => r.since = now
  BY <1>8, <1>10, <1>14, IntakeConstants DEF WellFormed
<1>17. \A k \in BreakerThreshold .. Len(s) : Append(s, now)[k + 1] - Append(s, now)[k] >= BreakerRecovery
  <2>1. ASSUME NEW k \in BreakerThreshold .. Len(s) - 1
        PROVE  Append(s, now)[k + 1] - Append(s, now)[k] >= BreakerRecovery
    <3>1. s[k + 1] - s[k] >= BreakerRecovery
      BY <1>2, <1>9, <1>10 DEF IntakeInv, Spaced
    <3>2. k \in 1 .. Len(s) /\ k + 1 \in 1 .. Len(s)
      BY <1>10, IntakeConstants
    <3> QED
      BY <1>10, <3>1, <3>2
  <2>2. ASSUME Len(s) >= BreakerThreshold
        PROVE  Append(s, now)[Len(s) + 1] - Append(s, now)[Len(s)] >= BreakerRecovery
    <3>1. Len(s) \in 1 .. Len(s)
      BY <1>10, <2>2, IntakeConstants
    <3> QED
      BY <1>10, <1>15, <2>2, <3>1
  <2>3. ASSUME NEW k \in BreakerThreshold .. Len(s)
        PROVE  k \in BreakerThreshold .. Len(s) - 1 \/ (k = Len(s) /\ Len(s) >= BreakerThreshold)
    BY <1>10, IntakeConstants
  <2> QED
    BY <2>1, <2>2, <2>3
<1>18. ASSUME NEW a \in Adapter
       PROVE  (WellFormed(clientBreaker[a]) /\ WellFormed(runtimeBreaker[a]) /\ Counted(a)
               /\ Follows(a) /\ Spaced(a))'
  <2>1. ~Judging(a)' /\ (a # b => ~Judging(a))
    BY <1>12 DEF Judging
  <2>2. CASE a = b
    <3>1. (Counted(a) /\ Spaced(a))'
      <4>1. PICK q : q = Append(s, now)
        OBVIOUS
      <4>2. Len(q) = Len(s) + 1 /\ Len(s) \in Nat /\ q[Len(q)] = now
        BY <1>10, <4>1
      <4>3. tries'[a] = q /\ runtimeBreaker'[a] = r
        BY <1>11, <2>2, <4>1
      <4>4. Counted(a)'
        BY <1>16, <4>2, <4>3, IntakeConstants DEF Counted
      <4>5. \A k \in BreakerThreshold .. Len(s) : q[k + 1] - q[k] >= BreakerRecovery
        BY <1>17, <4>1
      <4>6. BreakerThreshold .. Len(q) - 1 = BreakerThreshold .. Len(s)
        BY <4>2
      <4>7. Spaced(a)'
        BY <4>3, <4>5, <4>6 DEF Spaced
      <4> QED
        BY <4>4, <4>7
    <3>2. (WellFormed(clientBreaker[a]) /\ WellFormed(runtimeBreaker[a]))'
      BY <1>1, <1>8, <1>11, <2>2 DEF IntakeInv, WellFormed
    <3>3. PICK c \in Breaker : c = clientBreaker[a] /\ WellFormed(c)
      BY <1>3 DEF IntakeInv
    <3>4. c.failures <= h.failures + 1
      BY <1>1, <1>7, <2>2, <3>3 DEF IntakeInv, Follows, Judging
    <3>5. c.failures <= r.failures
      BY <1>7, <1>8, <3>3, <3>4, IntakeConstants DEF Breaker, WellFormed
    <3>6. ~c.healthy => ~r.healthy /\ c.since <= now
      BY <1>3, <1>8, <3>3, <3>5, IntakeConstants, SMTT(30) DEF Breaker, WellFormed
    <3>7. Follows(a)'
      BY <1>1, <1>8, <1>11, <2>1, <2>2, <3>3, <3>5, <3>6 DEF Follows
    <3> QED
      BY <3>1, <3>2, <3>7
  <2>3. CASE a # b
    <3>1. runtimeBreaker'[a] = runtimeBreaker[a] /\ tries'[a] = tries[a]
      BY <1>3, <1>6, <2>3
    <3> QED
      BY <1>1, <2>1, <2>3, <3>1 DEF IntakeInv, WellFormed, Follows, Counted, Spaced
  <2> QED
    BY <2>2, <2>3
<1> QED
  BY <1>13, <1>18 DEF IntakeInv

(* A failing adapter is let alone, and a probe is always a request          *)
(* (MarketIntake says what that means), for any threshold, recovery time    *)
(* and adapters.                                                            *)
THEOREM ProbesAlwaysSpaced == Intake!Spec => []ProbesSpaced
<1>1. IntakeInv /\ [Intake!Next]_(Intake!vars) => IntakeInv'
  <2>1. ASSUME IntakeInv, UNCHANGED Intake!vars PROVE IntakeInv'
    BY <2>1
    DEF Intake!vars, Intake!breakers, IntakeInv, IntakeTypes, Asked, WellFormed, Counted,
        Follows, Judging, Spaced, Intake!Current, Intake!IsHealthy
  <2> QED
    BY <2>1, GoingSteps, FetchStep, RequestFailsStep, RequestSucceedsStep, AcceptStep,
       UnusableStep, FailedStep, TickStep DEF Intake!Next
<1>2. IntakeInv => ProbesSpaced
  <2>1. ASSUME IntakeInv, NEW a \in Adapter, NEW k \in BreakerThreshold .. Len(tries[a]) - 1
        PROVE  tries[a][k + 1] - tries[a][k] >= BreakerRecovery
    BY <2>1 DEF IntakeInv, Spaced
  <2> QED
    BY <2>1 DEF ProbesSpaced, Intake!ProbesSpaced, Adapter, IntakeInv, IntakeTypes
<1> QED
  BY <1>1, <1>2, IntakeInit, PTL DEF Intake!Spec

-----------------------------------------------------------------------------
(* The schema migrations.  That no migration finds its row there needs to   *)
(* know what the lock holder has yet to apply, and that nobody else is past *)
(* the lock; that a running service keeps its rows, that rows only join.    *)

Release == SchemaReleases \cup {Migrations!NoRelease}
SchemaRow == UNION {{Migrations!Row(release, file) : file \in DOMAIN release} : release \in Release}
Deployment ==
  [pc : {"idle", "begun", "locked", "applying", "migrated"}, release : Release,
   todo : SUBSET {MigrationFiles[i] : i \in DOMAIN MigrationFiles}, done : Seq(SchemaRow)]

Distinct(rows) == \A i, j \in DOMAIN rows : i # j => rows[i].version # rows[j].version

MigrationTypes ==
  /\ filesApplied \in Seq(SchemaRow)
  /\ filesDeploy \in [Migrators -> Deployment]
  /\ filesRunning \in [Migrators -> Release]
  /\ filesConflict = FALSE

(* What a migration has applied, has yet to apply and found applied are     *)
(* three different things.                                                  *)
Separate(s) ==
  LET d == filesDeploy[s]
  IN  IF d.pc = "applying"
      THEN /\ d.todo \subseteq DOMAIN d.release
           /\ d.todo \cap Migrations!Versions(filesApplied) = {}
           /\ d.todo \cap Migrations!Versions(d.done) = {}
           /\ Migrations!Versions(d.done) \cap Migrations!Versions(filesApplied) = {}
           /\ Distinct(d.done)
      ELSE d.done = <<>>

HoldsLock(s) == filesDeploy[s].pc \in {"locked", "applying"} => filesLock = s

HasItsRows(s) ==
  \A file \in DOMAIN filesRunning[s] :
    Migrations!Row(filesRunning[s], file) \in Migrations!Rows(filesApplied)

MigrationInv ==
  /\ MigrationTypes /\ Distinct(filesApplied)
  /\ \A s \in Migrators : Separate(s) /\ HoldsLock(s) /\ HasItsRows(s)

LEMMA NoDeployIsDeployment ==
  /\ Migrations!NoDeploy \in Deployment
  /\ Migrations!NoDeploy.pc = "idle" /\ Migrations!NoDeploy.done = <<>>
<1>1. <<>> \in Seq(SchemaRow)
  OBVIOUS
<1> QED
  BY <1>1 DEF Migrations!NoDeploy, Deployment, Release

LEMMA MigrationInit == Migrations!Init => MigrationInv
<1> SUFFICES ASSUME Migrations!Init PROVE MigrationInv
  OBVIOUS
<1>1. filesApplied = <<>> /\ filesConflict = FALSE
  BY DEF Migrations!Init
<1>2. filesApplied \in Seq(SchemaRow) /\ Distinct(filesApplied)
  BY <1>1 DEF Distinct
<1>3. filesDeploy = [s \in Migrators |-> Migrations!NoDeploy]
  BY DEF Migrations!Init
<1>4. filesRunning = [s \in Migrators |-> Migrations!NoRelease]
  BY DEF Migrations!Init
<1>5. MigrationTypes
  BY <1>1, <1>2, <1>3, <1>4, NoDeployIsDeployment DEF MigrationTypes, Release
<1>6. DOMAIN Migrations!NoRelease = {}
  BY DEF Migrations!NoRelease
<1>7. ASSUME NEW s \in Migrators PROVE Separate(s) /\ HoldsLock(s) /\ HasItsRows(s)
  BY <1>3, <1>4, <1>6, NoDeployIsDeployment DEF Separate, HoldsLock, HasItsRows
<1> QED
  BY <1>2, <1>5, <1>7 DEF MigrationInv

(* A deployment moves on, and no row is committed. *)
LEMMA OneMoves ==
  ASSUME MigrationInv, NEW s \in Migrators, NEW d \in Deployment, Migrations!Moves(s, d),
         UNCHANGED filesApplied, UNCHANGED filesConflict,
         d.pc \in {"locked", "applying"} => filesLock' = s,
         \A t \in Migrators \ {s} : filesLock = t => filesLock' = t,
         Separate(s)',
         filesRunning' \in [Migrators -> Release], \A t \in Migrators : HasItsRows(t)'
  PROVE  MigrationInv'
<1>1. filesDeploy \in [Migrators -> Deployment]
  BY DEF MigrationInv, MigrationTypes
<1>2. filesDeploy' = [filesDeploy EXCEPT ![s] = d]
  BY DEF Migrations!Moves
<1>3. filesDeploy' \in [Migrators -> Deployment] /\ filesDeploy'[s] = d
  BY <1>1, <1>2
<1>4. MigrationTypes' /\ Distinct(filesApplied)'
  BY <1>3 DEF MigrationInv, MigrationTypes, Distinct
<1>5. ASSUME NEW t \in Migrators PROVE Separate(t)' /\ HoldsLock(t)'
  <2>1. CASE t = s
    BY <1>3, <2>1 DEF HoldsLock
  <2>2. CASE t # s
    <3>1. filesDeploy'[t] = filesDeploy[t]
      BY <1>1, <1>2, <2>2
    <3> QED
      BY <2>2, <3>1, SMTT(30) DEF MigrationInv, Separate, HoldsLock, Migrations!Versions
  <2> QED
    BY <2>1, <2>2
<1> QED
  BY <1>4, <1>5 DEF MigrationInv

LEMMA RowsKept ==
  ASSUME MigrationInv, UNCHANGED filesApplied, UNCHANGED filesRunning
  PROVE  filesRunning' \in [Migrators -> Release] /\ \A t \in Migrators : HasItsRows(t)'
BY DEF MigrationInv, MigrationTypes, HasItsRows, Migrations!Rows

(* A transaction ends without a row. *)
LEMMA Abandons ==
  ASSUME MigrationInv, NEW s \in Migrators, Migrations!Moves(s, Migrations!NoDeploy),
         UNCHANGED filesApplied, UNCHANGED filesConflict,
         Migrations!Released(s) \/ UNCHANGED filesLock,
         filesRunning' \in [Migrators -> Release], \A t \in Migrators : HasItsRows(t)'
  PROVE  MigrationInv'
<1>1. filesDeploy'[s].pc = "idle" /\ filesDeploy'[s].done = <<>>
  BY NoDeployIsDeployment DEF MigrationInv, MigrationTypes, Migrations!Moves
<1>2. Separate(s)'
  BY <1>1 DEF Separate
<1>3. \A t \in Migrators \ {s} : filesLock = t => filesLock' = t
  BY DEF Migrations!Released
<1> QED
  BY <1>2, <1>3, NoDeployIsDeployment, OneMoves

LEMMA DeployStep ==
  ASSUME MigrationInv, NEW s \in Migrators, NEW release \in SchemaReleases,
         Migrations!Deploy(s, release)
  PROVE  MigrationInv'
<1>1. /\ UNCHANGED filesApplied /\ UNCHANGED filesConflict /\ UNCHANGED filesLock
      /\ UNCHANGED filesRunning
  BY DEF Migrations!Deploy
<1>2. PICK d : d = [Migrations!NoDeploy EXCEPT !.pc = "begun", !.release = release]
  OBVIOUS
<1>3. d = [pc |-> "begun", release |-> release, todo |-> {}, done |-> <<>>]
  BY <1>2 DEF Migrations!NoDeploy
<1>4. <<>> \in Seq(SchemaRow)
  OBVIOUS
<1>5. d \in Deployment /\ d.pc = "begun" /\ d.done = <<>>
  BY <1>3, <1>4 DEF Deployment, Release
<1>6. Migrations!Moves(s, d)
  BY <1>2 DEF Migrations!Deploy
<1>7. filesDeploy'[s] = d
  BY <1>6 DEF MigrationInv, MigrationTypes, Migrations!Moves
<1>8. Separate(s)'
  BY <1>5, <1>7 DEF Separate
<1> QED
  BY <1>1, <1>5, <1>6, <1>8, RowsKept, OneMoves

(* Nobody is past the lock when it is taken. *)
LEMMA LockStep ==
  ASSUME MigrationInv, NEW s \in Migrators, Migrations!Lock(s)
  PROVE  MigrationInv'
<1>1. /\ UNCHANGED filesApplied /\ UNCHANGED filesConflict /\ UNCHANGED filesRunning
      /\ filesLock = "none" /\ filesLock' = s
  BY DEF Migrations!Lock, Migrations!LockFree
<1>2. PICK d : d = [filesDeploy[s] EXCEPT !.pc = "locked"]
  OBVIOUS
<1>3. filesDeploy[s] \in Deployment
  BY DEF MigrationInv, MigrationTypes
<1>4. d \in Deployment /\ d.pc = "locked" /\ d.done = <<>>
  <2>1. filesDeploy[s].done = <<>>
    BY DEF MigrationInv, Separate, Migrations!Lock
  <2> QED
    BY <1>2, <1>3, <2>1 DEF Deployment
<1>5. Migrations!Moves(s, d)
  BY <1>2 DEF Migrations!Lock
<1>6. filesDeploy'[s] = d
  BY <1>5 DEF MigrationInv, MigrationTypes, Migrations!Moves
<1>7. Separate(s)'
  BY <1>4, <1>6 DEF Separate
<1>8. \A t \in Migrators \ {s} : filesLock = t => filesLock' = t
  BY <1>1, MigrationConstants
<1> QED
  BY <1>1, <1>4, <1>5, <1>7, <1>8, RowsKept, OneMoves

(* The files to apply are the release's that are not applied. *)
LEMMA ReadStep ==
  ASSUME MigrationInv, NEW s \in Migrators, Migrations!Read(s)
  PROVE  MigrationInv'
<1> DEFINE release == filesDeploy[s].release
           pending == Migrations!Available(release) \ Migrations!Versions(filesApplied)
<1>1. UNCHANGED filesApplied /\ UNCHANGED filesConflict /\ UNCHANGED filesRunning
  BY DEF Migrations!Read
<1>2. filesDeploy[s] \in Deployment /\ filesLock = s
  BY DEF MigrationInv, MigrationTypes, HoldsLock, Migrations!Read
<1>3. CASE Migrations!Moves(s, Migrations!NoDeploy) /\ Migrations!Released(s)
  BY <1>1, <1>3, RowsKept, Abandons
<1>4. ASSUME Migrations!Moves(s, [filesDeploy[s] EXCEPT !.pc = "applying", !.todo = pending]),
             UNCHANGED filesLock
      PROVE  MigrationInv'
  <2>1. PICK d : d = [filesDeploy[s] EXCEPT !.pc = "applying", !.todo = pending]
    OBVIOUS
  <2>2. d = [pc |-> "applying", release |-> release, todo |-> pending, done |-> filesDeploy[s].done]
    BY <1>2, <2>1 DEF Deployment
  <2>3. d \in Deployment /\ d.pc = "applying"
    BY <1>2, <2>2 DEF Deployment, Migrations!Available
  <2>4. Migrations!Moves(s, d) /\ filesDeploy'[s] = d
    BY <1>4, <2>1 DEF MigrationInv, MigrationTypes, Migrations!Moves
  <2>5. d.done = <<>>
    BY <2>2 DEF MigrationInv, Separate, Migrations!Read
  <2>6. Separate(s)'
    BY <1>1, <2>2, <2>3, <2>4, <2>5
    DEF Separate, Migrations!Available, Migrations!Versions, Distinct
  <2>7. \A t \in Migrators \ {s} : filesLock = t => filesLock' = t
    BY <1>4
  <2> QED
    BY <1>1, <1>2, <1>4, <2>3, <2>4, <2>6, <2>7, RowsKept, OneMoves
<1> QED
  BY <1>3, <1>4 DEF Migrations!Read

(* Another row, or another migration's rows *)
LEMMA RowAppended ==
  ASSUME NEW rows \in Seq(SchemaRow), Distinct(rows),
         NEW row \in SchemaRow, row.version \notin Migrations!Versions(rows)
  PROVE  /\ Append(rows, row) \in Seq(SchemaRow) /\ Distinct(Append(rows, row))
         /\ Migrations!Versions(Append(rows, row)) = Migrations!Versions(rows) \cup {row.version}
<1>1. PICK q : q = Append(rows, row)
  OBVIOUS
<1>2. /\ q \in Seq(SchemaRow) /\ DOMAIN q = DOMAIN rows \cup {Len(rows) + 1}
      /\ q[Len(rows) + 1] = row /\ \A i \in DOMAIN rows : q[i] = rows[i]
  BY <1>1
<1>3. Distinct(q)
  BY <1>2 DEF Distinct, Migrations!Versions
<1>4. Migrations!Versions(q) = Migrations!Versions(rows) \cup {row.version}
  BY <1>2 DEF Migrations!Versions
<1> QED
  BY <1>1, <1>2, <1>3, <1>4

LEMMA RowsAppended ==
  ASSUME NEW rows \in Seq(SchemaRow), NEW more \in Seq(SchemaRow), Distinct(rows), Distinct(more),
         Migrations!Versions(more) \cap Migrations!Versions(rows) = {}
  PROVE  /\ rows \o more \in Seq(SchemaRow) /\ Distinct(rows \o more)
         /\ Migrations!Rows(rows) \subseteq Migrations!Rows(rows \o more)
<1>1. PICK q : q = rows \o more
  OBVIOUS
<1>2. PICK n \in Nat : n = Len(rows)
  OBVIOUS
<1>3. /\ q \in Seq(SchemaRow) /\ DOMAIN q = 1 .. n + Len(more) /\ DOMAIN rows = 1 .. n
      /\ DOMAIN more = 1 .. Len(more) /\ Len(more) \in Nat
  BY <1>1, <1>2
<1>4. /\ \A i \in 1 .. n : q[i] = rows[i]
      /\ \A i \in n + 1 .. n + Len(more) : q[i] = more[i - n]
  BY <1>1, <1>2, <1>3
<1>5. ASSUME NEW i \in 1 .. n, NEW j \in n + 1 .. n + Len(more)
      PROVE  q[i].version # q[j].version
  <2>1. i \in DOMAIN rows /\ j - n \in DOMAIN more /\ q[i] = rows[i] /\ q[j] = more[j - n]
    BY <1>3, <1>4
  <2> QED
    BY <2>1 DEF Migrations!Versions
<1>6. ASSUME NEW i \in DOMAIN q, NEW j \in DOMAIN q, i # j
      PROVE  q[i].version # q[j].version
  <2>1. CASE i <= n /\ j <= n
    BY <1>3, <1>4, <1>6, <2>1 DEF Distinct
  <2>2. CASE i > n /\ j > n
    <3>1. /\ i - n \in DOMAIN more /\ j - n \in DOMAIN more /\ i - n # j - n
          /\ q[i] = more[i - n] /\ q[j] = more[j - n]
      BY <1>3, <1>4, <1>6, <2>2
    <3> QED
      BY <3>1 DEF Distinct
  <2>3. CASE i <= n /\ j > n
    BY <1>3, <1>5, <2>3
  <2>4. CASE i > n /\ j <= n
    BY <1>3, <1>5, <2>4
  <2> QED
    BY <1>3, <2>1, <2>2, <2>3, <2>4
<1>7. Migrations!Rows(rows) \subseteq Migrations!Rows(q)
  BY <1>3, <1>4 DEF Migrations!Rows
<1> QED
  BY <1>1, <1>3, <1>6, <1>7 DEF Distinct

(* A file that is yet to be applied has no row. *)
LEMMA ApplyStep ==
  ASSUME MigrationInv, NEW s \in Migrators, Migrations!Apply(s)
  PROVE  MigrationInv'
<1> DEFINE e == filesDeploy[s]
<1>1. UNCHANGED filesApplied /\ UNCHANGED filesRunning /\ e.pc = "applying"
  BY DEF Migrations!Apply
<1>2. PICK file \in Migrations!First(e.todo) :
        LET taken == file \in Migrations!Versions(filesApplied)
        IN  /\ IF taken THEN Migrations!Moves(s, Migrations!NoDeploy) /\ Migrations!Released(s)
               ELSE /\ Migrations!Moves(s, [e EXCEPT !.todo = @ \ {file},
                                            !.done = Append(@, Migrations!Row(e.release, file))])
                    /\ UNCHANGED filesLock
            /\ filesConflict' = (filesConflict \/ taken)
  BY DEF Migrations!Apply
<1>3. file \in e.todo
  BY <1>2 DEF Migrations!First
<1>4. e \in Deployment /\ filesLock = s /\ filesConflict = FALSE
  BY <1>1 DEF MigrationInv, MigrationTypes, HoldsLock
<1>5. /\ e.todo \subseteq DOMAIN e.release
      /\ e.todo \cap Migrations!Versions(filesApplied) = {}
      /\ e.todo \cap Migrations!Versions(e.done) = {}
      /\ Migrations!Versions(e.done) \cap Migrations!Versions(filesApplied) = {}
      /\ Distinct(e.done)
  BY <1>1 DEF MigrationInv, Separate
<1>6. PICK row : row = Migrations!Row(e.release, file)
  OBVIOUS
<1>7. row \in SchemaRow /\ row.version = file
  <2>1. e.release \in Release /\ file \in DOMAIN e.release
    BY <1>3, <1>4, <1>5 DEF Deployment
  <2>2. row.version = file
    BY <1>6 DEF Migrations!Row
  <2> QED
    BY <1>6, <2>1, <2>2 DEF SchemaRow
<1>8. PICK d : d = [e EXCEPT !.todo = @ \ {file}, !.done = Append(@, row)]
  OBVIOUS
<1>9. d = [pc |-> "applying", release |-> e.release, todo |-> e.todo \ {file},
           done |-> Append(e.done, row)]
  BY <1>1, <1>4, <1>8 DEF Deployment
<1>10. /\ Append(e.done, row) \in Seq(SchemaRow) /\ Distinct(Append(e.done, row))
       /\ Migrations!Versions(Append(e.done, row)) = Migrations!Versions(e.done) \cup {file}
  BY <1>3, <1>4, <1>5, <1>7, RowAppended DEF Deployment
<1>11. d \in Deployment
  BY <1>4, <1>9, <1>10 DEF Deployment
<1>12. file \notin Migrations!Versions(filesApplied)
  BY <1>3, <1>5
<1>13. Migrations!Moves(s, d) /\ UNCHANGED filesLock /\ UNCHANGED filesConflict
  BY <1>2, <1>4, <1>6, <1>8, <1>12
<1>14. filesDeploy'[s] = d
  BY <1>13 DEF MigrationInv, MigrationTypes, Migrations!Moves
<1>15. Separate(s)'
  BY <1>1, <1>3, <1>5, <1>9, <1>10, <1>12, <1>14 DEF Separate
<1>16. \A t \in Migrators \ {s} : filesLock = t => filesLock' = t
  BY <1>13
<1> QED
  BY <1>1, <1>4, <1>11, <1>13, <1>15, <1>16, RowsKept, OneMoves

(* The rows of a transaction are of no other: the others wait for the lock. *)
LEMMA CommitStep ==
  ASSUME MigrationInv, NEW s \in Migrators, Migrations!Commit(s)
  PROVE  MigrationInv'
<1> DEFINE e == filesDeploy[s]
<1>1. e.pc = "applying" /\ UNCHANGED filesRunning /\ Migrations!Released(s)
  BY DEF Migrations!Commit
<1>2. e \in Deployment /\ filesLock = s /\ filesApplied \in Seq(SchemaRow) /\ filesConflict = FALSE
  BY <1>1 DEF MigrationInv, MigrationTypes, HoldsLock
<1>3. Migrations!Versions(e.done) \cap Migrations!Versions(filesApplied) = {} /\ Distinct(e.done)
  BY <1>1 DEF MigrationInv, Separate
<1>4. /\ filesApplied' = filesApplied \o e.done /\ UNCHANGED filesConflict
      /\ Migrations!Moves(s, [e EXCEPT !.pc = "migrated", !.done = <<>>])
  BY <1>2, <1>3 DEF Migrations!Commit
<1>5. PICK d : d = [e EXCEPT !.pc = "migrated", !.done = <<>>]
  OBVIOUS
<1>6. d = [pc |-> "migrated", release |-> e.release, todo |-> e.todo, done |-> <<>>]
  BY <1>2, <1>5 DEF Deployment
<1>7. <<>> \in Seq(SchemaRow)
  OBVIOUS
<1>8. d \in Deployment /\ d.pc = "migrated" /\ d.done = <<>>
  BY <1>2, <1>6, <1>7 DEF Deployment
<1>9. filesDeploy \in [Migrators -> Deployment] /\ filesDeploy' = [filesDeploy EXCEPT ![s] = d]
  BY <1>4, <1>5 DEF MigrationInv, MigrationTypes, Migrations!Moves
<1>10. e.done \in Seq(SchemaRow)
  BY <1>2 DEF Deployment
<1>11. /\ filesApplied' \in Seq(SchemaRow) /\ Distinct(filesApplied')
       /\ Migrations!Rows(filesApplied) \subseteq Migrations!Rows(filesApplied')
  BY <1>2, <1>3, <1>4, <1>10, RowsAppended DEF MigrationInv
<1>12. Distinct(filesApplied)'
  BY <1>11 DEF Distinct
<1>13. MigrationTypes'
  BY <1>1, <1>4, <1>8, <1>9, <1>11 DEF MigrationInv, MigrationTypes
<1>14. ASSUME NEW t \in Migrators PROVE (Separate(t) /\ HoldsLock(t) /\ HasItsRows(t))'
  <2>1. HasItsRows(t)'
    BY <1>1, <1>11 DEF MigrationInv, HasItsRows, Migrations!Rows
  <2>2. CASE t = s
    <3>1. filesDeploy'[t] = d
      BY <1>9, <2>2
    <3> QED
      BY <1>8, <2>1, <3>1 DEF Separate, HoldsLock
  <2>3. CASE t # s
    <3>1. filesDeploy'[t] = filesDeploy[t]
      BY <1>9, <2>3
    <3>2. filesDeploy[t].pc \notin {"locked", "applying"}
      BY <1>2, <2>3 DEF MigrationInv, HoldsLock
    <3>3. filesDeploy[t].done = <<>>
      BY <3>2 DEF MigrationInv, Separate
    <3> QED
      BY <2>1, <3>1, <3>2, <3>3 DEF Separate, HoldsLock
  <2> QED
    BY <2>2, <2>3
<1> QED
  BY <1>12, <1>13, <1>14 DEF MigrationInv

(* A schema that is ready for a release has the release's rows. *)
LEMMA ReadyHasRows ==
  ASSUME NEW release, Migrations!MayRun(release), NEW file \in DOMAIN release
  PROVE  Migrations!Row(release, file) \in Migrations!Rows(filesApplied)
<1>1. /\ ~\E row \in Migrations!Rows(filesApplied) :
            row.version \in DOMAIN release /\ row # Migrations!Row(release, row.version)
      /\ DOMAIN release \subseteq Migrations!Versions(filesApplied)
  BY DEF Migrations!MayRun, Migrations!Status
<1>2. PICK i \in DOMAIN filesApplied : filesApplied[i].version = file
  BY <1>1 DEF Migrations!Versions
<1>3. filesApplied[i] \in Migrations!Rows(filesApplied)
  BY DEF Migrations!Rows
<1> QED
  BY <1>1, <1>2, <1>3

LEMMA MigrationFailsStep ==
  ASSUME MigrationInv, NEW s \in Migrators, Migrations!MigrationFails(s)
  PROVE  MigrationInv'
<1>1. /\ UNCHANGED filesApplied /\ UNCHANGED filesConflict /\ UNCHANGED filesRunning
      /\ Migrations!Moves(s, Migrations!NoDeploy) /\ Migrations!Released(s)
  BY DEF Migrations!MigrationFails
<1> QED
  BY <1>1, RowsKept, Abandons

LEMMA StartStep ==
  ASSUME MigrationInv, NEW s \in Migrators, Migrations!Start(s)
  PROVE  MigrationInv'
<1> DEFINE release == filesDeploy[s].release
<1>1. /\ UNCHANGED filesApplied /\ UNCHANGED filesConflict /\ UNCHANGED filesLock
      /\ Migrations!Moves(s, Migrations!NoDeploy)
  BY DEF Migrations!Start
<1>2. release \in Release /\ filesRunning \in [Migrators -> Release]
  BY DEF MigrationInv, MigrationTypes, Deployment
<1>3. CASE Migrations!MayRun(release)
  <2>1. filesRunning' = [filesRunning EXCEPT ![s] = release]
    BY <1>3 DEF Migrations!Start
  <2>2. filesRunning' \in [Migrators -> Release]
    BY <1>2, <2>1
  <2>3. ASSUME NEW t \in Migrators PROVE HasItsRows(t)'
    <3>1. CASE t = s
      <4>1. filesRunning'[t] = release
        BY <1>2, <2>1, <3>1
      <4>2. \A file \in DOMAIN release :
              Migrations!Row(release, file) \in Migrations!Rows(filesApplied)
        BY <1>3, ReadyHasRows
      <4> QED
        BY <1>1, <4>1, <4>2 DEF HasItsRows, Migrations!Rows
    <3>2. CASE t # s
      <4>1. filesRunning'[t] = filesRunning[t]
        BY <1>2, <2>1, <3>2
      <4> QED
        BY <1>1, <4>1 DEF MigrationInv, HasItsRows, Migrations!Rows
    <3> QED
      BY <3>1, <3>2
  <2> QED
    BY <1>1, <2>2, <2>3, Abandons
<1>4. CASE ~Migrations!MayRun(release)
  <2>1. UNCHANGED filesRunning
    BY <1>4 DEF Migrations!Start
  <2> QED
    BY <1>1, <2>1, RowsKept, Abandons
<1> QED
  BY <1>3, <1>4

LEMMA RebootStep ==
  ASSUME MigrationInv, NEW s \in Migrators, Migrations!Reboot(s)
  PROVE  MigrationInv'
<1>1. /\ UNCHANGED filesApplied /\ UNCHANGED filesConflict /\ UNCHANGED filesLock
      /\ UNCHANGED filesDeploy
  BY DEF Migrations!Reboot
<1>2. \/ UNCHANGED filesRunning
      \/ filesRunning' = [filesRunning EXCEPT ![s] = Migrations!NoRelease]
  BY DEF Migrations!Reboot
<1>3. filesRunning \in [Migrators -> Release]
  BY DEF MigrationInv, MigrationTypes
<1>4. filesRunning' \in [Migrators -> Release]
  BY <1>2, <1>3 DEF Release
<1>5. DOMAIN Migrations!NoRelease = {}
  BY DEF Migrations!NoRelease
<1>6. ASSUME NEW t \in Migrators PROVE (Separate(t) /\ HoldsLock(t) /\ HasItsRows(t))'
  <2>1. filesRunning'[t] = filesRunning[t] \/ filesRunning'[t] = Migrations!NoRelease
    BY <1>2, <1>3
  <2>2. HasItsRows(t)'
    BY <1>1, <1>5, <2>1 DEF MigrationInv, HasItsRows, Migrations!Rows
  <2>3. Separate(t)'
    BY <1>1 DEF MigrationInv, Separate, Migrations!Versions, Distinct
  <2>4. HoldsLock(t)'
    BY <1>1 DEF MigrationInv, HoldsLock
  <2> QED
    BY <2>2, <2>3, <2>4
<1>7. MigrationTypes' /\ Distinct(filesApplied)'
  BY <1>1, <1>4 DEF MigrationInv, MigrationTypes, Distinct
<1> QED
  BY <1>6, <1>7 DEF MigrationInv

(* No two migrations collide, a file is applied at most once, and a running *)
(* service has its files applied (SchemaMigrations says what that means),   *)
(* for any services, files and releases.                                    *)
THEOREM SchemaAlwaysSound == Migrations!Spec => []SchemaSound
<1>1. MigrationInv /\ [Migrations!Next]_(Migrations!vars) => MigrationInv'
  <2>1. ASSUME MigrationInv, UNCHANGED Migrations!vars PROVE MigrationInv'
    <3>1. /\ UNCHANGED filesApplied /\ UNCHANGED filesConflict /\ UNCHANGED filesLock
          /\ UNCHANGED filesDeploy /\ UNCHANGED filesRunning
      BY <2>1 DEF Migrations!vars
    <3>2. MigrationTypes' /\ Distinct(filesApplied)'
      BY <2>1, <3>1 DEF MigrationInv, MigrationTypes, Distinct
    <3>3. ASSUME NEW t \in Migrators PROVE Separate(t)' /\ HoldsLock(t)' /\ HasItsRows(t)'
      <4>1. Separate(t)'
        BY <2>1, <3>1 DEF MigrationInv, Separate, Migrations!Versions, Distinct
      <4>2. HoldsLock(t)' /\ HasItsRows(t)'
        BY <2>1, <3>1 DEF MigrationInv, HoldsLock, HasItsRows, Migrations!Rows
      <4> QED
        BY <4>1, <4>2
    <3> QED
      BY <3>2, <3>3 DEF MigrationInv
  <2>2. ASSUME MigrationInv, Migrations!Next PROVE MigrationInv'
    BY <2>2, DeployStep, LockStep, ReadStep, ApplyStep, CommitStep, MigrationFailsStep,
       StartStep, RebootStep DEF Migrations!Next
  <2> QED
    BY <2>1, <2>2
<1>2. MigrationInv => SchemaSound
  BY DEF MigrationInv, MigrationTypes, HasItsRows, Distinct, SchemaSound, Migrations!SchemaSound
<1> QED
  BY <1>1, <1>2, MigrationInit, PTL DEF Migrations!Spec

-----------------------------------------------------------------------------
(* The store of the configuration.  The unique key of the versions and the  *)
(* one queue of each process make a version's number its place.  What a     *)
(* process holds was recorded where it lives.                               *)

ConfigOf == [mode : {"paper", "live"}, setting : {0, 1}]
VersionOf == [number : Nat, previous : Nat, config : ConfigOf, promoted : BOOLEAN]
ActiveRow == [requested : Nat, applied : Nat, kill : BOOLEAN, stamp : Nat]
LogEntry == [stamp : Nat, version : Nat, accepted : BOOLEAN]
StoreState == [versions : Seq(VersionOf), active : ActiveRow, log : SUBSET LogEntry]
StoreCall == {"down", "seeding", "loading", "saving", "idle", "refusing", "latest", "creating",
              "writing", "logging", "boundary"}
StoreJob ==
  [at : StoreCall, row : ActiveRow, latest : Nat, patch : Store!Patches \cup {<<>>}, stamp : Nat,
   promotes : BOOLEAN]

StoreTypes ==
  /\ store \in [Store!Place -> StoreState]
  /\ storeSignal \in [Store!Place -> [applied : Nat, kill : BOOLEAN, pending : BOOLEAN]]
  /\ storeMem \in [Store!Process -> ActiveRow]
  /\ storeJob \in [Store!Process -> StoreJob]
  /\ storeRefresh \in [at : {"none", "loading", "saving"}, row : ActiveRow]
  /\ storeChanges \in Nat

(* Row r names versions of history s, or none. *)
Names(s, r) == r.requested \in 0 .. Len(s.versions) /\ r.applied \in 0 .. Len(s.versions)

(* Who wrote the active record is about to log it. *)
Logging(h) ==
  \E p \in Store!Process :
    /\ Store!Home(p) = h /\ Store!At(p, "logging")
    /\ storeJob[p].stamp = store[h].active.stamp

Logged(s, number) == \E e \in s.log : e.stamp = number /\ e.accepted

(* Versions are numbered by their places, each comes after the one it was   *)
(* made from, and live mode from a promotion or from that one.              *)
Derived(versions) ==
  \A i \in 1 .. Len(versions) :
    LET v == versions[i]
    IN  /\ v.number = i /\ v.previous < i
        /\ v.config.mode = "live" =>
             v.promoted \/ v.previous = 0 \/ versions[v.previous].config.mode = "live"

(* What one place keeps *)
Kept(h) ==
  LET s == store[h]
  IN  /\ Names(s, s.active) /\ (s.active = Store!NoRow \/ s.active.requested # 0)
      /\ storeSignal[h].applied \in 0 .. Len(s.versions)
      /\ Derived(s.versions)
      /\ \A e \in s.log : e.accepted => e.stamp \in storeWritten
      /\ s.active.stamp \notin storeLost \cup {0} =>
           Logged(s, s.active.stamp) \/ Logging(h)

(* What one process holds of it *)
Holds(p) ==
  LET s == store[Store!Home(p)]
      j == storeJob[p]
  IN  /\ Names(s, storeMem[p]) /\ Names(s, j.row)
      /\ j.at \notin {"down", "seeding", "loading"} => storeMem[p].requested # 0
      /\ j.at \in {"refusing", "latest", "creating", "writing", "logging"} => j.row.requested # 0
      /\ j.at \in {"latest", "creating"} =>
           j.patch \in Store!Patches /\ ~Store!Refused(j.patch, j.promotes)
      /\ j.at = "creating" =>
           IF storeKind = "postgres" THEN j.latest <= Len(s.versions)
           ELSE j.latest = Len(s.versions)
      /\ j.at = "writing" => j.row.stamp = j.stamp
      /\ j.at = "logging" => j.stamp \in storeWritten
      /\ j.at = "boundary" => Logged(s, j.stamp)

StoreInv ==
  /\ StoreTypes
  /\ \A h \in Store!Place : Kept(h)
  /\ \A p \in Store!Process : Holds(p)
  /\ Names(store[Store!Home("worker")], storeRefresh.row)

StoreSignal == [applied : Nat, kill : BOOLEAN, pending : BOOLEAN]

LEMMA HomeIsPlace ==
  /\ "worker" \in Store!Process
  /\ \A p \in Store!Process : Store!Home(p) \in Store!Place
BY DEF Store!Process, Store!Worker, Store!Place, Store!Home

LEMMA EmptyStore ==
  /\ Store!Empty \in StoreState /\ Store!Empty.active = Store!NoRow
  /\ Store!Empty.versions = <<>> /\ Len(Store!Empty.versions) = 0 /\ Store!Empty.log = {}
  /\ Store!NoSignal \in StoreSignal /\ Store!NoSignal.applied = 0
<1>1. <<>> \in Seq(VersionOf) /\ Len(<<>>) = 0
  OBVIOUS
<1>2. Store!NoRow \in ActiveRow
  BY DEF Store!NoRow, ActiveRow
<1> QED
  BY <1>1, <1>2 DEF Store!Empty, StoreState, Store!NoSignal, StoreSignal

LEMMA StoreInit == Store!Init => StoreInv
<1> SUFFICES ASSUME Store!Init PROVE StoreInv
  OBVIOUS
<1>1. /\ Store!NoRow \in ActiveRow /\ Store!NoRow.requested = 0 /\ Store!NoRow.applied = 0
      /\ Store!NoRow.stamp = 0
  BY DEF Store!NoRow, ActiveRow
<1>2. /\ Store!Empty \in StoreState /\ Store!Empty.active = Store!NoRow
      /\ Store!Empty.versions = <<>> /\ Len(Store!Empty.versions) = 0 /\ Store!Empty.log = {}
  BY EmptyStore
<1>3. Store!NoSignal \in StoreSignal /\ Store!NoSignal.applied = 0
  BY EmptyStore
<1>4. /\ Store!Down \in StoreJob /\ Store!Down.at = "down" /\ Store!Down.row = Store!NoRow
  BY <1>1 DEF Store!Down, StoreJob, StoreCall
<1>5. StoreTypes
  BY <1>1, <1>2, <1>3, <1>4 DEF Store!Init, StoreTypes, StoreSignal, Store!NoRefresh
<1>6. ASSUME NEW h \in Store!Place PROVE Kept(h)
  <2>1. store[h] = Store!Empty /\ storeSignal[h] = Store!NoSignal
    BY DEF Store!Init
  <2> QED
    BY <1>1, <1>2, <1>3, <2>1 DEF Kept, Names, Derived
<1>7. ASSUME NEW p \in Store!Process PROVE Holds(p)
  <2>1. store[Store!Home(p)] = Store!Empty
    BY HomeIsPlace DEF Store!Init
  <2>2. storeMem[p] = Store!NoRow /\ storeJob[p] = Store!Down
    BY DEF Store!Init
  <2> QED
    BY <1>1, <1>2, <1>4, <2>1, <2>2 DEF Holds, Names
<1>8. Names(store[Store!Home("worker")], storeRefresh.row)
  <2>1. store[Store!Home("worker")] = Store!Empty /\ storeRefresh.row = Store!NoRow
    BY HomeIsPlace DEF Store!Init, Store!NoRefresh
  <2> QED
    BY <1>1, <1>2, <2>1 DEF Names
<1> QED
  BY <1>5, <1>6, <1>7, <1>8 DEF StoreInv

(* History t has all that s has. *)
Continues(s, t) == Len(s.versions) <= Len(t.versions) /\ s.log \subseteq t.log

(* Process p may change what it holds, and its place. *)
StoreActs(p) ==
  /\ storeKind' = storeKind /\ storeWritten \subseteq storeWritten' /\ storeLost \subseteq storeLost'
  /\ \A q \in Store!Process : q # p => storeMem'[q] = storeMem[q] /\ storeJob'[q] = storeJob[q]
  /\ \A h \in Store!Place :
       h # Store!Home(p) => store'[h] = store[h] /\ storeSignal'[h] = storeSignal[h]

(* Then only those two are in question. *)
LEMMA StoreOthers ==
  ASSUME StoreInv, StoreTypes', NEW p \in Store!Process, StoreActs(p),
         storeKind = "postgres" => Continues(store[Store!Home(p)], store'[Store!Home(p)]),
         Kept(Store!Home(p))', Holds(p)', Names(store[Store!Home("worker")], storeRefresh.row)'
  PROVE  StoreInv'
<1>1. \A q \in Store!Process : Store!Home(q)' = Store!Home(q)
  BY DEF Store!Home, StoreActs
<1>2. ASSUME NEW h \in Store!Place, h # Store!Home(p) PROVE Kept(h)'
  <2>1. store'[h] = store[h] /\ storeSignal'[h] = storeSignal[h] /\ Kept(h)
    BY <1>2 DEF StoreActs, StoreInv
  <2>2. Logging(h) => Logging(h)'
    BY <1>1, <1>2, <2>1 DEF Logging, Store!At, StoreActs
  <2>3. storeWritten \subseteq storeWritten' /\ storeLost \subseteq storeLost'
    BY DEF StoreActs
  <2> QED
    BY <2>1, <2>2, <2>3 DEF Kept, Names, Logged
<1>3. ASSUME NEW q \in Store!Process, q # p PROVE Holds(q)'
  <2>1. storeMem'[q] = storeMem[q] /\ storeJob'[q] = storeJob[q] /\ Holds(q)
        /\ storeKind' = storeKind /\ storeWritten \subseteq storeWritten'
    BY <1>3 DEF StoreActs, StoreInv
  <2>2. store[Store!Home(q)] \in StoreState /\ store'[Store!Home(q)] \in StoreState
    BY HomeIsPlace DEF StoreInv, StoreTypes
  <2>3. IF storeKind = "postgres" THEN Continues(store[Store!Home(q)], store'[Store!Home(q)])
        ELSE store'[Store!Home(q)] = store[Store!Home(q)]
    BY <1>3, HomeIsPlace DEF StoreActs, Store!Home
  <2>4. /\ Len(store[Store!Home(q)].versions) \in Nat /\ Len(store'[Store!Home(q)].versions) \in Nat
        /\ Len(store[Store!Home(q)].versions) <= Len(store'[Store!Home(q)].versions)
    BY <2>2, <2>3 DEF Continues, StoreState
  <2>5. \A s : Logged(store[Store!Home(q)], s) => Logged(store'[Store!Home(q)], s)
    BY <2>3 DEF Continues, Logged
  <2>6. storeMem[q] \in ActiveRow /\ storeJob[q].row \in ActiveRow /\ storeJob[q].latest \in Nat
    BY DEF StoreInv, StoreTypes, StoreJob
  <2>7. \A r \in ActiveRow : Names(store[Store!Home(q)], r) => Names(store'[Store!Home(q)], r)
    BY <2>4 DEF Names, ActiveRow
  <2>8. Store!Home(q)' = Store!Home(q)
    BY <1>1
  <2>9. /\ Names(store'[Store!Home(q)], storeMem[q])
        /\ Names(store'[Store!Home(q)], storeJob[q].row)
        /\ storeJob[q].at = "boundary" => Logged(store'[Store!Home(q)], storeJob[q].stamp)
    BY <2>1, <2>5, <2>6, <2>7 DEF Holds
  <2>10. storeJob[q].at = "creating" =>
           IF storeKind = "postgres"
           THEN storeJob[q].latest <= Len(store'[Store!Home(q)].versions)
           ELSE storeJob[q].latest = Len(store'[Store!Home(q)].versions)
    BY <2>1, <2>3, <2>4, <2>6 DEF Holds
  <2>11. storeJob[q].at = "logging" => storeJob[q].stamp \in storeWritten'
    BY <2>1 DEF Holds
  <2> QED
    BY <2>1, <2>8, <2>9, <2>10, <2>11 DEF Holds
<1>4. ASSUME NEW h \in Store!Place, h = Store!Home(p) PROVE Kept(h)'
  BY <1>1, <1>4 DEF Kept
<1>5. \A h \in Store!Place : Kept(h)'
  BY <1>2, <1>4
<1>6. \A q \in Store!Process : Holds(q)'
  BY <1>3
<1> QED
  BY <1>5, <1>6 DEF StoreInv

(* A step that writes nothing into the history.  Who was about to log fails *)
(* or stays.                                                                *)
LEMMA StoreUntouched ==
  ASSUME StoreInv, StoreTypes', NEW p \in Store!Process, StoreActs(p), store' = store,
         storeSignal'[Store!Home(p)].applied \in 0 .. Len(store[Store!Home(p)].versions),
         Store!At(p, "logging") =>
           storeJob'[p] = storeJob[p] \/ storeJob[p].stamp \in storeLost',
         Holds(p)', Names(store[Store!Home("worker")], storeRefresh.row)'
  PROVE  StoreInv'
<1> DEFINE h == Store!Home(p)
<1>1. \A q \in Store!Process : Store!Home(q)' = Store!Home(q)
  BY DEF Store!Home, StoreActs
<1>2. h \in Store!Place /\ Kept(h) /\ store[h] \in StoreState
  BY HomeIsPlace DEF StoreInv, StoreTypes
<1>3. Logging(h) => Logging(h)' \/ store[h].active.stamp \in storeLost'
  BY <1>1 DEF Logging, Store!At, StoreActs
<1>4. storeWritten \subseteq storeWritten' /\ storeLost \subseteq storeLost'
  BY DEF StoreActs
<1>5. Kept(h)'
  BY <1>1, <1>2, <1>3, <1>4 DEF Kept, Names, Logged
<1>6. Continues(store[h], store'[h])
  BY <1>2 DEF Continues, StoreState
<1>7. Kept(Store!Home(p))'
  BY <1>1, <1>5
<1> QED
  BY <1>6, <1>7, StoreOthers

LEMMA StoreHere ==
  ASSUME StoreInv, NEW p \in Store!Process
  PROVE  /\ StoreTypes /\ Kept(Store!Home(p)) /\ Holds(p) /\ Store!Home(p) \in Store!Place
         /\ store[Store!Home(p)] \in StoreState
         /\ storeSignal[Store!Home(p)] \in StoreSignal
         /\ storeMem[p] \in ActiveRow /\ storeJob[p] \in StoreJob
         /\ store[Store!Home(p)].active \in ActiveRow
         /\ Len(store[Store!Home(p)].versions) \in Nat
         /\ Names(store[Store!Home("worker")], storeRefresh.row)
BY HomeIsPlace DEF StoreInv, StoreTypes, StoreState, StoreSignal

LEMMA NoRowIsRow ==
  /\ Store!NoRow \in ActiveRow /\ Store!NoRow.requested = 0 /\ Store!NoRow.applied = 0
  /\ Store!NoRow.stamp = 0
  /\ Store!Down \in StoreJob /\ Store!Down.at = "down" /\ Store!Down.row = Store!NoRow
  /\ Store!NoRefresh = [at |-> "none", row |-> Store!NoRow]
BY DEF Store!NoRow, ActiveRow, Store!Down, StoreJob, StoreCall, Store!NoRefresh

(* What a process does with its call and its memory alone *)
LEMMA StoreLocal ==
  ASSUME StoreInv, NEW p \in Store!Process, NEW m \in ActiveRow, NEW j \in StoreJob,
         UNCHANGED <<storeKind, store, storeSignal, storeRefresh, storeWritten>>,
         storeLost \subseteq storeLost', storeChanges' \in Nat,
         storeMem' = [storeMem EXCEPT ![p] = m], storeJob' = [storeJob EXCEPT ![p] = j],
         storeJob[p].at = "logging" => storeJob[p].stamp \in storeLost',
         Holds(p)'
  PROVE  StoreInv'
<1>1. /\ \A q \in Store!Process : q # p => storeMem'[q] = storeMem[q] /\ storeJob'[q] = storeJob[q]
      /\ StoreTypes'
  BY StoreHere DEF StoreTypes
<1>2. StoreActs(p)
  BY <1>1 DEF StoreActs
<1>3. storeSignal'[Store!Home(p)].applied \in 0 .. Len(store[Store!Home(p)].versions)
  BY StoreHere DEF Kept
<1>4. Names(store[Store!Home("worker")], storeRefresh.row)'
  BY StoreHere DEF Store!Home
<1> QED
  BY <1>1, <1>2, <1>3, <1>4, StoreUntouched DEF Store!At

LEMMA BootReadsKeeps ==
  ASSUME StoreInv, NEW p \in Store!Process, Store!BootReads(p)
  PROVE  StoreInv'
<1> DEFINE s == store[Store!Home(p)]
<1>1. PICK j : j = [Store!Down EXCEPT !.at = IF s.active = Store!NoRow THEN "seeding"
                                             ELSE "loading", !.row = s.active]
  OBVIOUS
<1>2. /\ j \in StoreJob /\ j.row = s.active
      /\ j.at = IF s.active = Store!NoRow THEN "seeding" ELSE "loading"
  BY <1>1, NoRowIsRow, StoreHere DEF StoreJob, StoreCall
<1>3. /\ storeJob' = [storeJob EXCEPT ![p] = j] /\ storeJob[p].at = "down"
      /\ UNCHANGED <<storeKind, store, storeSignal, storeMem, storeRefresh, storeStuck,
                     storeChanges, storeFaults, storeWritten, storeLost>>
  BY <1>1 DEF Store!BootReads, Store!Active, Store!At
<1>4. storeMem' = [storeMem EXCEPT ![p] = storeMem[p]] /\ storeChanges' \in Nat
  BY <1>3, StoreHere DEF StoreTypes
<1>5. storeJob'[p] = j /\ storeMem'[p] = storeMem[p] /\ s' = s
  BY <1>3, StoreHere DEF StoreTypes, Store!Home
<1>6. Names(s, j.row) /\ Names(s, storeMem[p])
  BY <1>2, StoreHere DEF Kept, Holds
<1>7. Holds(p)'
  BY <1>2, <1>5, <1>6 DEF Holds
<1> QED
  BY <1>2, <1>3, <1>4, <1>7, StoreHere, StoreLocal

LEMMA NewestVersion ==
  ASSUME StoreInv, NEW p \in Store!Process
  PROVE  Store!LatestNumber(p) = Len(store[Store!Home(p)].versions)
<1> DEFINE s == store[Store!Home(p)]
           n == Len(s.versions)
           numbers == {s.versions[i].number : i \in 1 .. n}
<1>1. \A i \in 1 .. n : s.versions[i].number = i
  BY StoreHere DEF Kept, Derived
<1>2. n \in Nat
  BY StoreHere
<1>3. numbers = 1 .. n
  BY <1>1
<1>4. Store!LatestNumber(p)
        = IF numbers = {} THEN 0 ELSE CHOOSE m \in numbers : \A k \in numbers : k <= m
  BY DEF Store!LatestNumber, Store!Versions
<1> HIDE DEF numbers, n
<1>5. CASE n = 0
  <2>1. numbers = {}
    BY <1>3, <1>5
  <2> QED
    BY <1>4, <1>5, <2>1 DEF n
<1>6. CASE n # 0
  <2>1. n \in numbers /\ \A k \in numbers : k <= n
    BY <1>2, <1>3, <1>6
  <2>2. \A m \in numbers : (\A k \in numbers : k <= m) => m = n
    BY <1>2, <1>3, <2>1
  <2>3. (CHOOSE m \in numbers : \A k \in numbers : k <= m) = n
    BY <2>1, <2>2
  <2>4. numbers # {}
    BY <2>1
  <2> QED
    BY <1>4, <2>3, <2>4 DEF n
<1> QED
  BY <1>5, <1>6

LEMMA NamesStay ==
  ASSUME NEW s, NEW t, NEW r \in ActiveRow, Names(s, r),
         Len(s.versions) \in Nat, Len(t.versions) \in Nat, Len(s.versions) <= Len(t.versions)
  PROVE  Names(t, r)
BY DEF Names, ActiveRow

(* The parts of a history *)
LEMMA HistoryParts ==
  ASSUME NEW versions, NEW active, NEW entries
  PROVE  /\ \A v : Store!WithVersion([versions |-> versions, active |-> active, log |-> entries], v)
                  = [versions |-> Append(versions, v), active |-> active, log |-> entries]
         /\ \A r : Store!WithRow([versions |-> versions, active |-> active, log |-> entries], r)
                  = [versions |-> versions, active |-> r, log |-> entries]
         /\ \A e : Store!WithEntry([versions |-> versions, active |-> active, log |-> entries], e)
                  = [versions |-> versions, active |-> active, log |-> entries \cup {e}]
<1>1. ASSUME NEW v
      PROVE  Store!WithVersion([versions |-> versions, active |-> active, log |-> entries], v)
               = [versions |-> Append(versions, v), active |-> active, log |-> entries]
  BY DEF Store!WithVersion
<1>2. ASSUME NEW r
      PROVE  Store!WithRow([versions |-> versions, active |-> active, log |-> entries], r)
               = [versions |-> versions, active |-> r, log |-> entries]
  BY DEF Store!WithRow
<1>3. ASSUME NEW e
      PROVE  Store!WithEntry([versions |-> versions, active |-> active, log |-> entries], e)
               = [versions |-> versions, active |-> active, log |-> entries \cup {e}]
  BY DEF Store!WithEntry
<1> QED
  BY <1>1, <1>2, <1>3, Zenon

LEMMA SeededParts ==
  ASSUME NEW versions, NEW active, NEW entries, NEW v, NEW r, NEW e
  PROVE  Store!WithEntry(Store!WithRow(Store!WithVersion(
             [versions |-> versions, active |-> active, log |-> entries], v), r), e)
           = [versions |-> Append(versions, v), active |-> r, log |-> entries \cup {e}]
<1>1. Store!WithVersion([versions |-> versions, active |-> active, log |-> entries], v)
        = [versions |-> Append(versions, v), active |-> active, log |-> entries]
  BY HistoryParts
<1>2. Store!WithRow([versions |-> Append(versions, v), active |-> active, log |-> entries], r)
        = [versions |-> Append(versions, v), active |-> r, log |-> entries]
  BY HistoryParts
<1>3. Store!WithEntry([versions |-> Append(versions, v), active |-> r, log |-> entries], e)
        = [versions |-> Append(versions, v), active |-> r, log |-> entries \cup {e}]
  BY HistoryParts
<1> QED
  BY <1>1, <1>2, <1>3, Zenon

LEMMA VersionAdded ==
  ASSUME NEW versions \in Seq(VersionOf), Derived(versions), NEW v \in VersionOf,
         v.number = Len(versions) + 1, v.previous \in 0 .. Len(versions),
         v.config.mode = "live" =>
           v.promoted \/ v.previous = 0 \/ versions[v.previous].config.mode = "live"
  PROVE  /\ Append(versions, v) \in Seq(VersionOf) /\ Derived(Append(versions, v))
         /\ Len(Append(versions, v)) = Len(versions) + 1
<1> DEFINE n == Len(versions)
           more == Append(versions, v)
<1>1. /\ n \in Nat /\ more \in Seq(VersionOf) /\ Len(more) = n + 1 /\ more[n + 1] = v
      /\ \A i \in 1 .. n : more[i] = versions[i] /\ versions[i] \in VersionOf
      /\ \A i \in 1 .. n + 1 : more[i] \in VersionOf
  OBVIOUS
<1> HIDE DEF n, more
<1>2. ASSUME NEW i \in 1 .. n + 1
      PROVE  /\ more[i].number = i /\ more[i].previous < i
             /\ more[i].config.mode = "live" =>
                  \/ more[i].promoted \/ more[i].previous = 0
                  \/ more[more[i].previous].config.mode = "live"
  <2>1. more[i].previous \in Nat
    BY <1>1 DEF VersionOf
  <2>2. CASE i = n + 1
    <3>1. v.previous # 0 => more[v.previous] = versions[v.previous]
      BY <1>1 DEF n
    <3> QED
      BY <1>1, <2>2, <3>1 DEF n
  <2>3. CASE i \in 1 .. n
    <3>1. /\ versions[i].number = i /\ versions[i].previous < i
          /\ versions[i].config.mode = "live" =>
               \/ versions[i].promoted \/ versions[i].previous = 0
               \/ versions[versions[i].previous].config.mode = "live"
      BY <2>3 DEF Derived, n
    <3>2. more[i] = versions[i]
      BY <1>1, <2>3
    <3>3. versions[i].previous # 0 => versions[i].previous \in 1 .. n
      BY <1>1, <2>1, <2>3, <3>1, <3>2
    <3>4. versions[i].previous # 0 => more[versions[i].previous] = versions[versions[i].previous]
      BY <1>1, <3>3
    <3> QED
      BY <3>1, <3>2, <3>4
  <2> QED
    BY <1>1, <2>2, <2>3
<1> QED
  BY <1>1, <1>2 DEF Derived, n, more

(* What a process does with its call, its memory and its place *)
LEMMA StoreWrites ==
  ASSUME StoreInv, NEW p \in Store!Process, NEW m \in ActiveRow, NEW j \in StoreJob,
         NEW t \in StoreState,
         UNCHANGED <<storeKind, storeSignal, storeRefresh, storeLost>>,
         storeWritten \subseteq storeWritten', storeChanges' \in Nat,
         storeMem' = [storeMem EXCEPT ![p] = m], storeJob' = [storeJob EXCEPT ![p] = j],
         store' = [store EXCEPT ![Store!Home(p)] = t],
         Continues(store[Store!Home(p)], t),
         Kept(Store!Home(p))', Holds(p)'
  PROVE  StoreInv'
<1>1. /\ \A q \in Store!Process : q # p => storeMem'[q] = storeMem[q] /\ storeJob'[q] = storeJob[q]
      /\ \A h \in Store!Place : h # Store!Home(p) => store'[h] = store[h]
      /\ store'[Store!Home(p)] = t
      /\ StoreTypes'
  BY StoreHere DEF StoreTypes
<1>2. StoreActs(p)
  BY <1>1 DEF StoreActs
<1>3. Names(store[Store!Home("worker")], storeRefresh.row)'
  <2> DEFINE w == Store!Home("worker")
  <2>1. w \in Store!Place /\ w' = w
    BY HomeIsPlace DEF Store!Home
  <2>2. store[w] \in StoreState /\ store'[w] \in StoreState
    BY <1>1, <2>1 DEF StoreInv, StoreTypes
  <2>3. /\ Len(store[w].versions) \in Nat /\ Len(store'[w].versions) \in Nat
        /\ Len(store[w].versions) <= Len(store'[w].versions)
    BY <1>1, <2>1, <2>2 DEF Continues, StoreState
  <2>4. Names(store[w], storeRefresh.row) /\ storeRefresh.row \in ActiveRow
    BY DEF StoreInv, StoreTypes
  <2> QED
    BY <2>1, <2>3, <2>4, SMTT(30) DEF Names, ActiveRow
<1> QED
  BY <1>1, <1>2, <1>3, StoreOthers

LEMMA SeedKeeps ==
  ASSUME StoreInv, NEW p \in Store!Process, Store!Seed(p)
  PROVE  StoreInv'
<1>0. PICK h : h = Store!Home(p)
  OBVIOUS
<1> DEFINE s == store[h]
           n == Len(s.versions)
<1>1. PICK j : j = [storeJob[p] EXCEPT !.at = "saving"]
  OBVIOUS
<1>2. /\ j \in StoreJob /\ j.at = "saving" /\ j.row = storeJob[p].row
      /\ storeJob' = [storeJob EXCEPT ![p] = j] /\ storeJob[p].at = "seeding"
      /\ UNCHANGED <<storeKind, storeSignal, storeRefresh, storeStuck, storeFaults, storeLost>>
  <2>1. storeJob[p] \in StoreJob
    BY StoreHere
  <2>2. j \in StoreJob /\ j.at = "saving" /\ j.row = storeJob[p].row
    BY <1>1, <2>1 DEF StoreJob, StoreCall
  <2> QED
    BY <1>1, <2>2 DEF Store!Seed, Store!Goto, Store!At
<1>3. /\ Store!Home(p)' = h /\ h \in Store!Place /\ n \in Nat /\ s \in StoreState
      /\ storeMem[p] \in ActiveRow
  BY <1>0, <1>2, StoreHere DEF Store!Home
<1>4. storeJob'[p] = j
  BY <1>2, StoreHere DEF StoreTypes
<1>5. CASE /\ Store!Active(p) # Store!NoRow
           /\ storeMem' = [storeMem EXCEPT ![p] =
                [Store!Active(p) EXCEPT !.applied = Store!Active(p).requested, !.kill = FALSE]]
           /\ UNCHANGED <<store, storeChanges, storeWritten>>
  <2>1. PICK m : m = [s.active EXCEPT !.applied = s.active.requested, !.kill = FALSE]
    OBVIOUS
  <2>2. s.active \in ActiveRow /\ s.active # Store!NoRow
    BY <1>0, <1>5, StoreHere DEF Store!Active
  <2>3. /\ m \in ActiveRow /\ m.requested = s.active.requested /\ m.applied = s.active.requested
    BY <2>1, <2>2 DEF ActiveRow
  <2>4. storeMem' = [storeMem EXCEPT ![p] = m] /\ storeMem'[p] = m
    BY <1>0, <1>5, <2>1, StoreHere DEF Store!Active, StoreTypes
  <2>5. m.requested # 0 /\ Names(s, m) /\ Names(s, j.row)
    BY <1>0, <1>2, <2>2, <2>3, StoreHere DEF Kept, Holds, Names
  <2>6. Holds(p)'
    BY <1>2, <1>3, <1>4, <1>5, <2>4, <2>5 DEF Holds
  <2>7. storeChanges' \in Nat
    BY <1>5, StoreHere DEF StoreTypes
  <2> QED
    BY <1>2, <1>5, <2>3, <2>4, <2>6, <2>7, StoreLocal
<1>6. CASE /\ Store!Active(p) = Store!NoRow /\ storeChanges' = storeChanges + 1
           /\ store' = [store EXCEPT ![h] =
                Store!Seeded(s, Store!LatestNumber(p) + 1, storeChanges', Store!SeedConfig)]
           /\ storeMem' = [storeMem EXCEPT ![p] = store'[h].active]
           /\ storeWritten' = storeWritten \cup {storeChanges'}
  <2> DEFINE k == storeChanges + 1
  <2>1. PICK v : v = [number |-> n + 1, previous |-> 0, config |-> Store!SeedConfig, promoted |-> FALSE]
    OBVIOUS
  <2>2. PICK m : m = [requested |-> n + 1, applied |-> n + 1, kill |-> FALSE, stamp |-> k]
    OBVIOUS
  <2>3. PICK e : e = [stamp |-> k, version |-> n + 1, accepted |-> TRUE]
    OBVIOUS
  <2>4. PICK t : t = [versions |-> Append(s.versions, v), active |-> m, log |-> s.log \cup {e}]
    OBVIOUS
  <2>5. k \in Nat
    BY StoreHere DEF StoreTypes
  <2>6. v \in VersionOf /\ m \in ActiveRow /\ e \in LogEntry
    BY <1>3, <2>1, <2>2, <2>3, <2>5, StoreConstants
    DEF VersionOf, ActiveRow, LogEntry, ConfigOf, Store!SeedConfig
  <2>7. Store!Seeded(s, n + 1, k, Store!SeedConfig) = t
    <3>1. PICK versions, active, entries :
            s = [versions |-> versions, active |-> active, log |-> entries]
      BY <1>3 DEF StoreState
    <3>2. s.versions = versions /\ s.log = entries
      BY <3>1
    <3>3. Store!WithEntry(Store!WithRow(Store!WithVersion(s, v), m), e) = t
      BY <2>4, <3>1, <3>2, SeededParts, SMTT(30)
    <3> QED
      BY <3>3, <2>1, <2>2, <2>3 DEF Store!Seeded, Store!Version, Store!Entry
  <2>8. /\ Append(s.versions, v) \in Seq(VersionOf) /\ Len(Append(s.versions, v)) = n + 1
        /\ Derived(Append(s.versions, v))
    <3>1. s.versions \in Seq(VersionOf)
      BY <1>3 DEF StoreState
    <3>2. v.number = n + 1 /\ v.previous = 0
      BY <2>1
    <3>3. Derived(s.versions)
      BY <1>0, StoreHere DEF Kept
    <3> QED
      BY <1>3, <2>6, <3>1, <3>2, <3>3, VersionAdded
  <2>9. /\ t \in StoreState /\ t.versions = Append(s.versions, v) /\ t.active = m
        /\ t.log = s.log \cup {e}
    <3>1. s.log \subseteq LogEntry
      BY <1>3 DEF StoreState
    <3> QED
      BY <2>4, <2>6, <2>8, <3>1 DEF StoreState
  <2>10. /\ store' = [store EXCEPT ![h] = t] /\ store'[h] = t
         /\ storeMem' = [storeMem EXCEPT ![p] = m] /\ storeMem'[p] = m
    <3>1. store' = [store EXCEPT ![h] = t]
      BY <1>0, <1>6, <2>7, NewestVersion
    <3>2. store'[h] = t
      BY <1>3, <3>1, StoreHere DEF StoreTypes
    <3> QED
      BY <1>6, <2>9, <3>1, <3>2, StoreHere DEF StoreTypes
  <2>11. Continues(s, t)
    BY <1>3, <2>8, <2>9 DEF Continues
  <2>12. storeSignal' = storeSignal /\ storeWritten' = storeWritten \cup {k}
    BY <1>2, <1>6
  <2>13. Kept(h)'
    <3>1. Names(t, m) /\ m.requested # 0 /\ m.stamp = k
      BY <1>3, <2>2, <2>8, <2>9 DEF Names
    <3>2. storeSignal'[h].applied \in 0 .. Len(t.versions)
      BY <1>0, <1>3, <2>8, <2>9, <2>12, StoreHere DEF Kept
    <3>3. \A x \in t.log : x.accepted => x.stamp \in storeWritten'
      BY <1>0, <2>3, <2>9, <2>12, StoreHere DEF Kept
    <3>4. Logged(t, m.stamp)
      BY <2>3, <2>9, <3>1 DEF Logged
    <3> QED
      BY <2>8, <2>9, <2>10, <3>1, <3>2, <3>3, <3>4 DEF Kept
  <2>14. Holds(p)'
    <3>1. Names(t, m) /\ m.requested # 0
      BY <1>3, <2>2, <2>8, <2>9 DEF Names
    <3>2. Names(s, j.row) /\ j.row \in ActiveRow
      BY <1>0, <1>2, StoreHere DEF Holds, StoreJob
    <3>3. Names(t, j.row)
      BY <1>3, <2>8, <2>9, <3>2, NamesStay
    <3> QED
      BY <1>2, <1>3, <1>4, <2>10, <3>1, <3>3 DEF Holds
  <2>15. Kept(Store!Home(p))' /\ storeChanges' \in Nat
    BY <1>3, <1>6, <2>5, <2>13 DEF Kept
  <2> QED
    BY <1>0, <1>2, <2>6, <2>9, <2>10, <2>11, <2>12, <2>14, <2>15, StoreWrites
<1> QED
  BY <1>0, <1>5, <1>6 DEF Store!Seed

LEMMA LoadVersionsKeeps ==
  ASSUME StoreInv, NEW p \in Store!Process, Store!LoadVersions(p)
  PROVE  StoreInv'
<1> DEFINE s == store[Store!Home(p)]
           r == storeJob[p].row
<1>1. PICK j : j = [storeJob[p] EXCEPT !.at = IF Store!Loads(p, r.requested) THEN "saving" ELSE "down"]
  OBVIOUS
<1>2. PICK m : m = IF Store!Loads(p, r.requested) THEN r ELSE storeMem[p]
  OBVIOUS
<1>3. storeJob[p] \in StoreJob /\ r \in ActiveRow /\ storeMem[p] \in ActiveRow
  BY StoreHere DEF StoreJob
<1>4. /\ j \in StoreJob /\ j.row = r /\ m \in ActiveRow
      /\ j.at = IF Store!Loads(p, r.requested) THEN "saving" ELSE "down"
  BY <1>1, <1>2, <1>3 DEF StoreJob, StoreCall
<1>5. /\ storeJob' = [storeJob EXCEPT ![p] = j] /\ storeJob[p].at = "loading"
      /\ UNCHANGED <<storeKind, store, storeSignal, storeRefresh, storeChanges, storeWritten,
                     storeLost>>
  BY <1>1 DEF Store!LoadVersions, Store!At, Store!Goto
<1>6. storeMem' = [storeMem EXCEPT ![p] = m]
  BY <1>2, StoreHere DEF Store!LoadVersions, StoreTypes
<1>7. storeJob'[p] = j /\ storeMem'[p] = m /\ s' = s /\ storeChanges' \in Nat
  BY <1>5, <1>6, StoreHere DEF StoreTypes, Store!Home
<1>8. Names(s, r) /\ Names(s, m)
  BY <1>2, StoreHere DEF Holds
<1>9. j.at # "down" => m.requested # 0
  BY <1>2, <1>3, <1>4 DEF Store!Loads
<1>10. Holds(p)'
  BY <1>4, <1>7, <1>8, <1>9 DEF Holds
<1> QED
  BY <1>4, <1>5, <1>6, <1>7, <1>10, StoreLocal

LEMMA SaveSignalKeeps ==
  ASSUME StoreInv, NEW p \in Store!Process, Store!SaveSignal(p)
  PROVE  StoreInv'
<1>0. PICK h : h = Store!Home(p)
  OBVIOUS
<1>1. PICK j : j = [storeJob[p] EXCEPT !.at = "idle"]
  OBVIOUS
<1>2. storeJob[p] \in StoreJob /\ storeMem[p] \in ActiveRow /\ h \in Store!Place
  BY <1>0, StoreHere
<1>3. j \in StoreJob /\ j.row = storeJob[p].row /\ j.at = "idle"
  BY <1>1, <1>2 DEF StoreJob, StoreCall
<1>4. PICK sig : sig = Store!SignalOf(storeMem[p])
  OBVIOUS
<1>5. sig \in StoreSignal /\ sig.applied = storeMem[p].applied
  BY <1>2, <1>4 DEF StoreSignal, Store!SignalOf, ActiveRow
<1>6. /\ storeJob' = [storeJob EXCEPT ![p] = j] /\ storeJob[p].at = "saving"
      /\ storeSignal' = [storeSignal EXCEPT ![h] = sig] \/ storeSignal' = storeSignal
      /\ UNCHANGED <<storeKind, store, storeMem, storeRefresh, storeChanges, storeWritten,
                     storeLost>>
  BY <1>0, <1>1, <1>4 DEF Store!SaveSignal, Store!At, Store!Goto
<1>7. /\ StoreTypes' /\ storeJob'[p] = j
      /\ storeSignal'[h] = sig \/ storeSignal' = storeSignal
  BY <1>2, <1>3, <1>5, <1>6, StoreHere, ZenonT(60) DEF StoreTypes, StoreSignal
<1>8. StoreActs(p)
  BY <1>0, <1>6, StoreHere DEF StoreActs, StoreTypes
<1>9. Store!Home(p)' = h
  BY <1>0, <1>6 DEF Store!Home
<1>10. Names(store[h], storeMem[p]) /\ Names(store[h], j.row) /\ storeMem[p].requested # 0
  BY <1>0, <1>3, <1>6, StoreHere DEF Holds
<1>11. Holds(p)'
  BY <1>3, <1>6, <1>7, <1>9, <1>10 DEF Holds
<1>12. storeSignal'[h].applied \in 0 .. Len(store[h].versions)
  BY <1>0, <1>5, <1>7, <1>10, StoreHere DEF Kept, Names
<1>13. Names(store[Store!Home("worker")], storeRefresh.row)'
  BY <1>6, StoreHere DEF Store!Home
<1> QED
  BY <1>0, <1>6, <1>7, <1>8, <1>11, <1>12, <1>13, StoreUntouched DEF Store!At

LEMMA PatchKeeps ==
  ASSUME StoreInv, NEW p \in Store!Process, NEW patch \in Store!Patches, NEW promotes \in BOOLEAN,
         Store!Patch(p, patch, promotes)
  PROVE  StoreInv'
<1> DEFINE s == store[Store!Home(p)]
           k == storeChanges + 1
<1>1. PICK j : j = [at |-> IF Store!Refused(patch, promotes) THEN "refusing" ELSE "latest",
                    row |-> storeMem[p], latest |-> 0, patch |-> patch, stamp |-> k,
                    promotes |-> promotes]
  OBVIOUS
<1>2. storeMem[p] \in ActiveRow /\ k \in Nat
  BY StoreHere DEF StoreTypes
<1>3. j \in StoreJob /\ j.at \in {"refusing", "latest"}
  BY <1>1, <1>2 DEF StoreJob, StoreCall
<1>4. /\ storeJob' = [storeJob EXCEPT ![p] = j] /\ storeJob[p].at = "idle" /\ storeChanges' = k
      /\ UNCHANGED <<storeKind, store, storeSignal, storeMem, storeRefresh, storeWritten,
                     storeLost>>
  BY <1>1 DEF Store!Patch, Store!Begin, Store!At
<1>5. storeMem' = [storeMem EXCEPT ![p] = storeMem[p]] /\ storeMem'[p] = storeMem[p]
      /\ storeJob'[p] = j /\ s' = s
  BY <1>4, StoreHere DEF StoreTypes, Store!Home
<1>6. Names(s, storeMem[p]) /\ storeMem[p].requested # 0 /\ j.row = storeMem[p]
  BY <1>1, <1>4, StoreHere DEF Holds
<1>7. j.at = "latest" => j.patch \in Store!Patches /\ ~Store!Refused(j.patch, j.promotes)
  BY <1>1
<1>8. Holds(p)'
  BY <1>3, <1>5, <1>6, <1>7 DEF Holds
<1> QED
  BY <1>2, <1>3, <1>4, <1>5, <1>8, StoreLocal

LEMMA ReadLatestKeeps ==
  ASSUME StoreInv, NEW p \in Store!Process, Store!ReadLatest(p)
  PROVE  StoreInv'
<1> DEFINE s == store[Store!Home(p)]
           n == Len(s.versions)
<1>1. PICK j : j = [[storeJob[p] EXCEPT !.at = "creating"] EXCEPT !.latest = n]
  OBVIOUS
<1>2. storeJob[p] \in StoreJob /\ storeMem[p] \in ActiveRow /\ n \in Nat
  BY StoreHere
<1>3. /\ j \in StoreJob /\ j.at = "creating" /\ j.latest = n /\ j.row = storeJob[p].row
      /\ j.patch = storeJob[p].patch /\ j.promotes = storeJob[p].promotes
  BY <1>1, <1>2 DEF StoreJob, StoreCall
<1>4. /\ storeJob' = [storeJob EXCEPT ![p] = j] /\ storeJob[p].at = "latest"
      /\ UNCHANGED <<storeKind, store, storeSignal, storeMem, storeRefresh, storeChanges,
                     storeWritten, storeLost>>
  <2>1. /\ storeJob' = [storeJob EXCEPT ![p].at = "creating", ![p].latest = Store!LatestNumber(p)]
        /\ storeJob[p].at = "latest"
        /\ UNCHANGED <<storeKind, store, storeSignal, storeMem, storeRefresh, storeChanges,
                       storeWritten, storeLost>>
    BY DEF Store!ReadLatest, Store!At
  <2>2. Store!LatestNumber(p) = n
    BY NewestVersion
  <2>3. storeJob \in [Store!Process -> StoreJob]
    BY StoreHere DEF StoreTypes
  <2> QED
    BY <1>1, <2>1, <2>2, <2>3
<1>5. /\ storeMem' = [storeMem EXCEPT ![p] = storeMem[p]] /\ storeMem'[p] = storeMem[p]
      /\ storeJob'[p] = j /\ s' = s /\ storeChanges' \in Nat /\ storeKind' = storeKind
  BY <1>4, StoreHere DEF StoreTypes, Store!Home
<1>6. /\ Names(s, storeMem[p]) /\ Names(s, j.row) /\ storeMem[p].requested # 0
      /\ j.row.requested # 0 /\ j.patch \in Store!Patches
      /\ ~Store!Refused(j.patch, j.promotes)
  BY <1>3, <1>4, StoreHere DEF Holds
<1>7. Holds(p)'
  BY <1>2, <1>3, <1>5, <1>6 DEF Holds
<1> QED
  BY <1>2, <1>3, <1>4, <1>5, <1>7, StoreLocal

(* A patched configuration is one; it is live by the patch or was before. *)
LEMMA PatchedConfig ==
  ASSUME NEW config \in ConfigOf, NEW patch \in Store!Patches
  PROVE  /\ Store!Patched(config, patch) \in ConfigOf
         /\ Store!Patched(config, patch).mode = "live" =>
              \/ config.mode = "live"
              \/ "mode" \in DOMAIN patch /\ patch["mode"] = "live"
<1> DEFINE c == [f \in DOMAIN config |-> IF f \in DOMAIN patch THEN patch[f] ELSE config[f]]
<1>1. DOMAIN config = {"mode", "setting"} /\ config.mode \in {"paper", "live"}
      /\ config.setting \in {0, 1}
  BY DEF ConfigOf
<1>2. /\ "mode" \in DOMAIN patch => patch["mode"] \in {"paper", "live"}
      /\ "setting" \in DOMAIN patch => patch["setting"] \in {0, 1}
  <2>1. CASE patch \in [{"mode"} -> {"paper", "live"}]
    BY <2>1
  <2>2. CASE patch \in [{"setting"} -> {1}]
    BY <2>2
  <2> QED
    BY <2>1, <2>2 DEF Store!Patches
<1>3. /\ DOMAIN c = {"mode", "setting"}
      /\ c["mode"] = IF "mode" \in DOMAIN patch THEN patch["mode"] ELSE config["mode"]
      /\ c["setting"] = IF "setting" \in DOMAIN patch THEN patch["setting"] ELSE config["setting"]
  BY <1>1
<1>4. c = [mode |-> c["mode"], setting |-> c["setting"]]
  BY <1>3
<1>5. Store!Patched(config, patch) = c
  BY DEF Store!Patched
<1> QED
  BY <1>1, <1>2, <1>3, <1>4, <1>5 DEF ConfigOf

LEMMA CreateVersionKeeps ==
  ASSUME StoreInv, NEW p \in Store!Process, Store!CreateVersion(p)
  PROVE  StoreInv'
<1>0. PICK h : h = Store!Home(p)
  OBVIOUS
<1> DEFINE s == store[h]
           n == Len(s.versions)
           job == storeJob[p]
           base == s.versions[job.row.requested]
<1>1. PICK v : v = [number |-> job.latest + 1, previous |-> job.row.requested,
                    config |-> Store!Patched(base.config, job.patch), promoted |-> job.promotes]
  OBVIOUS
<1>a. PICK a : a = IF Store!NeedsRestart(job.patch) THEN job.row.applied ELSE n + 1
  OBVIOUS
<1>2. PICK m : m = [job.row EXCEPT !.requested = n + 1, !.stamp = job.stamp, !.applied = a]
  OBVIOUS
<1>3. PICK j : j = [[job EXCEPT !.at = "writing"] EXCEPT !.row = m]
  OBVIOUS
<1>4. PICK t : t = [versions |-> Append(s.versions, v), active |-> s.active, log |-> s.log]
  OBVIOUS
<1>5. /\ job \in StoreJob /\ storeMem[p] \in ActiveRow /\ n \in Nat /\ s \in StoreState
      /\ h \in Store!Place /\ job.row \in ActiveRow /\ job.latest \in Nat /\ job.stamp \in Nat
      /\ job.promotes \in BOOLEAN
  BY <1>0, StoreHere DEF StoreJob
<1>6. /\ job.at = "creating" /\ ~Store!NumberTaken(p, job.latest + 1)
      /\ UNCHANGED <<storeKind, storeSignal, storeRefresh, storeChanges, storeWritten, storeLost>>
      /\ storeMem' = [storeMem EXCEPT ![p] = m]
      /\ storeJob' = [storeJob EXCEPT ![p].at = "writing", ![p].row = m]
      /\ store' = [store EXCEPT ![h] = Store!WithVersion(s, v)]
  BY <1>0, <1>1, <1>a, <1>2 DEF Store!CreateVersion, Store!Versions, Store!Version, Store!At
<1>7. /\ job.row.requested \in 1 .. n /\ job.row.applied \in 0 .. n
      /\ job.patch \in Store!Patches /\ ~Store!Refused(job.patch, job.promotes)
      /\ IF storeKind = "postgres" THEN job.latest <= n ELSE job.latest = n
      /\ Derived(s.versions) /\ s.versions \in Seq(VersionOf)
  BY <1>0, <1>5, <1>6, StoreHere, SMTT(30) DEF Holds, Names, Kept, StoreState, ActiveRow
<1>8. job.latest = n
  <2>1. CASE storeKind = "postgres"
    <3>1. \A i \in 1 .. n : s.versions[i].number # job.latest + 1
      BY <1>0, <1>6, <2>1 DEF Store!NumberTaken, Store!Versions
    <3>2. \A i \in 1 .. n : s.versions[i].number = i
      BY <1>7 DEF Derived
    <3>3. job.latest + 1 \notin 1 .. n
      BY <3>1, <3>2
    <3> QED
      BY <1>5, <1>7, <2>1, <3>3
  <2> QED
    BY <1>7, <2>1
<1>9. base \in VersionOf
  BY <1>5, <1>7
<1>10. v \in VersionOf /\ v.number = n + 1 /\ v.previous \in 0 .. n
       /\ v.previous = job.row.requested /\ v.promoted = job.promotes
       /\ v.config = Store!Patched(base.config, job.patch)
  <2>1. base.config \in ConfigOf
    BY <1>9 DEF VersionOf
  <2>2. Store!Patched(base.config, job.patch) \in ConfigOf
    BY <1>7, <2>1, PatchedConfig, SMTT(30)
  <2> QED
    BY <1>1, <1>5, <1>7, <1>8, <2>2 DEF VersionOf, ActiveRow
<1>11. v.config.mode = "live" =>
         v.promoted \/ v.previous = 0 \/ s.versions[v.previous].config.mode = "live"
  <2>1. base.config \in ConfigOf
    BY <1>9 DEF VersionOf
  <2> QED
    BY <1>7, <1>10, <2>1, PatchedConfig, SMTT(30) DEF Store!Refused
<1>12. /\ Append(s.versions, v) \in Seq(VersionOf) /\ Derived(Append(s.versions, v))
       /\ Len(Append(s.versions, v)) = n + 1
  BY <1>7, <1>10, <1>11, VersionAdded
<1>13. /\ t \in StoreState /\ t.versions = Append(s.versions, v) /\ t.active = s.active
       /\ t.log = s.log
  <2>1. s.active \in ActiveRow /\ s.log \subseteq LogEntry
    BY <1>5 DEF StoreState
  <2> QED
    BY <1>4, <1>12, <2>1 DEF StoreState
<1>14. Store!WithVersion(s, v) = t
  <2>1. PICK versions, active, entries :
          s = [versions |-> versions, active |-> active, log |-> entries]
    BY <1>5 DEF StoreState
  <2>2. s.versions = versions /\ s.active = active /\ s.log = entries
    BY <2>1
  <2> QED
    BY <1>4, <2>1, <2>2, HistoryParts
<1>15. store' = [store EXCEPT ![h] = t] /\ store'[h] = t
  BY <1>5, <1>6, <1>14, StoreHere DEF StoreTypes
<1>16. /\ m \in ActiveRow /\ m.requested = n + 1 /\ m.stamp = job.stamp
       /\ m.applied = job.row.applied \/ m.applied = n + 1
  <2>1. a \in Nat /\ (a = job.row.applied \/ a = n + 1)
    BY <1>5, <1>a DEF ActiveRow
  <2> QED
    <3>1. PICK r : r = job.row
      OBVIOUS
    <3>2. r \in ActiveRow /\ job.stamp \in Nat /\ n + 1 \in Nat
      BY <1>5, <3>1
    <3>3. m = [r EXCEPT !.requested = n + 1, !.stamp = job.stamp, !.applied = a]
      BY <1>2, <3>1
    <3>4. m = [requested |-> n + 1, applied |-> a, kill |-> r.kill, stamp |-> job.stamp]
      BY <3>2, <3>3 DEF ActiveRow
    <3> QED
      BY <2>1, <3>1, <3>2, <3>4 DEF ActiveRow
<1>17. /\ j \in StoreJob /\ j.at = "writing" /\ j.row = m /\ j.stamp = job.stamp
  BY <1>3, <1>5, <1>16 DEF StoreJob, StoreCall
<1>18. storeJob' = [storeJob EXCEPT ![p] = j]
  <2>1. storeJob \in [Store!Process -> StoreJob]
    BY StoreHere DEF StoreTypes
  <2> QED
    BY <1>3, <1>6, <2>1
<1>19. storeJob'[p] = j /\ storeMem'[p] = m /\ Store!Home(p)' = h /\ storeChanges' \in Nat
  BY <1>0, <1>6, <1>18, StoreHere DEF StoreTypes, Store!Home
<1>20. Continues(s, t)
  BY <1>5, <1>12, <1>13 DEF Continues
<1>21. Kept(h)'
  <2>1. Kept(h) /\ s.active \in ActiveRow
    BY <1>0, StoreHere
  <2>2. Names(t, t.active) /\ (t.active = Store!NoRow \/ t.active.requested # 0)
    BY <1>5, <1>12, <1>13, <2>1, NamesStay DEF Kept
  <2>3. storeSignal'[h].applied \in 0 .. Len(t.versions)
    BY <1>5, <1>6, <1>12, <1>13, <2>1 DEF Kept
  <2>4. \A e \in t.log : e.accepted => e.stamp \in storeWritten'
    BY <1>6, <1>13, <2>1 DEF Kept
  <2>5. Logging(h) => Logging(h)'
    <3>1. \A q \in Store!Process :
            storeJob[q].at = "logging" => storeJob'[q] = storeJob[q] /\ Store!Home(q)' = Store!Home(q)
      BY <1>6, <1>18, StoreHere DEF Store!Home, StoreTypes
    <3> QED
      BY <1>13, <1>15, <3>1 DEF Logging, Store!At
  <2>6. t.active.stamp \notin storeLost' \cup {0} =>
          Logged(t, t.active.stamp) \/ Logging(h)'
    BY <1>6, <1>13, <2>1, <2>5 DEF Kept, Logged
  <2> QED
    <3>1. /\ Names(store'[h], store'[h].active)
          /\ store'[h].active = Store!NoRow \/ store'[h].active.requested # 0
          /\ storeSignal'[h].applied \in 0 .. Len(store'[h].versions)
      BY <1>15, <2>2, <2>3
    <3>2. Derived(store'[h].versions)
      BY <1>12, <1>13, <1>15
    <3>3. \A e \in store'[h].log : e.accepted => e.stamp \in storeWritten'
      BY <1>15, <2>4
    <3>4. store'[h].active.stamp \notin storeLost' \cup {0} =>
            Logged(store'[h], store'[h].active.stamp) \/ Logging(h)'
      BY <1>15, <2>6
    <3> QED
      BY <3>1, <3>2, <3>3, <3>4 DEF Kept
<1>22. Holds(p)'
  <2>1. Names(t, m) /\ m.requested # 0
    <3>1. Len(t.versions) = n + 1 /\ n \in Nat
      BY <1>7, <1>12, <1>13
    <3>2. job.row.applied \in 0 .. n
      BY <1>5, <1>7 DEF Names
    <3>3. m.requested \in 0 .. n + 1 /\ m.applied \in 0 .. n + 1 /\ m.requested # 0
      BY <1>16, <3>1, <3>2
    <3> QED
      BY <3>1, <3>3 DEF Names
  <2> QED
    BY <1>15, <1>16, <1>17, <1>19, <2>1 DEF Holds
<1>23. Kept(Store!Home(p))'
  BY <1>19, <1>21 DEF Kept
<1> QED
  BY <1>0, <1>6, <1>13, <1>15, <1>16, <1>17, <1>18, <1>19, <1>20, <1>22, <1>23, StoreWrites,
     ZenonT(60)

LEMMA SetKillKeeps ==
  ASSUME StoreInv, NEW p \in Store!Process, NEW kill \in BOOLEAN, Store!SetKill(p, kill)
  PROVE  StoreInv'
<1> DEFINE s == store[Store!Home(p)]
           k == storeChanges + 1
<1>1. PICK m : m = [storeMem[p] EXCEPT !.kill = kill, !.stamp = k,
                      !.applied = IF p = Store!Worker THEN @ ELSE storeMem[p].requested]
  OBVIOUS
<1>2. PICK j : j = [Store!Down EXCEPT !.at = "writing", !.row = m, !.stamp = k]
  OBVIOUS
<1>3. storeMem[p] \in ActiveRow /\ k \in Nat
  BY StoreHere DEF StoreTypes
<1>4. /\ m \in ActiveRow /\ m.requested = storeMem[p].requested /\ m.stamp = k
      /\ m.applied \in {storeMem[p].applied, storeMem[p].requested}
  BY <1>1, <1>3 DEF ActiveRow
<1>5. j \in StoreJob /\ j.at = "writing" /\ j.row = m /\ j.stamp = k
  BY <1>2, <1>3, <1>4, NoRowIsRow DEF StoreJob, StoreCall
<1>6. /\ storeJob' = [storeJob EXCEPT ![p] = j] /\ storeJob[p].at = "idle" /\ storeChanges' = k
      /\ storeMem' = [storeMem EXCEPT ![p] = m]
      /\ UNCHANGED <<storeKind, store, storeSignal, storeRefresh, storeWritten, storeLost>>
  <2>1. storeChanges' = k
    BY DEF Store!SetKill, Store!Begin
  <2> QED
    BY <1>1, <1>2, <2>1 DEF Store!SetKill, Store!Begin, Store!At
<1>7. storeMem'[p] = m /\ storeJob'[p] = j /\ s' = s
  BY <1>6, StoreHere DEF StoreTypes, Store!Home
<1>8. Names(s, m) /\ m.requested # 0
  BY <1>4, <1>6, StoreHere DEF Holds, Names
<1>9. Holds(p)'
  BY <1>4, <1>5, <1>7, <1>8 DEF Holds
<1> QED
  BY <1>3, <1>4, <1>5, <1>6, <1>9, StoreLocal

LEMMA WriteRowKeeps ==
  ASSUME StoreInv, NEW p \in Store!Process, Store!WriteRow(p)
  PROVE  StoreInv'
<1>0. PICK h : h = Store!Home(p)
  OBVIOUS
<1> DEFINE s == store[h]
           job == storeJob[p]
<1>1. PICK j : j = [job EXCEPT !.at = "logging"]
  OBVIOUS
<1>2. PICK t : t = [versions |-> s.versions, active |-> job.row, log |-> s.log]
  OBVIOUS
<1>3. /\ job \in StoreJob /\ job.row \in ActiveRow /\ storeMem[p] \in ActiveRow
      /\ s \in StoreState /\ h \in Store!Place /\ Len(s.versions) \in Nat
  BY <1>0, StoreHere DEF StoreJob
<1>4. /\ j \in StoreJob /\ j.at = "logging" /\ j.row = job.row /\ j.stamp = job.stamp
  BY <1>1, <1>3 DEF StoreJob, StoreCall
<1>5. /\ t \in StoreState /\ t.versions = s.versions /\ t.active = job.row /\ t.log = s.log
  BY <1>2, <1>3 DEF StoreState
<1>6. Store!WithRow(s, job.row) = t
  <2>1. PICK versions, active, entries :
          s = [versions |-> versions, active |-> active, log |-> entries]
    BY <1>3 DEF StoreState
  <2>2. s.versions = versions /\ s.active = active /\ s.log = entries
    BY <2>1
  <2> QED
    BY <1>2, <2>1, <2>2, HistoryParts
<1>7. /\ job.at = "writing" /\ storeJob' = [storeJob EXCEPT ![p] = j]
      /\ store' = [store EXCEPT ![h] = t] /\ storeWritten' = storeWritten \cup {job.stamp}
      /\ UNCHANGED <<storeKind, storeSignal, storeMem, storeRefresh, storeChanges, storeLost>>
  BY <1>0, <1>1, <1>6 DEF Store!WriteRow, Store!At, Store!Goto
<1>8. /\ store'[h] = t /\ storeJob'[p] = j /\ storeMem'[p] = storeMem[p]
      /\ storeMem' = [storeMem EXCEPT ![p] = storeMem[p]]
      /\ Store!Home(p)' = h /\ storeChanges' \in Nat
  BY <1>0, <1>3, <1>7, StoreHere DEF StoreTypes, Store!Home
<1>9. /\ Names(s, storeMem[p]) /\ Names(s, job.row) /\ storeMem[p].requested # 0
      /\ job.row.requested # 0 /\ job.row.stamp = job.stamp
  BY <1>0, <1>7, StoreHere DEF Holds
<1>10. Continues(s, t)
  BY <1>3, <1>5 DEF Continues
<1>11. Kept(h)'
  <2>1. Kept(h)
    BY <1>0, StoreHere
  <2>2. /\ Names(store'[h], store'[h].active) /\ store'[h].active.requested # 0
        /\ storeSignal'[h].applied \in 0 .. Len(store'[h].versions)
        /\ Derived(store'[h].versions)
    BY <1>5, <1>7, <1>8, <1>9, <2>1 DEF Kept, Names
  <2>3. \A e \in store'[h].log : e.accepted => e.stamp \in storeWritten'
    BY <1>5, <1>7, <1>8, <2>1 DEF Kept
  <2>4. Logging(h)'
    BY <1>4, <1>5, <1>8, <1>9 DEF Logging, Store!At
  <2> QED
    BY <2>2, <2>3, <2>4 DEF Kept
<1>12. Holds(p)'
  <2>1. Names(t, storeMem[p]) /\ Names(t, j.row)
    BY <1>4, <1>5, <1>9 DEF Names
  <2> QED
    BY <1>4, <1>7, <1>8, <1>9, <2>1 DEF Holds
<1>13. Kept(Store!Home(p))'
  BY <1>8, <1>11 DEF Kept
<1> QED
  BY <1>0, <1>3, <1>4, <1>5, <1>7, <1>8, <1>10, <1>12, <1>13, StoreWrites

LEMMA AppendLogKeeps ==
  ASSUME StoreInv, NEW p \in Store!Process, Store!AppendLog(p)
  PROVE  StoreInv'
<1>0. PICK h : h = Store!Home(p)
  OBVIOUS
<1> DEFINE s == store[h]
           job == storeJob[p]
<1>1. PICK j : j = [job EXCEPT !.at =
                      IF Store!At(p, "refusing") \/ Store!NeedsRestart(job.patch) THEN "idle"
                      ELSE IF p = Store!Worker THEN "boundary" ELSE "saving"]
  OBVIOUS
<1>2. PICK e : e = [stamp |-> job.stamp, version |-> job.row.requested,
                    accepted |-> job.at = "logging"]
  OBVIOUS
<1>3. PICK t : t = [versions |-> s.versions, active |-> s.active, log |-> s.log \cup {e}]
  OBVIOUS
<1>4. /\ job \in StoreJob /\ job.row \in ActiveRow /\ storeMem[p] \in ActiveRow
      /\ job.stamp \in Nat /\ job.row.requested \in Nat
      /\ s \in StoreState /\ h \in Store!Place /\ Len(s.versions) \in Nat
  BY <1>0, StoreHere DEF StoreJob, ActiveRow
<1>5. /\ j \in StoreJob /\ j.row = job.row /\ j.stamp = job.stamp
      /\ j.at \in {"idle", "saving", "boundary"} /\ (j.at = "boundary" => job.at # "refusing")
  BY <1>1, <1>4 DEF StoreJob, StoreCall, Store!At
<1>6. e \in LogEntry /\ e.stamp = job.stamp /\ (e.accepted <=> job.at = "logging")
  BY <1>2, <1>4 DEF LogEntry
<1>7. /\ t \in StoreState /\ t.versions = s.versions /\ t.active = s.active
      /\ t.log = s.log \cup {e}
  BY <1>3, <1>4, <1>6 DEF StoreState
<1>8. Store!WithEntry(s, e) = t
  <2>1. PICK versions, active, entries :
          s = [versions |-> versions, active |-> active, log |-> entries]
    BY <1>4 DEF StoreState
  <2>2. s.versions = versions /\ s.active = active /\ s.log = entries
    BY <2>1
  <2> QED
    BY <1>3, <2>1, <2>2, HistoryParts
<1>9. /\ job.at \in {"logging", "refusing"} /\ storeJob' = [storeJob EXCEPT ![p] = j]
      /\ store' = [store EXCEPT ![h] = t]
      /\ UNCHANGED <<storeKind, storeSignal, storeMem, storeRefresh, storeChanges, storeWritten,
                     storeLost>>
  BY <1>0, <1>1, <1>2, <1>8 DEF Store!AppendLog, Store!At, Store!Goto, Store!Entry
<1>10. /\ store'[h] = t /\ storeJob'[p] = j /\ storeMem'[p] = storeMem[p]
       /\ storeMem' = [storeMem EXCEPT ![p] = storeMem[p]]
       /\ Store!Home(p)' = h /\ storeChanges' \in Nat
  BY <1>0, <1>4, <1>9, StoreHere DEF StoreTypes, Store!Home
<1>11. /\ Names(s, storeMem[p]) /\ Names(s, job.row) /\ storeMem[p].requested # 0
       /\ job.row.requested # 0 /\ (job.at = "logging" => job.stamp \in storeWritten)
  BY <1>0, <1>9, StoreHere DEF Holds
<1>12. Continues(s, t)
  BY <1>4, <1>7 DEF Continues
<1>13. Logged(t, job.stamp) \/ job.at # "logging"
  BY <1>6, <1>7 DEF Logged
<1>14. Kept(h)'
  <2>1. Kept(h)
    BY <1>0, StoreHere
  <2>2. /\ Names(store'[h], store'[h].active)
        /\ store'[h].active = Store!NoRow \/ store'[h].active.requested # 0
        /\ storeSignal'[h].applied \in 0 .. Len(store'[h].versions)
        /\ Derived(store'[h].versions)
    BY <1>7, <1>9, <1>10, <2>1 DEF Kept, Names
  <2>3. \A x \in store'[h].log : x.accepted => x.stamp \in storeWritten'
    BY <1>6, <1>7, <1>9, <1>10, <1>11, <2>1 DEF Kept
  <2>4. Logging(h) => Logging(h)' \/ Logged(t, t.active.stamp)
    <3> SUFFICES ASSUME Logging(h) PROVE Logging(h)' \/ Logged(t, t.active.stamp)
      OBVIOUS
    <3>1. PICK q \in Store!Process :
            Store!Home(q) = h /\ storeJob[q].at = "logging" /\ storeJob[q].stamp = s.active.stamp
      BY DEF Logging, Store!At
    <3>2. CASE q = p
      BY <1>7, <1>13, <3>1, <3>2
    <3>3. CASE q # p
      <4>1. storeJob'[q] = storeJob[q] /\ Store!Home(q)' = h
        BY <1>9, <3>1, <3>3, StoreHere DEF StoreTypes, Store!Home
      <4> QED
        BY <1>7, <1>10, <3>1, <4>1 DEF Logging, Store!At
    <3> QED
      BY <3>2, <3>3
  <2>5. Logged(s, s.active.stamp) => Logged(t, t.active.stamp)
    BY <1>7 DEF Logged
  <2>6. store'[h].active.stamp \notin storeLost' \cup {0} =>
          Logged(store'[h], store'[h].active.stamp) \/ Logging(h)'
    BY <1>7, <1>9, <1>10, <2>1, <2>4, <2>5 DEF Kept
  <2> QED
    BY <2>2, <2>3, <2>6 DEF Kept
<1>15. Holds(p)'
  <2>1. Names(t, storeMem[p]) /\ Names(t, j.row)
    BY <1>5, <1>7, <1>11 DEF Names
  <2> QED
    BY <1>5, <1>9, <1>10, <1>11, <1>13, <2>1 DEF Holds
<1>16. Kept(Store!Home(p))'
  BY <1>10, <1>14 DEF Kept
<1> QED
  BY <1>0, <1>4, <1>5, <1>7, <1>9, <1>10, <1>12, <1>15, <1>16, StoreWrites

LEMMA BoundaryKeeps ==
  ASSUME StoreInv, NEW p \in Store!Process, Store!Boundary(p)
  PROVE  StoreInv'
<1>0. PICK h : h = Store!Home(p)
  OBVIOUS
<1> DEFINE s == store[h]
           job == storeJob[p]
<1>1. /\ job \in StoreJob /\ job.row \in ActiveRow /\ storeMem[p] \in ActiveRow
      /\ s \in StoreState /\ h \in Store!Place /\ Len(s.versions) \in Nat
  BY <1>0, StoreHere DEF StoreJob
<1>2. /\ job.at = "boundary" /\ Store!Home(p)' = h /\ storeChanges' \in Nat
      /\ UNCHANGED <<storeKind, storeSignal, storeRefresh, storeChanges, storeWritten, storeLost>>
  BY <1>0, StoreHere DEF Store!Boundary, Store!At, Store!Home, StoreTypes
<1>3. /\ Names(s, storeMem[p]) /\ Names(s, job.row) /\ storeMem[p].requested # 0
      /\ Logged(s, job.stamp)
  BY <1>0, <1>2, StoreHere DEF Holds
<1>4. CASE storeMem[p].stamp # job.stamp
  <2>1. PICK j : j = [job EXCEPT !.at = "idle"]
    OBVIOUS
  <2>2. j \in StoreJob /\ j.at = "idle" /\ j.row = job.row
    BY <1>1, <2>1 DEF StoreJob, StoreCall
  <2>3. storeJob' = [storeJob EXCEPT ![p] = j] /\ UNCHANGED <<storeMem, store>>
    BY <1>4, <2>1 DEF Store!Boundary, Store!Goto
  <2>4. /\ storeMem' = [storeMem EXCEPT ![p] = storeMem[p]]
        /\ storeJob'[p] = j
    BY <2>3, StoreHere DEF StoreTypes
  <2>5. Holds(p)'
    BY <1>2, <1>3, <2>2, <2>3, <2>4 DEF Holds
  <2> QED
    BY <1>1, <1>2, <2>2, <2>3, <2>4, <2>5, StoreLocal
<1>5. CASE storeMem[p].stamp = job.stamp
  <2>1. PICK j : j = [job EXCEPT !.at = "saving"]
    OBVIOUS
  <2>2. j \in StoreJob /\ j.at = "saving" /\ j.row = job.row
    BY <1>1, <2>1 DEF StoreJob, StoreCall
  <2>3. PICK m : m = [storeMem[p] EXCEPT !.applied = storeMem[p].requested]
    OBVIOUS
  <2>4. /\ m \in ActiveRow /\ m.requested = storeMem[p].requested /\ m.applied = m.requested
        /\ m.stamp = storeMem[p].stamp
    BY <1>1, <2>3 DEF ActiveRow
  <2>5. PICK t : t = [versions |-> s.versions, active |-> m, log |-> s.log]
    OBVIOUS
  <2>6. t \in StoreState /\ t.versions = s.versions /\ t.active = m /\ t.log = s.log
    BY <1>1, <2>4, <2>5 DEF StoreState
  <2>7. Store!WithRow(s, m) = t
    <3>1. PICK versions, active, entries :
            s = [versions |-> versions, active |-> active, log |-> entries]
      BY <1>1 DEF StoreState
    <3>2. s.versions = versions /\ s.active = active /\ s.log = entries
      BY <3>1
    <3> QED
      BY <2>5, <3>1, <3>2, HistoryParts
  <2>8. storeMem' = [storeMem EXCEPT ![p] = m] /\ storeMem'[p] = m
    <3>1. storeMem' = [storeMem EXCEPT ![p].applied = storeMem[p].requested]
      BY <1>5 DEF Store!Boundary
    <3> QED
      BY <2>3, <3>1, StoreHere DEF StoreTypes
  <2>9. /\ storeJob' = [storeJob EXCEPT ![p] = j] /\ storeJob'[p] = j
        /\ store' = [store EXCEPT ![h] = t] /\ store'[h] = t
    <3>1. storeJob' = [storeJob EXCEPT ![p] = j]
      BY <1>5, <2>1 DEF Store!Boundary, Store!Goto
    <3>2. store' = [store EXCEPT ![h] = Store!WithRow(s, storeMem'[p])]
      BY <1>0, <1>5 DEF Store!Boundary
    <3> QED
      BY <1>1, <2>7, <2>8, <3>1, <3>2, StoreHere DEF StoreTypes
  <2>10. Names(t, m) /\ m.requested # 0 /\ Names(t, j.row) /\ Logged(t, m.stamp)
    BY <1>3, <1>5, <2>2, <2>4, <2>6 DEF Names, Logged
  <2>11. Kept(h)'
    <3>1. Kept(h)
      BY <1>0, StoreHere
    <3>2. /\ Names(store'[h], store'[h].active) /\ store'[h].active.requested # 0
          /\ storeSignal'[h].applied \in 0 .. Len(store'[h].versions)
          /\ Derived(store'[h].versions)
          /\ \A x \in store'[h].log : x.accepted => x.stamp \in storeWritten'
          /\ Logged(store'[h], store'[h].active.stamp)
      BY <1>2, <2>6, <2>9, <2>10, <3>1 DEF Kept
    <3> QED
      BY <3>2 DEF Kept
  <2>12. Holds(p)'
    BY <1>2, <2>2, <2>8, <2>9, <2>10 DEF Holds
  <2>13. Kept(Store!Home(p))' /\ Continues(s, t)
    BY <1>1, <1>2, <2>6, <2>11 DEF Kept, Continues
  <2> QED
    BY <1>0, <1>2, <2>2, <2>4, <2>6, <2>8, <2>9, <2>12, <2>13, StoreWrites
<1> QED
  BY <1>4, <1>5

LEMMA CallFailsKeeps ==
  ASSUME StoreInv, NEW p \in Store!Process, Store!CallFails(p)
  PROVE  StoreInv'
<1> DEFINE s == store[Store!Home(p)]
           job == storeJob[p]
<1>1. PICK j : j = [job EXCEPT !.at = IF job.at \in {"seeding", "loading"} THEN "down" ELSE "idle"]
  OBVIOUS
<1>2. job \in StoreJob /\ storeMem[p] \in ActiveRow
  BY StoreHere
<1>3. /\ j \in StoreJob /\ j.row = job.row
      /\ j.at = IF job.at \in {"seeding", "loading"} THEN "down" ELSE "idle"
  BY <1>1, <1>2 DEF StoreJob, StoreCall
<1>4. /\ job.at \in {"seeding", "loading", "latest", "creating", "writing", "logging", "refusing"}
      /\ storeJob' = [storeJob EXCEPT ![p] = j]
      /\ storeLost' = IF job.at = "logging" THEN storeLost \cup {job.stamp} ELSE storeLost
      /\ UNCHANGED <<storeKind, store, storeSignal, storeMem, storeRefresh, storeChanges,
                     storeWritten>>
  BY <1>1 DEF Store!CallFails, Store!At, Store!Goto
<1>5. /\ storeMem' = [storeMem EXCEPT ![p] = storeMem[p]] /\ storeMem'[p] = storeMem[p]
      /\ storeJob'[p] = j /\ s' = s /\ storeChanges' \in Nat
  BY <1>4, StoreHere DEF StoreTypes, Store!Home
<1>6. /\ Names(s, storeMem[p]) /\ Names(s, j.row)
      /\ j.at = "idle" => storeMem[p].requested # 0
  BY <1>3, <1>4, StoreHere DEF Holds
<1>7. Holds(p)'
  BY <1>3, <1>5, <1>6 DEF Holds
<1>8. storeLost \subseteq storeLost' /\ (job.at = "logging" => job.stamp \in storeLost')
  BY <1>4
<1> QED
  BY <1>2, <1>3, <1>4, <1>5, <1>7, <1>8, StoreLocal

LEMMA CrashKeeps ==
  ASSUME StoreInv, NEW p \in Store!Process, Store!Crash(p)
  PROVE  StoreInv'
<1>0. PICK h : h = Store!Home(p)
  OBVIOUS
<1>1. /\ storeJob' = [storeJob EXCEPT ![p] = Store!Down]
      /\ storeMem' = [storeMem EXCEPT ![p] = Store!NoRow]
      /\ storeRefresh' = IF p = "worker" THEN Store!NoRefresh ELSE storeRefresh
      /\ store' = IF storeKind = "memory" THEN [store EXCEPT ![p] = Store!Empty] ELSE store
      /\ storeSignal' = IF storeKind = "memory" THEN [storeSignal EXCEPT ![p] = Store!NoSignal]
                        ELSE storeSignal
      /\ storeLost' = IF storeJob[p].at = "logging" THEN storeLost \cup {storeJob[p].stamp}
                      ELSE storeLost
      /\ UNCHANGED <<storeKind, storeChanges, storeWritten>>
  BY DEF Store!Crash, Store!At, Store!Worker
<1>2. /\ Store!Empty \in StoreState /\ Store!Empty.active = Store!NoRow
      /\ Store!Empty.versions = <<>> /\ Len(Store!Empty.versions) = 0 /\ Store!Empty.log = {}
      /\ Store!NoSignal \in StoreSignal /\ Store!NoSignal.applied = 0
  BY EmptyStore
<1>3. /\ storeJob'[p] = Store!Down /\ storeMem'[p] = Store!NoRow /\ Store!Home(p)' = h
      /\ storeKind = "memory" => h = p
      /\ h \in Store!Place /\ p \in Store!Place
  BY <1>0, <1>1, StoreHere DEF StoreTypes, Store!Home, Store!Place
<1>4. /\ StoreTypes'
      /\ storeKind = "memory" =>
           store'[h] = Store!Empty /\ storeSignal'[h] = Store!NoSignal
  BY <1>1, <1>2, <1>3, NoRowIsRow, StoreHere DEF StoreTypes, StoreSignal
<1>5. StoreActs(p)
  BY <1>0, <1>1, <1>3, StoreHere DEF StoreActs, StoreTypes
<1>6. Len(store'[h].versions) \in Nat
  BY <1>3, <1>4 DEF StoreTypes, StoreState
<1>7. Holds(p)'
  <2>1. Names(store'[h], Store!NoRow)
    BY <1>6, NoRowIsRow DEF Names
  <2> QED
    BY <1>3, <2>1, NoRowIsRow DEF Holds
<1>8. Names(store[Store!Home("worker")], storeRefresh.row)'
  <2> DEFINE w == Store!Home("worker")
  <2>1. w' = w /\ w \in Store!Place
    BY <1>1, HomeIsPlace DEF Store!Home
  <2>2. Len(store'[w].versions) \in Nat
    BY <1>4, <2>1 DEF StoreTypes, StoreState
  <2>3. CASE p = "worker"
    <3>1. storeRefresh'.row = Store!NoRow
      BY <1>1, <2>3, NoRowIsRow
    <3>2. Names(store'[w], Store!NoRow)
      BY <2>2, NoRowIsRow DEF Names
    <3> QED
      BY <2>1, <3>1, <3>2
  <2>4. CASE p # "worker"
    <3>1. store'[w] = store[w] /\ storeRefresh' = storeRefresh
      BY <1>1, <2>1, <2>4, StoreHere DEF StoreTypes, Store!Home
    <3> QED
      BY <2>1, <3>1, StoreHere
  <2> QED
    BY <2>3, <2>4
<1>9. CASE storeKind = "memory"
  <2>1. Kept(h)'
    <3>1. /\ Names(Store!Empty, Store!Empty.active) /\ Derived(Store!Empty.versions)
          /\ storeSignal'[h].applied \in 0 .. Len(Store!Empty.versions)
      BY <1>2, <1>4, <1>9, NoRowIsRow DEF Names, Derived
    <3> QED
      BY <1>2, <1>4, <1>9, <3>1, NoRowIsRow DEF Kept
  <2>2. Kept(Store!Home(p))'
    BY <1>3, <2>1 DEF Kept
  <2> QED
    BY <1>4, <1>5, <1>7, <1>8, <1>9, <2>2, StoreOthers
<1>10. CASE storeKind # "memory"
  <2>1. /\ store' = store
        /\ storeSignal'[Store!Home(p)].applied \in 0 .. Len(store[Store!Home(p)].versions)
    BY <1>1, <1>10, StoreHere DEF Kept
  <2>2. storeJob[p].at = "logging" => storeJob[p].stamp \in storeLost'
    BY <1>1
  <2> QED
    BY <1>4, <1>5, <1>7, <1>8, <2>1, <2>2, StoreUntouched DEF Store!At
<1> QED
  BY <1>9, <1>10

LEMMA RefreshKeeps ==
  ASSUME StoreInv,
         Store!RefreshReads \/ Store!RefreshLoads \/ Store!RefreshSaves \/ Store!RefreshFails
  PROVE  StoreInv'
<1> DEFINE p == "worker"
           h == Store!Home(p)
           s == store[h]
           row == storeRefresh.row
<1>1. /\ p \in Store!Process /\ h \in Store!Place /\ s \in StoreState
      /\ storeMem[p] \in ActiveRow /\ row \in ActiveRow
      /\ Names(s, storeMem[p]) /\ Names(s, row) /\ Names(s, s.active) /\ Holds(p)
      /\ s.active \in ActiveRow /\ storeSignal[h].applied \in 0 .. Len(s.versions)
      /\ Len(s.versions) \in Nat
  <2>1. p \in Store!Process
    BY HomeIsPlace
  <2> QED
    BY <2>1, StoreHere DEF Holds, Kept, StoreTypes
<1>2. /\ UNCHANGED <<storeKind, store, storeJob, storeChanges, storeWritten, storeLost>>
      /\ h' = h /\ s' = s
  BY DEF Store!RefreshReads, Store!RefreshLoads, Store!RefreshSaves, Store!RefreshFails,
         Store!Home
<1>3. ASSUME StoreTypes', \A q \in Store!Process : q # p => storeMem'[q] = storeMem[q],
             \A g \in Store!Place : g # h => storeSignal'[g] = storeSignal[g],
             storeSignal'[h].applied \in 0 .. Len(s.versions),
             Names(s, storeRefresh'.row), Names(s, storeMem'[p]),
             storeMem'[p] = storeMem[p] \/ storeMem'[p].requested # 0
      PROVE  StoreInv'
  <2>1. StoreActs(p)
    BY <1>2, <1>3 DEF StoreActs
  <2>2. Holds(p)'
    BY <1>1, <1>2, <1>3 DEF Holds
  <2>3. Names(store[Store!Home("worker")], storeRefresh.row)'
    BY <1>2, <1>3
  <2> QED
    BY <1>1, <1>2, <1>3, <2>1, <2>2, <2>3, StoreUntouched
<1>4. CASE Store!RefreshReads
  <2>1. /\ storeRefresh' = [at |-> IF s.active = storeMem[p] THEN "saving" ELSE "loading",
                            row |-> s.active]
        /\ UNCHANGED <<storeSignal, storeMem>>
    BY <1>4 DEF Store!RefreshReads, Store!Active, Store!Worker
  <2>2. StoreTypes' /\ storeRefresh'.row = s.active
    BY <1>1, <1>2, <2>1 DEF StoreInv, StoreTypes
  <2> QED
    BY <1>1, <1>3, <2>1, <2>2
<1>5. CASE Store!RefreshLoads
  <2>1. CASE Store!Loads(p, row.requested)
    <3>1. /\ storeRefresh' = [storeRefresh EXCEPT !.at = "saving"]
          /\ storeMem' = [storeMem EXCEPT ![p] = row] /\ storeSignal' = storeSignal
      BY <1>5, <2>1 DEF Store!RefreshLoads, Store!Worker
    <3>2. StoreTypes' /\ storeRefresh'.row = row /\ storeMem'[p] = row
      BY <1>1, <1>2, <3>1 DEF StoreInv, StoreTypes
    <3>3. row.requested # 0
      BY <1>1, <2>1 DEF Store!Loads
    <3> QED
      BY <1>1, <1>3, <3>1, <3>2, <3>3
  <2>2. CASE ~Store!Loads(p, row.requested)
    <3>1. storeRefresh' = Store!NoRefresh /\ UNCHANGED <<storeSignal, storeMem>>
      BY <1>5, <2>2 DEF Store!RefreshLoads, Store!Worker
    <3>2. StoreTypes' /\ Names(s, storeRefresh'.row)
      BY <1>1, <1>2, <3>1, NoRowIsRow DEF StoreInv, StoreTypes, Names
    <3> QED
      BY <1>1, <1>3, <3>1, <3>2
  <2> QED
    BY <2>1, <2>2
<1>6. CASE Store!RefreshSaves
  <2>1. PICK sig : sig = Store!SignalOf(storeMem[p])
    OBVIOUS
  <2>2. sig \in StoreSignal /\ sig.applied = storeMem[p].applied
    BY <1>1, <2>1 DEF StoreSignal, Store!SignalOf, ActiveRow
  <2>3. /\ storeRefresh' = Store!NoRefresh /\ storeMem' = storeMem
        /\ storeSignal' = [storeSignal EXCEPT ![h] = sig]
    BY <1>6, <2>1 DEF Store!RefreshSaves, Store!Worker
  <2>4. StoreTypes' /\ Names(s, storeRefresh'.row) /\ storeSignal'[h] = sig
    BY <1>1, <1>2, <2>2, <2>3, NoRowIsRow DEF StoreInv, StoreTypes, StoreSignal, Names
  <2>5. \A g \in Store!Place : g # h => storeSignal'[g] = storeSignal[g]
    BY <2>3 DEF StoreInv, StoreTypes
  <2>6. sig.applied \in 0 .. Len(s.versions)
    BY <1>1, <2>2 DEF Names
  <2> QED
    BY <1>1, <1>3, <2>3, <2>4, <2>5, <2>6
<1>7. CASE Store!RefreshFails
  <2>1. storeRefresh' = Store!NoRefresh /\ UNCHANGED <<storeSignal, storeMem>>
    BY <1>7 DEF Store!RefreshFails
  <2>2. StoreTypes' /\ Names(s, storeRefresh'.row)
    BY <1>1, <1>2, <2>1, NoRowIsRow DEF StoreInv, StoreTypes, Names
  <2> QED
    BY <1>1, <1>3, <2>1, <2>2
<1> QED
  BY <1>4, <1>5, <1>6, <1>7

LEMMA StoreStep ==
  ASSUME StoreInv, [Store!Next]_(Store!vars)
  PROVE  StoreInv'
<1>1. ASSUME NEW p \in Store!Process, Store!JobStep(p) PROVE StoreInv'
  BY <1>1, BootReadsKeeps, SeedKeeps, LoadVersionsKeeps, SaveSignalKeeps, ReadLatestKeeps,
     CreateVersionKeeps, WriteRowKeeps, AppendLogKeeps, BoundaryKeeps DEF Store!JobStep
<1>2. ASSUME NEW p \in Store!Process, Store!CallFails(p) \/ Store!Crash(p) PROVE StoreInv'
  BY <1>2, CallFailsKeeps, CrashKeeps
<1>3. ASSUME NEW p \in Store!Process, NEW patch \in Store!Patches, NEW promotes \in BOOLEAN,
             Store!Patch(p, patch, promotes)
      PROVE  StoreInv'
  BY <1>3, PatchKeeps
<1>4. ASSUME NEW p \in Store!Process, NEW kill \in BOOLEAN, Store!SetKill(p, kill) PROVE StoreInv'
  BY <1>4, SetKillKeeps
<1>5. ASSUME UNCHANGED Store!vars PROVE StoreInv'
  <2>1. /\ storeKind' = storeKind /\ store' = store /\ storeSignal' = storeSignal
        /\ storeMem' = storeMem /\ storeJob' = storeJob /\ storeRefresh' = storeRefresh
        /\ storeChanges' = storeChanges /\ storeWritten' = storeWritten /\ storeLost' = storeLost
    BY <1>5 DEF Store!vars
  <2>2. StoreTypes'
    BY <2>1 DEF StoreInv, StoreTypes
  <2>3. "worker" \in Store!Process /\ StoreActs("worker")
    BY <2>1, HomeIsPlace DEF StoreActs
  <2>4. Holds("worker") /\ Holds("worker")'
    BY <2>1, <2>3, StoreHere DEF Holds, Store!Home, Logged
  <2>5. storeSignal'[Store!Home("worker")].applied
          \in 0 .. Len(store[Store!Home("worker")].versions)
    BY <2>1, <2>3, StoreHere DEF Kept
  <2>6. Names(store[Store!Home("worker")], storeRefresh.row)'
    BY <2>1, <2>3, StoreHere DEF Store!Home
  <2> QED
    BY <2>1, <2>2, <2>3, <2>4, <2>5, <2>6, StoreUntouched
<1> QED
  BY <1>1, <1>2, <1>3, <1>4, <1>5, RefreshKeeps DEF Store!Next

(* Whoever wrote last and wherever a writer failed or died, the store tells *)
(* the truth about the versions, the record and the log (ConfigStore says   *)
(* what that means), for any instances of the control service.              *)
THEOREM HistoryAlwaysTrue == Store!Spec => []HistoryTrue
<1>1. StoreInv => HistoryTrue
  <2> SUFFICES ASSUME StoreInv, NEW h \in Store!Place
               PROVE  LET s == store[h]
                          ids == 1 .. Len(s.versions)
                          live(i) == s.versions[i].config.mode = "live"
                      IN /\ {s.active.requested, s.active.applied, storeSignal[h].applied}
                              \subseteq ids \cup {0}
                         /\ \A i, j \in ids :
                              s.versions[i].number = s.versions[j].number => i = j
                         /\ \A i \in ids :
                              LET v == s.versions[i] IN
                              /\ v.previous < i
                              /\ live(i) => v.promoted \/ v.previous = 0 \/ live(v.previous)
                         /\ \A e \in s.log : e.accepted => e.stamp \in storeWritten
                         /\ s.active.stamp \notin storeLost \cup {0}
                              => \/ \E e \in s.log : e.stamp = s.active.stamp /\ e.accepted
                                 \/ \E p \in Store!Process :
                                      /\ Store!At(p, "logging")
                                      /\ storeJob[p].stamp = s.active.stamp
    BY DEF HistoryTrue, Store!HistoryTrue
  <2>1. Kept(h) /\ Len(store[h].versions) \in Nat
    BY DEF StoreInv, StoreTypes, StoreState
  <2>2. {store[h].active.requested, store[h].active.applied, storeSignal[h].applied}
          \subseteq 1 .. Len(store[h].versions) \cup {0}
    BY <2>1 DEF Kept, Names
  <2>3. Derived(store[h].versions)
    BY <2>1 DEF Kept
  <2>4. \A e \in store[h].log : e.accepted => e.stamp \in storeWritten
    BY <2>1 DEF Kept
  <2>5. store[h].active.stamp \notin storeLost \cup {0}
          => \/ \E e \in store[h].log : e.stamp = store[h].active.stamp /\ e.accepted
             \/ \E p \in Store!Process :
                  Store!At(p, "logging") /\ storeJob[p].stamp = store[h].active.stamp
    BY <2>1 DEF Kept, Logged, Logging
  <2> QED
    BY <2>2, <2>3, <2>4, <2>5 DEF Derived
<1> QED
  BY <1>1, StoreInit, StoreStep, PTL DEF Store!Spec

-----------------------------------------------------------------------------
(* The backup and its restore.  What the transaction has deleted and put    *)
(* in place is compared with the tables as the services go on writing them. *)

BackupRow == [key : Nat, rev : Nat, ref : Nat]
BackupRows == [Backup!Table -> SUBSET BackupRow]
SchemaStatus == {"ready", "migration_required"}
Unrestored == {"none", "not_ready", "refused", "failed"}

BackupTypes ==
  /\ db \in BackupRows
  /\ dbSchema \in SchemaStatus
  /\ dbJob \in [name : DOMAIN Backup!Jobs \cup {"none"}, at : Nat, made : Nat]
  /\ dbJob # Backup!NoJob =>
       dbJob.name # "none" /\ dbJob.at \in 1 .. Len(Backup!Jobs[dbJob.name])
  /\ dbMem \in Nat /\ dbWrites \in Nat
  /\ dbOp \in [pc : {"idle", "capturing", "deleting", "inserting", "recapturing"}, at : Nat,
               rows : BackupRows, schema : SchemaStatus \cup {"none"}, gone : BackupRows,
               put : BackupRows]
  /\ dbFile \in [rows : BackupRows, schema : SchemaStatus \cup {"none"}]
  /\ dbOutcome \in Unrestored \cup {"restored"} \cup Backup!Statuses
  /\ dbFaults \in Nat /\ dbTorn \in BOOLEAN /\ dbRaced \in BOOLEAN

HasFile == dbFile.schema # "none"

(* What the services write next keeps the tables sound. *)
WritesSound ==
  dbOutcome \in Unrestored =>
    /\ Backup!Sound(db)
    /\ dbMem \in Backup!Keys(db["versions"])
    /\ dbJob.name = "patch" /\ dbJob.at >= 2 => dbJob.made \in Backup!Keys(db["versions"])
EventsOfAlerts == \A e \in db["events"] : e.ref \in Backup!Keys(db["alerts"])

(* The tables captured so far are as they were. *)
Captured ==
  \A i \in 1 .. 9 : i < dbOp.at => dbOp.rows[Backup!CaptureOrder[i]] = db[Backup!CaptureOrder[i]]

Capturing ==
  dbOp.pc = "capturing" =>
    /\ dbFile = Backup!NoFile /\ dbOutcome = "none" /\ dbOp.schema # "none"
    /\ dbTorn \/ Captured

(* The rows that stay or are put in place have their alerts. *)
Stay(t) == db[t] \ dbOp.gone[t]
EventsCovered ==
  /\ \A e \in Stay("events") : e.ref \in Backup!Keys(Stay("alerts"))
  /\ \A e \in dbOp.put["events"] : e.ref \in Backup!Keys(dbOp.put["alerts"] \cup Stay("alerts"))

Restoring ==
  dbOp.pc \in {"deleting", "inserting"} =>
    /\ HasFile /\ dbOutcome = "none" /\ (dbFaults = 0 => dbSchema = "ready")
    /\ dbOp.pc = "deleting" =>
         /\ dbOp.at \in 1 .. 9 /\ dbOp.put = Backup!NoRows
         /\ dbOp.at > 4 => EventsCovered
         /\ dbRaced \/ \A i \in 1 .. 9 : i < dbOp.at => Stay(Backup!DeleteOrder[i]) = {}
    /\ dbOp.pc = "inserting" =>
         /\ EventsCovered
         /\ dbRaced \/ \A t \in Backup!Table : Stay(t) = {}
         /\ \A i \in 1 .. 9 :
              dbOp.put[Backup!RestoreOrder[i]] =
                IF i < dbOp.at THEN dbFile.rows[Backup!RestoreOrder[i]] ELSE {}

Recapturing ==
  dbOp.pc = "recapturing" =>
    /\ dbOutcome = "restored" /\ (dbFaults = 0 => dbOp.schema = "ready")
    /\ dbRaced \/ Captured

FileSound ==
  /\ HasFile \/ dbFile = Backup!NoFile
  /\ HasFile => dbTorn \/ Backup!Sound(dbFile.rows)
  /\ dbOutcome # "none" => HasFile
  /\ dbOp.at # 0

BackupInv ==
  /\ BackupTypes /\ WritesSound /\ EventsOfAlerts
  /\ Capturing /\ Restoring /\ Recapturing /\ FileSound
  /\ RestoreFaithful

LEMMA TableNames ==
  /\ Backup!Table = {"versions", "active", "log", "visibility", "requests", "alerts", "events",
                     "audits", "promotions"}
  /\ Len(Backup!CaptureOrder) = 9 /\ Len(Backup!DeleteOrder) = 9
  /\ Backup!RestoreOrder = Backup!CaptureOrder
  /\ \A i \in 1 .. 9 : Backup!CaptureOrder[i] \in Backup!Table
  /\ \A i \in 1 .. 9 : Backup!DeleteOrder[i] \in Backup!Table
<1>1. DOMAIN Backup!CaptureOrder = 1 .. 9 /\ Len(Backup!CaptureOrder) = 9
  BY DEF Backup!CaptureOrder
<1>2. Len(Backup!DeleteOrder) = 9
  BY DEF Backup!DeleteOrder
<1>3. Backup!Table = {Backup!CaptureOrder[i] : i \in 1 .. 9}
  BY <1>1 DEF Backup!Table, Backup!ToSet
<1>4. \A i \in 1 .. 9 : i \in {1, 2, 3, 4, 5, 6, 7, 8, 9}
  OBVIOUS
<1>5. Backup!Table = {"versions", "active", "log", "visibility", "requests", "alerts", "events",
                      "audits", "promotions"}
  BY <1>3, <1>4 DEF Backup!CaptureOrder
<1>6. \A i \in 1 .. 9 : Backup!DeleteOrder[i] \in Backup!Table
  BY <1>4, <1>5 DEF Backup!DeleteOrder
<1> QED
  BY <1>1, <1>2, <1>3, <1>5, <1>6 DEF Backup!RestoreOrder

LEMMA TableOrders ==
  /\ \A t \in Backup!Table : \E i \in 1 .. 9 : Backup!CaptureOrder[i] = t
  /\ \A t \in Backup!Table : \E i \in 1 .. 9 : Backup!DeleteOrder[i] = t
  /\ \A i \in 1 .. 9 : Backup!CaptureOrder[i] = "alerts" <=> i = 6
  /\ \A i \in 1 .. 9 : Backup!CaptureOrder[i] = "events" <=> i = 7
  /\ \A i \in 1 .. 9 : Backup!DeleteOrder[i] = "events" <=> i = 3
  /\ \A i \in 1 .. 9 : Backup!DeleteOrder[i] = "alerts" <=> i = 4
<1>1. \A i \in 1 .. 9 : i \in {1, 2, 3, 4, 5, 6, 7, 8, 9}
  OBVIOUS
<1>2. /\ \A i \in 1 .. 9 : Backup!CaptureOrder[i] = "alerts" <=> i = 6
      /\ \A i \in 1 .. 9 : Backup!CaptureOrder[i] = "events" <=> i = 7
  BY <1>1 DEF Backup!CaptureOrder
<1>3. /\ \A i \in 1 .. 9 : Backup!DeleteOrder[i] = "events" <=> i = 3
      /\ \A i \in 1 .. 9 : Backup!DeleteOrder[i] = "alerts" <=> i = 4
  BY <1>1 DEF Backup!DeleteOrder
<1>4. \A t \in Backup!Table : \E i \in 1 .. 9 : Backup!CaptureOrder[i] = t
  <2>1. /\ Backup!CaptureOrder[1] = "versions" /\ Backup!CaptureOrder[2] = "active"
        /\ Backup!CaptureOrder[3] = "log" /\ Backup!CaptureOrder[4] = "visibility"
        /\ Backup!CaptureOrder[5] = "requests" /\ Backup!CaptureOrder[6] = "alerts"
        /\ Backup!CaptureOrder[7] = "events" /\ Backup!CaptureOrder[8] = "audits"
        /\ Backup!CaptureOrder[9] = "promotions"
    BY DEF Backup!CaptureOrder
  <2> QED
    BY <2>1, TableNames
<1>5. \A t \in Backup!Table : \E i \in 1 .. 9 : Backup!DeleteOrder[i] = t
  <2>1. /\ Backup!DeleteOrder[1] = "audits" /\ Backup!DeleteOrder[2] = "promotions"
        /\ Backup!DeleteOrder[3] = "events" /\ Backup!DeleteOrder[4] = "alerts"
        /\ Backup!DeleteOrder[5] = "requests" /\ Backup!DeleteOrder[6] = "visibility"
        /\ Backup!DeleteOrder[7] = "log" /\ Backup!DeleteOrder[8] = "active"
        /\ Backup!DeleteOrder[9] = "versions"
    BY DEF Backup!DeleteOrder
  <2> QED
    BY <2>1, TableNames
<1> QED
  BY <1>2, <1>3, <1>4, <1>5

LEMMA TablesApart ==
  \A i \in 1 .. 9 : \A k \in 1 .. 9 : Backup!CaptureOrder[i] = Backup!CaptureOrder[k] => i = k
<1>1. \A i \in 1 .. 9 : i \in {1, 2, 3, 4, 5, 6, 7, 8, 9}
  OBVIOUS
<1>2. /\ Backup!CaptureOrder[1] = "versions" /\ Backup!CaptureOrder[2] = "active"
      /\ Backup!CaptureOrder[3] = "log" /\ Backup!CaptureOrder[4] = "visibility"
      /\ Backup!CaptureOrder[5] = "requests" /\ Backup!CaptureOrder[6] = "alerts"
      /\ Backup!CaptureOrder[7] = "events" /\ Backup!CaptureOrder[8] = "audits"
      /\ Backup!CaptureOrder[9] = "promotions"
  BY DEF Backup!CaptureOrder
<1> QED
  BY <1>1, <1>2

LEMMA JobTables ==
  /\ DOMAIN Backup!Jobs = {"patch", "overlay", "heartbeat", "restart", "alert", "promotion"}
  /\ Len(Backup!Jobs["patch"]) = 3
  /\ \A n \in DOMAIN Backup!Jobs :
       /\ Len(Backup!Jobs[n]) \in 1 .. 3
       /\ \A i \in 1 .. Len(Backup!Jobs[n]) :
            /\ Backup!Jobs[n][i] \in Backup!Table
            /\ Backup!Jobs[n][i] = "active" => n = "overlay" \/ (n = "patch" /\ i = 2)
            /\ Backup!Jobs[n][i] = "versions" <=> n = "patch" /\ i = 1
            /\ Backup!Jobs[n][i] = "events" => n = "alert"
<1>1. /\ DOMAIN Backup!Jobs = {"patch", "overlay", "heartbeat", "restart", "alert", "promotion"}
      /\ Backup!Jobs["patch"] = <<"versions", "active", "log">>
      /\ Backup!Jobs["overlay"] = <<"active", "log">>
      /\ Backup!Jobs["heartbeat"] = <<"visibility">>
      /\ Backup!Jobs["restart"] = <<"requests", "requests", "audits">>
      /\ Backup!Jobs["alert"] = <<"alerts", "events">>
      /\ Backup!Jobs["promotion"] = <<"promotions", "audits">>
  BY DEF Backup!Jobs
<1>2. ASSUME NEW n \in DOMAIN Backup!Jobs
      PROVE  /\ Len(Backup!Jobs[n]) \in 1 .. 3
             /\ \A i \in 1 .. Len(Backup!Jobs[n]) :
                  /\ Backup!Jobs[n][i] \in Backup!Table
                  /\ Backup!Jobs[n][i] = "active" => n = "overlay" \/ (n = "patch" /\ i = 2)
                  /\ Backup!Jobs[n][i] = "versions" <=> n = "patch" /\ i = 1
                  /\ Backup!Jobs[n][i] = "events" => n = "alert"
  <2>1. \A i \in 1 .. 3 : i \in {1, 2, 3}
    OBVIOUS
  <2>2. Len(Backup!Jobs[n]) \in 1 .. 3
    BY <1>1
  <2>3. CASE n = "patch"
    BY <1>1, <2>1, <2>2, <2>3, TableNames
  <2>4. CASE n = "overlay"
    BY <1>1, <2>1, <2>2, <2>4, TableNames
  <2>5. CASE n = "heartbeat"
    BY <1>1, <2>1, <2>2, <2>5, TableNames
  <2>6. CASE n = "restart"
    BY <1>1, <2>1, <2>2, <2>6, TableNames
  <2>7. CASE n = "alert"
    BY <1>1, <2>1, <2>2, <2>7, TableNames
  <2>8. CASE n = "promotion"
    BY <1>1, <2>1, <2>2, <2>8, TableNames
  <2> QED
    BY <1>1, <2>3, <2>4, <2>5, <2>6, <2>7, <2>8
<1> QED
  BY <1>1, <1>2

LEMMA BackupConstants ==
  /\ Backup!NoRows \in BackupRows
  /\ \A t \in Backup!Table : Backup!NoRows[t] = {}
  /\ Backup!First \in BackupRow /\ Backup!First.key = 1 /\ Backup!First.ref = 1
BY DEF Backup!NoRows, BackupRows, Backup!First, BackupRow

LEMMA BackupInit == Backup!Init => BackupInv
<1> SUFFICES ASSUME Backup!Init PROVE BackupInv
  OBVIOUS
<1>1. /\ db \in BackupRows
      /\ db["active"] = {Backup!First} /\ db["versions"] = {Backup!First}
      /\ db["events"] = {Backup!First} /\ db["alerts"] = {Backup!First}
  BY TableNames, BackupConstants DEF Backup!Init, BackupRows
<1>2. /\ dbJob = Backup!NoJob /\ Backup!NoJob.name = "none"
      /\ Backup!NoJob \in [name : DOMAIN Backup!Jobs \cup {"none"}, at : Nat, made : Nat]
  BY DEF Backup!Init, Backup!NoJob
<1>3. /\ dbOp = Backup!NoScript /\ Backup!NoScript.pc = "idle" /\ Backup!NoScript.at = 1
      /\ Backup!NoScript \in
           [pc : {"idle", "capturing", "deleting", "inserting", "recapturing"}, at : Nat,
            rows : BackupRows, schema : SchemaStatus \cup {"none"}, gone : BackupRows,
            put : BackupRows]
  BY BackupConstants DEF Backup!Init, Backup!NoScript
<1>4. /\ dbFile = Backup!NoFile /\ Backup!NoFile.schema = "none"
      /\ Backup!NoFile \in [rows : BackupRows, schema : SchemaStatus \cup {"none"}]
  BY BackupConstants DEF Backup!Init, Backup!NoFile
<1>5. Backup!Keys({Backup!First}) = {1}
  BY BackupConstants DEF Backup!Keys
<1>6. /\ dbMem = 1 /\ dbWrites = 1 /\ dbOutcome = "none" /\ dbFaults = 0 /\ dbTorn = FALSE
      /\ dbRaced = FALSE /\ dbSchema \in SchemaStatus
  BY DEF Backup!Init, SchemaStatus
<1>7. Backup!Sound(db) /\ EventsOfAlerts
  BY <1>1, <1>5, BackupConstants DEF Backup!Sound, EventsOfAlerts
<1>8. BackupTypes
  BY <1>1, <1>2, <1>3, <1>4, <1>6 DEF BackupTypes, Unrestored
<1>9. WritesSound
  BY <1>1, <1>2, <1>5, <1>6, <1>7 DEF WritesSound
<1>10. Capturing /\ Restoring /\ Recapturing /\ FileSound
  BY <1>3, <1>4, <1>6 DEF Capturing, Restoring, Recapturing, FileSound, HasFile
<1>11. RestoreFaithful
  BY <1>6, <1>7 DEF RestoreFaithful, Backup!RestoreFaithful, Backup!Statuses, EventsOfAlerts
<1> QED
  BY <1>7, <1>8, <1>9, <1>10, <1>11 DEF BackupInv

(* What a write of a service does: one row of a table has a new content,    *)
(* the script's transaction has not touched it, and what it refers to stays. *)
Writing(t, row) ==
  /\ db' = [db EXCEPT ![t] = {r \in @ : r.key # row.key} \cup {row}]
  /\ row.key \notin Backup!Keys(dbOp.gone[t] \cup dbOp.put[t])
  /\ t = "events" =>
       row.ref \in Backup!Keys(db["alerts"]) /\ row.ref \notin Backup!Keys(dbOp.gone["alerts"])
  /\ IF t = "active" THEN dbMem' = row.ref ELSE dbMem' = dbMem

LEMMA WriteJob ==
  ASSUME BackupInv, NEW key \in Backup!KeysToWrite, Backup!Write(key)
  PROVE  /\ dbJob.name \in DOMAIN Backup!Jobs
         /\ dbJob.at \in 1 .. Len(Backup!Jobs[dbJob.name])
         /\ dbJob.made \in Nat
         /\ Backup!NextTable = Backup!Jobs[dbJob.name][dbJob.at]
         /\ Backup!NextTable \in Backup!Table
         /\ Backup!NextTable = "active" =>
              dbJob.name = "overlay" \/ (dbJob.name = "patch" /\ dbJob.at = 2)
         /\ Backup!NextTable = "versions" <=> dbJob.name = "patch" /\ dbJob.at = 1
<1>1. /\ dbJob.name \in DOMAIN Backup!Jobs /\ dbJob.made \in Nat
      /\ dbJob.at \in 1 .. Len(Backup!Jobs[dbJob.name])
  BY DEF BackupInv, BackupTypes, Backup!Write
<1> QED
  BY <1>1, JobTables DEF Backup!NextTable

LEMMA WriteKey ==
  ASSUME BackupInv, NEW key \in Backup!KeysToWrite, Backup!Write(key)
  PROVE  /\ key \in Nat /\ Backup!RowOf(key) \in BackupRow /\ Backup!RowOf(key).key = key
         /\ Backup!NextTable = "active" /\ dbOutcome \in Unrestored =>
              Backup!RowOf(key).ref \in Backup!Keys(db["versions"])
<1>1. dbWrites \in Nat /\ dbMem \in Nat /\ dbJob.made \in Nat
  BY WriteJob DEF BackupInv, BackupTypes
<1>2. key \in Nat
  <2>1. CASE Backup!NextTable \in {"active", "visibility"}
    BY <2>1 DEF Backup!KeysToWrite
  <2>2. CASE Backup!NextTable = "alerts"
    BY <1>1, <2>2 DEF Backup!KeysToWrite
  <2>3. CASE Backup!NextTable = "requests" /\ dbJob.at = 2
    BY <1>1, <2>3 DEF Backup!KeysToWrite
  <2>4. CASE /\ Backup!NextTable \notin {"active", "visibility", "alerts"}
             /\ ~(Backup!NextTable = "requests" /\ dbJob.at = 2)
    BY <1>1, <2>4 DEF Backup!KeysToWrite
  <2> QED
    BY <2>1, <2>2, <2>3, <2>4
<1>3. CASE Backup!NextTable = "active" /\ dbJob.name = "overlay"
  <2>1. Backup!RowOf(key) = [key |-> key, rev |-> dbWrites, ref |-> dbMem]
    BY <1>3 DEF Backup!RowOf
  <2>2. dbOutcome \in Unrestored => dbMem \in Backup!Keys(db["versions"])
    BY DEF BackupInv, WritesSound
  <2> QED
    BY <1>1, <1>2, <2>1, <2>2 DEF BackupRow
<1>4. CASE Backup!NextTable \in {"active", "events"} /\ dbJob.name # "overlay"
  <2>1. Backup!RowOf(key) = [key |-> key, rev |-> dbWrites, ref |-> dbJob.made]
    BY <1>4 DEF Backup!RowOf
  <2>2. Backup!NextTable = "active" => dbJob.name = "patch" /\ dbJob.at = 2
    BY <1>4, WriteJob
  <2>3. Backup!NextTable = "active" /\ dbOutcome \in Unrestored =>
          dbJob.made \in Backup!Keys(db["versions"])
    BY <2>2 DEF BackupInv, WritesSound
  <2> QED
    BY <1>1, <1>2, <2>1, <2>3 DEF BackupRow
<1>5. CASE /\ ~(Backup!NextTable = "active" /\ dbJob.name = "overlay")
           /\ ~(Backup!NextTable \in {"active", "events"} /\ dbJob.name # "overlay")
  <2>1. Backup!RowOf(key) = [key |-> key, rev |-> dbWrites, ref |-> 1]
    BY <1>5 DEF Backup!RowOf
  <2> QED
    BY <1>1, <1>2, <1>5, <2>1 DEF BackupRow
<1> QED
  BY <1>3, <1>4, <1>5

LEMMA WriteIs ==
  ASSUME BackupInv, NEW key \in Backup!KeysToWrite, Backup!Write(key)
  PROVE  Writing(Backup!NextTable, Backup!RowOf(key))
<1>1. db' = [db EXCEPT ![Backup!NextTable] = {r \in @ : r.key # key} \cup {Backup!RowOf(key)}]
  BY DEF Backup!Write
<1>2. Backup!RowOf(key).key = key
  BY WriteKey
<1>3. ~Backup!Waits(Backup!RowOf(key)) /\ Backup!Refers(Backup!RowOf(key))
  BY DEF Backup!Write
<1>4. IF Backup!NextTable = "active" THEN dbMem' = Backup!RowOf(key).ref ELSE dbMem' = dbMem
  BY DEF Backup!Write
<1> QED
  BY <1>1, <1>2, <1>3, <1>4 DEF Writing, Backup!Waits, Backup!Refers

(* The keys of a table are never fewer. *)
LEMMA KeysGrow ==
  ASSUME BackupTypes, NEW t \in Backup!Table, NEW row \in BackupRow, Writing(t, row)
  PROVE  /\ db' \in BackupRows
         /\ db'[t] = {r \in db[t] : r.key # row.key} \cup {row}
         /\ \A u \in Backup!Table : u # t => db'[u] = db[u]
         /\ \A u \in Backup!Table : Backup!Keys(db[u]) \subseteq Backup!Keys(db'[u])
         /\ \A u \in Backup!Table :
              Backup!Keys(db[u] \ dbOp.gone[u]) \subseteq Backup!Keys(db'[u] \ dbOp.gone[u])
<1>1. db \in BackupRows
  BY DEF BackupTypes
<1>2. /\ db'[t] = {r \in db[t] : r.key # row.key} \cup {row}
      /\ \A u \in Backup!Table : u # t => db'[u] = db[u]
      /\ db' \in BackupRows
  BY <1>1 DEF Writing, BackupRows
<1>3. Backup!Keys(db[t]) \subseteq Backup!Keys(db'[t])
  BY <1>2 DEF Backup!Keys
<1>4. Backup!Keys(db[t] \ dbOp.gone[t]) \subseteq Backup!Keys(db'[t] \ dbOp.gone[t])
  <2>1. row \notin dbOp.gone[t]
    BY DEF Writing, Backup!Keys
  <2> QED
    BY <1>2, <2>1 DEF Backup!Keys
<1> QED
  BY <1>2, <1>3, <1>4

LEMMA WritingSound ==
  ASSUME BackupInv, NEW t \in Backup!Table, NEW row \in BackupRow, Writing(t, row),
         t = "active" /\ dbOutcome \in Unrestored => row.ref \in Backup!Keys(db["versions"])
  PROVE  /\ EventsOfAlerts'
         /\ dbOutcome \in Unrestored =>
              Backup!Sound(db') /\ dbMem' \in Backup!Keys(db'["versions"])
<1>1. /\ db'[t] = {r \in db[t] : r.key # row.key} \cup {row}
      /\ \A u \in Backup!Table : u # t => db'[u] = db[u]
      /\ \A u \in Backup!Table : Backup!Keys(db[u]) \subseteq Backup!Keys(db'[u])
  BY KeysGrow DEF BackupInv
<1>2. {"events", "alerts", "active", "versions"} \subseteq Backup!Table
  BY TableNames
<1>3. ASSUME NEW e \in db'["events"] PROVE e.ref \in Backup!Keys(db'["alerts"])
  <2>1. CASE e \in db["events"]
    BY <1>1, <1>2, <2>1 DEF BackupInv, EventsOfAlerts
  <2>2. CASE e \notin db["events"]
    <3>1. t = "events" /\ e = row
      BY <1>1, <1>2, <2>2
    <3> QED
      BY <1>1, <1>2, <3>1 DEF Writing
  <2> QED
    BY <2>1, <2>2
<1>4. ASSUME dbOutcome \in Unrestored, NEW a \in db'["active"]
      PROVE  a.ref \in Backup!Keys(db'["versions"])
  <2>1. CASE a \in db["active"]
    BY <1>1, <1>2, <1>4, <2>1 DEF BackupInv, WritesSound, Backup!Sound
  <2>2. CASE a \notin db["active"]
    <3>1. t = "active" /\ a = row
      BY <1>1, <1>2, <2>2
    <3> QED
      BY <1>1, <1>2, <1>4, <3>1
  <2> QED
    BY <2>1, <2>2
<1>5. ASSUME dbOutcome \in Unrestored PROVE dbMem' \in Backup!Keys(db'["versions"])
  <2>1. CASE t = "active"
    BY <1>1, <1>2, <1>5, <2>1 DEF Writing
  <2>2. CASE t # "active"
    BY <1>1, <1>2, <1>5, <2>2 DEF Writing, BackupInv, WritesSound
  <2> QED
    BY <2>1, <2>2
<1> QED
  BY <1>3, <1>4, <1>5 DEF EventsOfAlerts, Backup!Sound

LEMMA WritingCovered ==
  ASSUME BackupInv, NEW t \in Backup!Table, NEW row \in BackupRow, Writing(t, row),
         EventsCovered, dbOp' = dbOp
  PROVE  EventsCovered'
<1>1. /\ db'[t] = {r \in db[t] : r.key # row.key} \cup {row}
      /\ \A u \in Backup!Table : u # t => db'[u] = db[u]
      /\ \A u \in Backup!Table :
           Backup!Keys(db[u] \ dbOp.gone[u]) \subseteq Backup!Keys(db'[u] \ dbOp.gone[u])
  BY KeysGrow DEF BackupInv
<1>2. {"events", "alerts"} \subseteq Backup!Table
  BY TableNames
<1>3. ASSUME NEW e \in db'["events"] \ dbOp.gone["events"]
      PROVE  e.ref \in Backup!Keys(db'["alerts"] \ dbOp.gone["alerts"])
  <2>1. CASE e \in db["events"]
    <3>1. e.ref \in Backup!Keys(db["alerts"] \ dbOp.gone["alerts"])
      BY <1>3, <2>1 DEF EventsCovered, Stay
    <3> QED
      BY <1>1, <1>2, <3>1
  <2>2. CASE e \notin db["events"]
    <3>1. t = "events" /\ e = row
      BY <1>1, <1>2, <1>3, <2>2
    <3>2. /\ e.ref \in Backup!Keys(db["alerts"])
          /\ e.ref \notin Backup!Keys(dbOp.gone["alerts"])
      BY <3>1 DEF Writing
    <3>3. e.ref \in Backup!Keys(db["alerts"] \ dbOp.gone["alerts"])
      BY <3>2 DEF Backup!Keys
    <3> QED
      BY <1>1, <1>2, <3>3
  <2> QED
    BY <2>1, <2>2
<1>4. ASSUME NEW e \in dbOp.put["events"]
      PROVE  e.ref \in
               Backup!Keys(dbOp.put["alerts"] \cup (db'["alerts"] \ dbOp.gone["alerts"]))
  <2>1. e.ref \in Backup!Keys(dbOp.put["alerts"] \cup (db["alerts"] \ dbOp.gone["alerts"]))
    BY <1>4 DEF EventsCovered, Stay
  <2>2. Backup!Keys(db["alerts"] \ dbOp.gone["alerts"])
          \subseteq Backup!Keys(db'["alerts"] \ dbOp.gone["alerts"])
    BY <1>1, <1>2
  <2> QED
    BY <2>1, <2>2 DEF Backup!Keys
<1> QED
  BY <1>3, <1>4 DEF EventsCovered, Stay

LEMMA WriteEnds ==
  ASSUME BackupInv, NEW key \in Backup!KeysToWrite, Backup!Write(key)
  PROVE  /\ dbJob' \in [name : DOMAIN Backup!Jobs \cup {"none"}, at : Nat, made : Nat]
         /\ dbJob' # Backup!NoJob =>
              dbJob'.name # "none" /\ dbJob'.at \in 1 .. Len(Backup!Jobs[dbJob'.name])
         /\ dbOutcome \in Unrestored /\ dbJob'.name = "patch" /\ dbJob'.at >= 2 =>
              dbJob'.made \in Backup!Keys(db'["versions"])
<1>1. /\ dbJob.name \in DOMAIN Backup!Jobs /\ dbJob.made \in Nat
      /\ dbJob.at \in 1 .. Len(Backup!Jobs[dbJob.name])
      /\ dbJob \in [name : DOMAIN Backup!Jobs \cup {"none"}, at : Nat, made : Nat]
      /\ Len(Backup!Jobs[dbJob.name]) \in 1 .. 3
      /\ "none" \notin DOMAIN Backup!Jobs
  BY WriteJob, JobTables DEF BackupInv, BackupTypes
<1>2. key \in Nat
  BY WriteKey
<1>3. CASE dbJob.at = Len(Backup!Jobs[dbJob.name])
  <2>1. dbJob' = [name |-> "none", at |-> 1, made |-> 0] /\ dbJob' = Backup!NoJob
    BY <1>3 DEF Backup!Write, Backup!NoJob
  <2> QED
    BY <2>1
<1>4. CASE dbJob.at # Len(Backup!Jobs[dbJob.name])
  <2>1. dbJob' = [name |-> dbJob.name, at |-> dbJob.at + 1,
                  made |-> IF dbJob.at = 1 THEN key ELSE dbJob.made]
    BY <1>1, <1>4 DEF Backup!Write
  <2>2. dbJob.at + 1 \in 1 .. Len(Backup!Jobs[dbJob.name])
    BY <1>1, <1>4
  <2>3. ASSUME dbOutcome \in Unrestored, dbJob.name = "patch"
        PROVE  dbJob'.made \in Backup!Keys(db'["versions"])
    <3>1. "versions" \in Backup!Table /\ Backup!NextTable \in Backup!Table
      BY TableNames, WriteJob
    <3>2. /\ db'[Backup!NextTable]
               = {r \in db[Backup!NextTable] : r.key # key} \cup {Backup!RowOf(key)}
          /\ Backup!Keys(db["versions"]) \subseteq Backup!Keys(db'["versions"])
          /\ Backup!RowOf(key).key = key
      BY <3>1, KeysGrow, WriteIs, WriteKey DEF BackupInv
    <3>3. CASE dbJob.at = 1
      <4>1. Backup!NextTable = "versions"
        BY <2>3, <3>3, WriteJob
      <4> QED
        BY <2>1, <3>2, <3>3, <4>1 DEF Backup!Keys
    <3>4. CASE dbJob.at # 1
      <4>1. dbJob.at >= 2
        BY <1>1, <3>4
      <4>2. dbJob.made \in Backup!Keys(db["versions"])
        BY <2>3, <4>1 DEF BackupInv, WritesSound
      <4> QED
        BY <2>1, <3>2, <3>4, <4>2
    <3> QED
      BY <3>3, <3>4
  <2> QED
    BY <1>1, <1>2, <2>1, <2>2, <2>3
<1> QED
  BY <1>3, <1>4

LEMMA WriteStep ==
  ASSUME BackupInv, NEW key \in Backup!KeysToWrite, Backup!Write(key)
  PROVE  BackupInv'
<1> DEFINE t == Backup!NextTable
           row == Backup!RowOf(key)
<1>1. /\ t \in Backup!Table /\ row \in BackupRow /\ Writing(t, row)
      /\ t = "active" /\ dbOutcome \in Unrestored => row.ref \in Backup!Keys(db["versions"])
  BY WriteJob, WriteKey, WriteIs
<1> HIDE DEF t, row
<1>2. /\ dbSchema' = dbSchema /\ dbOp' = dbOp /\ dbFile' = dbFile /\ dbOutcome' = dbOutcome
      /\ dbFaults' = dbFaults /\ dbWrites' = dbWrites + 1
      /\ dbTorn' = (dbTorn \/ dbOp.pc = "capturing")
      /\ dbRaced' = (dbRaced \/ dbOp.pc \in {"deleting", "inserting"} \/ dbOutcome # "none")
  BY DEF Backup!Write
<1>3. /\ db' \in BackupRows
      /\ \A u \in Backup!Table : Backup!Keys(db[u]) \subseteq Backup!Keys(db'[u])
  BY <1>1, KeysGrow DEF BackupInv
<1>4. dbMem' \in Nat
  BY <1>1 DEF Writing, BackupInv, BackupTypes, BackupRow
<1>5. BackupTypes'
  BY <1>2, <1>3, <1>4, WriteEnds DEF BackupInv, BackupTypes
<1>6. EventsOfAlerts' /\ WritesSound'
  BY <1>1, <1>2, WritingSound, WriteEnds DEF WritesSound
<1>7. Capturing'
  BY <1>2 DEF BackupInv, Capturing
<1>8. Restoring'
  <2>1. EventsCovered => EventsCovered'
    BY <1>1, <1>2, WritingCovered
  <2>2. dbOp.pc \in {"deleting", "inserting"} => dbRaced'
    BY <1>2
  <2> QED
    BY <1>2, <2>1, <2>2 DEF BackupInv, Restoring, HasFile
<1>9. Recapturing'
  BY <1>2 DEF BackupInv, Recapturing
<1>10. FileSound'
  BY <1>2 DEF BackupInv, FileSound, HasFile
<1>11. RestoreFaithful'
  <2>1. dbOutcome # "none" => dbRaced'
    BY <1>2
  <2>2. dbOutcome \in Unrestored => Backup!Sound(db')
    BY <1>1, WritingSound
  <2>3. \A e \in db'["events"] : e.ref \in Backup!Keys(db'["alerts"])
    BY <1>6 DEF EventsOfAlerts
  <2> QED
    BY <1>2, <2>1, <2>2, <2>3
    DEF BackupInv, RestoreFaithful, Backup!RestoreFaithful, Unrestored, Backup!Statuses
<1> QED
  BY <1>5, <1>6, <1>7, <1>8, <1>9, <1>10, <1>11 DEF BackupInv

LEMMA ScriptIdle ==
  /\ Backup!NoScript.pc = "idle" /\ Backup!NoScript.at = 1
  /\ Backup!NoScript.schema = "none"
  /\ Backup!NoScript \in
       [pc : {"idle", "capturing", "deleting", "inserting", "recapturing"}, at : Nat,
        rows : BackupRows, schema : SchemaStatus \cup {"none"}, gone : BackupRows,
        put : BackupRows]
  /\ Backup!NoScript.put = Backup!NoRows /\ Backup!NoScript.gone = Backup!NoRows
BY BackupConstants DEF Backup!NoScript

(* The script's transaction and the file stay; a service goes on. *)
LEMMA JobStep ==
  ASSUME BackupInv, db' = db, dbMem' = dbMem, dbOp' = dbOp, dbFile' = dbFile, dbOutcome' = dbOutcome,
         dbTorn' = dbTorn, dbRaced' = dbRaced, dbWrites' = dbWrites,
         dbFaults' \in Nat, dbFaults' >= dbFaults,
         dbSchema' \in SchemaStatus, dbSchema' = dbSchema \/ dbFaults' > 0,
         dbJob' \in [name : DOMAIN Backup!Jobs \cup {"none"}, at : Nat, made : Nat],
         dbJob' # Backup!NoJob =>
           dbJob'.name # "none" /\ dbJob'.at \in 1 .. Len(Backup!Jobs[dbJob'.name]),
         dbJob' = dbJob \/ dbJob'.at = 1
  PROVE  BackupInv'
<1>1. BackupTypes'
  BY DEF BackupInv, BackupTypes
<1>2. dbFaults' = 0 => dbFaults = 0 /\ dbSchema' = dbSchema
  BY DEF BackupInv, BackupTypes
<1>3. WritesSound'
  <2>1. dbJob' = dbJob \/ ~(dbJob'.at >= 2)
    OBVIOUS
  <2> QED
    BY <2>1 DEF BackupInv, WritesSound
<1>4. EventsOfAlerts'
  BY DEF BackupInv, EventsOfAlerts
<1>5. Capturing'
  BY DEF BackupInv, Capturing, Captured
<1>6. Restoring'
  BY <1>2 DEF BackupInv, Restoring, HasFile, EventsCovered, Stay
<1>7. Recapturing'
  BY <1>2 DEF BackupInv, Recapturing, Captured
<1>8. FileSound'
  BY DEF BackupInv, FileSound, HasFile
<1>9. RestoreFaithful'
  <2>1. dbFaults > 0 => dbFaults' > 0
    BY DEF BackupInv, BackupTypes
  <2> QED
    BY <2>1 DEF BackupInv, RestoreFaithful, Backup!RestoreFaithful
<1> QED
  BY <1>1, <1>3, <1>4, <1>5, <1>6, <1>7, <1>8, <1>9 DEF BackupInv

LEMMA ServiceStep == BackupInv /\ Backup!Services => BackupInv'
<1> SUFFICES ASSUME BackupInv, Backup!Services PROVE BackupInv'
  OBVIOUS
<1>1. /\ dbFaults \in Nat /\ dbSchema \in SchemaStatus
      /\ dbJob \in [name : DOMAIN Backup!Jobs \cup {"none"}, at : Nat, made : Nat]
      /\ dbJob # Backup!NoJob =>
           dbJob.name # "none" /\ dbJob.at \in 1 .. Len(Backup!Jobs[dbJob.name])
  BY DEF BackupInv, BackupTypes
<1>2. ASSUME NEW n \in DOMAIN Backup!Jobs, Backup!BeginJob(n) PROVE BackupInv'
  <2>1. dbJob' = [name |-> n, at |-> 1, made |-> 0]
    BY <1>2 DEF Backup!BeginJob
  <2>2. n # "none" /\ 1 \in 1 .. Len(Backup!Jobs[n])
    <3>1. n # "none"
      BY <1>2, JobTables
    <3>2. Len(Backup!Jobs[n]) \in 1 .. 3
      BY <1>2, JobTables
    <3> QED
      BY <3>1, <3>2
  <2>3. /\ db' = db /\ dbMem' = dbMem /\ dbOp' = dbOp /\ dbFile' = dbFile /\ dbOutcome' = dbOutcome
        /\ dbTorn' = dbTorn /\ dbRaced' = dbRaced /\ dbWrites' = dbWrites
        /\ dbFaults' = dbFaults /\ dbSchema' = dbSchema
    BY <1>2 DEF Backup!BeginJob
  <2> QED
    BY <1>1, <2>1, <2>2, <2>3, JobStep
<1>3. ASSUME NEW key \in Backup!KeysToWrite, Backup!Write(key) PROVE BackupInv'
  BY <1>3, WriteStep
<1>4. ASSUME Backup!WriteFails PROVE BackupInv'
  <2>1. dbJob' = Backup!NoJob /\ dbJob' = [name |-> "none", at |-> 1, made |-> 0]
    BY <1>4 DEF Backup!WriteFails, Backup!NoJob
  <2>2. dbFaults' \in Nat /\ dbFaults' >= dbFaults
    BY <1>1, <1>4 DEF Backup!WriteFails
  <2>3. /\ db' = db /\ dbMem' = dbMem /\ dbOp' = dbOp /\ dbFile' = dbFile /\ dbOutcome' = dbOutcome
        /\ dbTorn' = dbTorn /\ dbRaced' = dbRaced /\ dbWrites' = dbWrites /\ dbSchema' = dbSchema
    BY <1>4 DEF Backup!WriteFails
  <2> QED
    BY <1>1, <2>1, <2>2, <2>3, JobStep
<1>5. ASSUME Backup!SchemaChanges PROVE BackupInv'
  <2>1. dbFaults' = dbFaults + 1 /\ dbSchema' \in SchemaStatus
    BY <1>5 DEF Backup!SchemaChanges, SchemaStatus
  <2>2. /\ db' = db /\ dbMem' = dbMem /\ dbOp' = dbOp /\ dbFile' = dbFile /\ dbOutcome' = dbOutcome
        /\ dbTorn' = dbTorn /\ dbRaced' = dbRaced /\ dbWrites' = dbWrites /\ dbJob' = dbJob
    BY <1>5 DEF Backup!SchemaChanges
  <2>3. dbFaults' \in Nat /\ dbFaults' >= dbFaults /\ dbFaults' > 0
    BY <1>1, <2>1
  <2> QED
    BY <1>1, <2>1, <2>2, <2>3, JobStep
<1> QED
  BY <1>2, <1>3, <1>4, <1>5 DEF Backup!Services

(* A step of the script that leaves the tables and the services as they are. *)
ScriptOnly ==
  /\ db' = db /\ dbSchema' = dbSchema /\ dbJob' = dbJob /\ dbMem' = dbMem /\ dbWrites' = dbWrites

LEMMA ScriptOnlyStep ==
  ASSUME BackupInv, ScriptOnly, dbOutcome' \in Unrestored => dbOutcome \in Unrestored
  PROVE  /\ WritesSound' /\ EventsOfAlerts'
         /\ dbOutcome' \in Unrestored => Backup!Sound(db')
         /\ db' \in BackupRows /\ dbSchema' \in SchemaStatus
         /\ dbJob' \in [name : DOMAIN Backup!Jobs \cup {"none"}, at : Nat, made : Nat]
         /\ dbJob' # Backup!NoJob =>
              dbJob'.name # "none" /\ dbJob'.at \in 1 .. Len(Backup!Jobs[dbJob'.name])
         /\ dbMem' \in Nat /\ dbWrites' \in Nat
BY DEF BackupInv, BackupTypes, ScriptOnly, WritesSound, EventsOfAlerts

(* The script ends without having touched the tables. *)
LEMMA ScriptEnds ==
  ASSUME BackupInv, ScriptOnly, dbFile' = dbFile, dbTorn' = dbTorn, dbRaced' = dbRaced,
         dbOp' = Backup!NoScript, dbFaults' \in Nat, dbFaults' >= dbFaults,
         \/ dbOutcome' = dbOutcome
         \/ dbOutcome = "none" /\ HasFile /\ dbOutcome' \in {"refused", "failed"},
         dbOutcome' = "refused" => dbTorn \/ dbRaced
  PROVE  BackupInv'
<1>1. dbOutcome' \in Unrestored => dbOutcome \in Unrestored
  BY DEF Unrestored
<1>2. dbOutcome' \in Unrestored \cup {"restored"} \cup Backup!Statuses
  BY DEF BackupInv, BackupTypes, Unrestored
<1>3. BackupTypes'
  BY <1>1, <1>2, ScriptOnlyStep, ScriptIdle DEF BackupInv, BackupTypes
<1>4. Capturing' /\ Restoring' /\ Recapturing'
  BY ScriptIdle DEF Capturing, Restoring, Recapturing
<1>5. FileSound'
  BY ScriptIdle DEF BackupInv, FileSound, HasFile
<1>6. RestoreFaithful'
  <2>1. dbFaults > 0 => dbFaults' > 0
    BY DEF BackupInv, BackupTypes
  <2>2. /\ dbOutcome' \in Unrestored => Backup!Sound(db')
        /\ \A e \in db'["events"] : e.ref \in Backup!Keys(db'["alerts"])
    BY <1>1, ScriptOnlyStep DEF EventsOfAlerts
  <2>3. dbOutcome' \in {"restored"} \cup Backup!Statuses => dbOutcome' = dbOutcome
    BY DEF Backup!Statuses
  <2>4. db' = db
    BY DEF ScriptOnly
  <2> QED
    BY <2>1, <2>2, <2>3, <2>4
    DEF BackupInv, RestoreFaithful, Backup!RestoreFaithful, Unrestored
<1> QED
  BY <1>1, <1>3, <1>4, <1>5, <1>6, ScriptOnlyStep DEF BackupInv

ScriptType ==
  [pc : {"idle", "capturing", "deleting", "inserting", "recapturing"}, at : Nat,
   rows : BackupRows, schema : SchemaStatus \cup {"none"}, gone : BackupRows, put : BackupRows]

(* The script goes on; the outcome and the file stay. *)
LEMMA ScriptGoesOn ==
  ASSUME BackupInv, ScriptOnly, dbFile' = dbFile, dbOutcome' = dbOutcome, dbRaced' = dbRaced,
         dbFaults' = dbFaults, dbTorn' = dbTorn, dbOp' \in ScriptType, dbOp'.at # 0,
         Capturing', Restoring', Recapturing'
  PROVE  BackupInv'
<1>1. BackupTypes'
  BY ScriptOnlyStep DEF BackupInv, BackupTypes, ScriptType
<1>2. WritesSound' /\ EventsOfAlerts'
  BY ScriptOnlyStep
<1>3. FileSound'
  BY DEF BackupInv, FileSound, HasFile
<1>4. RestoreFaithful'
  BY DEF BackupInv, RestoreFaithful, Backup!RestoreFaithful, ScriptOnly
<1> QED
  BY <1>1, <1>2, <1>3, <1>4 DEF BackupInv

LEMMA BeginCaptureStep == BackupInv /\ Backup!BeginCapture => BackupInv'
<1> SUFFICES ASSUME BackupInv, Backup!BeginCapture PROVE BackupInv'
  OBVIOUS
<1>1. /\ ScriptOnly /\ dbFile' = dbFile /\ dbOutcome' = dbOutcome /\ dbRaced' = dbRaced
      /\ dbFaults' = dbFaults /\ dbTorn' = FALSE /\ dbFile = Backup!NoFile
      /\ dbSchema \in SchemaStatus
  BY DEF Backup!BeginCapture, ScriptOnly, BackupInv, BackupTypes
<1>2. PICK n : n = Backup!NoScript
  OBVIOUS
<1>3. n \in ScriptType /\ n.at = 1
  BY <1>2, ScriptIdle DEF ScriptType
<1>4. dbOp' = [n EXCEPT !.pc = "capturing", !.schema = dbSchema]
  BY <1>2 DEF Backup!BeginCapture
<1>5. /\ dbOp' \in ScriptType /\ dbOp'.at = 1 /\ dbOp'.pc = "capturing" /\ dbOp'.schema = dbSchema
      /\ dbSchema # "none"
  BY <1>1, <1>3, <1>4 DEF ScriptType, SchemaStatus
<1>6. dbOutcome = "none"
  BY <1>1 DEF BackupInv, FileSound, HasFile, Backup!NoFile
<1>7. Capturing'
  <2>1. Captured'
    BY <1>5 DEF Captured
  <2> QED
    BY <1>1, <1>5, <1>6, <2>1 DEF Capturing
<1>8. Restoring' /\ Recapturing'
  BY <1>5 DEF Restoring, Recapturing
<1>9. BackupTypes'
  BY <1>1, <1>5, ScriptOnlyStep DEF BackupInv, BackupTypes, ScriptType
<1>10. WritesSound' /\ EventsOfAlerts'
  BY <1>1, ScriptOnlyStep
<1>11. FileSound'
  BY <1>1, <1>5, <1>6 DEF FileSound, HasFile, Backup!NoFile
<1>12. RestoreFaithful'
  <2>1. dbOutcome' = "none" /\ db' = db
    BY <1>1, <1>6 DEF ScriptOnly
  <2>2. Backup!Sound(db') /\ \A e \in db'["events"] : e.ref \in Backup!Keys(db'["alerts"])
    BY <1>6, <1>10, <2>1 DEF BackupInv, WritesSound, EventsOfAlerts, Unrestored
  <2> QED
    BY <2>1, <2>2 DEF RestoreFaithful, Backup!RestoreFaithful, Backup!Statuses
<1> QED
  BY <1>7, <1>8, <1>9, <1>10, <1>11, <1>12 DEF BackupInv

LEMMA CaptureTableStep == BackupInv /\ Backup!CaptureTable => BackupInv'
<1> SUFFICES ASSUME BackupInv, Backup!CaptureTable PROVE BackupInv'
  OBVIOUS
<1>1. /\ ScriptOnly /\ dbFile' = dbFile /\ dbOutcome' = dbOutcome /\ dbRaced' = dbRaced
      /\ dbFaults' = dbFaults /\ dbTorn' = dbTorn
  BY DEF Backup!CaptureTable, ScriptOnly
<1>2. PICK o : o = dbOp
  OBVIOUS
<1>3. /\ o \in ScriptType /\ db \in BackupRows /\ o.at # 0
      /\ o.pc \in {"capturing", "recapturing"} /\ o.at <= 9
  BY <1>2, TableNames DEF BackupInv, BackupTypes, ScriptType, FileSound, Backup!CaptureTable
<1>4. PICK t : t = Backup!CaptureOrder[o.at]
  OBVIOUS
<1>5. t \in Backup!Table /\ o.at \in 1 .. 9
  BY <1>3, <1>4, TableNames DEF ScriptType
<1>6. dbOp' = [o EXCEPT !.at = o.at + 1, !.rows = [o.rows EXCEPT ![t] = db[t]]]
  BY <1>2, <1>3, <1>4, <1>5 DEF Backup!CaptureTable, ScriptType, BackupRows
<1>7. PICK r : r = [o.rows EXCEPT ![t] = db[t]]
  OBVIOUS
<1>8. r \in BackupRows /\ r[t] = db[t] /\ \A u \in Backup!Table : u # t => r[u] = o.rows[u]
  BY <1>3, <1>5, <1>7 DEF BackupRows, ScriptType
<1>9. dbOp' = [pc |-> o.pc, at |-> o.at + 1, rows |-> r, schema |-> o.schema, gone |-> o.gone,
               put |-> o.put]
  BY <1>3, <1>6, <1>7 DEF ScriptType
<1>10. dbOp' \in ScriptType /\ dbOp'.at # 0
  BY <1>3, <1>8, <1>9 DEF ScriptType
<1>11. Captured => Captured'
  <2> SUFFICES ASSUME Captured, NEW i \in 1 .. 9, i < o.at + 1
               PROVE  r[Backup!CaptureOrder[i]] = db[Backup!CaptureOrder[i]]
    BY <1>1, <1>9 DEF Captured, ScriptOnly
  <2>1. CASE Backup!CaptureOrder[i] = t
    BY <1>8, <2>1
  <2>2. CASE Backup!CaptureOrder[i] # t
    <3>1. i < o.at
      BY <1>3, <1>4, <2>2 DEF ScriptType
    <3>2. o.rows[Backup!CaptureOrder[i]] = db[Backup!CaptureOrder[i]]
      BY <1>2, <3>1 DEF Captured
    <3> QED
      BY <1>8, <2>2, <3>2, TableNames
  <2> QED
    BY <2>1, <2>2
<1>12. dbOp'.pc = dbOp.pc /\ dbOp'.schema = dbOp.schema /\ dbOp'.pc \notin {"deleting", "inserting"}
  BY <1>2, <1>3, <1>9
<1>13. Capturing' /\ Restoring' /\ Recapturing'
  BY <1>1, <1>11, <1>12 DEF BackupInv, Capturing, Restoring, Recapturing
<1> QED
  BY <1>1, <1>10, <1>13, ScriptGoesOn

(* All tables captured, as they are *)
LEMMA AllCaptured ==
  ASSUME BackupTypes, Captured, dbOp.at > 9
  PROVE  dbOp.rows = db
<1>1. dbOp.rows \in BackupRows /\ db \in BackupRows /\ dbOp.at \in Nat
  BY DEF BackupTypes
<1>2. \A i \in 1 .. 9 : i < dbOp.at
  BY <1>1
<1>3. \A t \in Backup!Table : dbOp.rows[t] = db[t]
  BY <1>2, TableOrders DEF Captured
<1> QED
  BY <1>1, <1>3 DEF BackupRows

LEMMA SaveFileStep == BackupInv /\ Backup!SaveFile => BackupInv'
<1> SUFFICES ASSUME BackupInv, Backup!SaveFile PROVE BackupInv'
  OBVIOUS
<1>1. /\ ScriptOnly /\ dbOutcome' = dbOutcome /\ dbRaced' = dbRaced
      /\ dbFaults' = dbFaults /\ dbTorn' = dbTorn /\ dbOp' = Backup!NoScript
      /\ dbOp.pc = "capturing" /\ dbOp.at > 9
      /\ dbFile' = [rows |-> dbOp.rows, schema |-> dbOp.schema]
  BY TableNames DEF Backup!SaveFile, ScriptOnly
<1>2. dbOutcome = "none" /\ dbOp.schema # "none" /\ (dbTorn \/ Captured)
  BY <1>1 DEF BackupInv, Capturing
<1>3. dbTorn \/ Backup!Sound(dbOp.rows)
  BY <1>1, <1>2, AllCaptured DEF BackupInv, WritesSound, Unrestored
<1>4. BackupTypes'
  BY <1>1, ScriptOnlyStep, ScriptIdle DEF BackupInv, BackupTypes
<1>5. WritesSound' /\ EventsOfAlerts'
  BY <1>1, ScriptOnlyStep
<1>6. Capturing' /\ Restoring' /\ Recapturing'
  BY <1>1, ScriptIdle DEF Capturing, Restoring, Recapturing
<1>7. FileSound'
  BY <1>1, <1>2, <1>3, ScriptIdle DEF FileSound, HasFile
<1>8. RestoreFaithful'
  <2>1. dbOutcome' = "none" /\ db' = db
    BY <1>1, <1>2 DEF ScriptOnly
  <2>2. Backup!Sound(db') /\ \A e \in db'["events"] : e.ref \in Backup!Keys(db'["alerts"])
    BY <1>2, <1>5, <2>1 DEF BackupInv, WritesSound, EventsOfAlerts, Unrestored
  <2> QED
    BY <2>1, <2>2 DEF RestoreFaithful, Backup!RestoreFaithful, Backup!Statuses
<1> QED
  BY <1>4, <1>5, <1>6, <1>7, <1>8 DEF BackupInv

LEMMA BeginRestoreStep == BackupInv /\ Backup!BeginRestore => BackupInv'
<1> SUFFICES ASSUME BackupInv, Backup!BeginRestore PROVE BackupInv'
  OBVIOUS
<1>1. /\ ScriptOnly /\ dbFile' = dbFile /\ dbRaced' = dbRaced /\ dbTorn' = dbTorn
      /\ dbFaults' = dbFaults /\ dbFile # Backup!NoFile /\ dbOutcome = "none" /\ dbOp.pc = "idle"
  BY DEF Backup!BeginRestore, ScriptOnly
<1>2. HasFile
  BY <1>1 DEF BackupInv, FileSound
<1>3. CASE dbSchema = "ready"
  <2>1. PICK n : n = Backup!NoScript
    OBVIOUS
  <2>2. n \in ScriptType /\ n.at = 1 /\ n.put = Backup!NoRows
    BY <2>1, ScriptIdle DEF ScriptType
  <2>3. dbOp' = [n EXCEPT !.pc = "deleting"] /\ dbOutcome' = dbOutcome
    BY <1>3, <2>1 DEF Backup!BeginRestore
  <2>4. /\ dbOp' \in ScriptType /\ dbOp'.at = 1 /\ dbOp'.pc = "deleting"
        /\ dbOp'.put = Backup!NoRows
    BY <2>2, <2>3 DEF ScriptType
  <2>5. Restoring'
    <3>1. dbSchema' = "ready"
      BY <1>1, <1>3 DEF ScriptOnly
    <3>2. \A i \in 1 .. 9 : ~(i < dbOp'.at)
      BY <2>4
    <3> QED
      BY <1>1, <1>2, <2>3, <2>4, <3>1, <3>2 DEF Restoring, HasFile
  <2>6. Capturing' /\ Recapturing'
    BY <2>4 DEF Capturing, Recapturing
  <2> QED
    BY <1>1, <2>3, <2>4, <2>5, <2>6, ScriptGoesOn
<1>4. CASE dbSchema # "ready"
  <2>1. dbOutcome' = "not_ready" /\ dbOp' = dbOp
    BY <1>4 DEF Backup!BeginRestore
  <2>2. dbOutcome' \in Unrestored /\ dbOutcome \in Unrestored
    BY <1>1, <2>1 DEF Unrestored
  <2>3. WritesSound' /\ EventsOfAlerts' /\ Backup!Sound(db')
    BY <1>1, <2>2, ScriptOnlyStep
  <2>4. BackupTypes'
    BY <1>1, <2>1, <2>2, ScriptOnlyStep DEF BackupInv, BackupTypes
  <2>5. Capturing' /\ Restoring' /\ Recapturing'
    BY <1>1, <2>1 DEF Capturing, Restoring, Recapturing
  <2>6. FileSound'
    BY <1>1, <1>2, <2>1 DEF BackupInv, FileSound, HasFile
  <2>7. RestoreFaithful'
    BY <2>1, <2>3 DEF RestoreFaithful, Backup!RestoreFaithful, Backup!Statuses, EventsOfAlerts
  <2> QED
    BY <2>3, <2>4, <2>5, <2>6, <2>7 DEF BackupInv
<1> QED
  BY <1>3, <1>4

(* An alert's events go with it: what stays, stays covered. *)
LEMMA DeleteCovers ==
  ASSUME BackupInv, dbOp.pc = "deleting", dbOp.at \in 1 .. 9, dbOp.at > 3,
         NEW t, t = Backup!DeleteOrder[dbOp.at],
         dbOp'.put = Backup!NoRows,
         \A u \in Backup!Table : dbOp'.gone[u] = dbOp.gone[u] \cup Backup!GoneWith(t, u),
         db' = db
  PROVE  EventsCovered'
<1>1. {"events", "alerts"} \subseteq Backup!Table
  BY TableNames
<1>2. dbOp'.put["events"] = {}
  BY <1>1, BackupConstants
<1>3. t # "events" /\ (t = "alerts" <=> dbOp.at = 4)
  BY TableOrders
<1>4. CASE dbOp.at = 4
  <2>1. \A e \in db["events"] : e.ref \in Backup!Keys(db["alerts"])
    BY DEF BackupInv, EventsOfAlerts
  <2>2. t = "alerts"
    BY <1>3, <1>4
  <2>3. db["events"] \ dbOp'.gone["events"] = {}
    <3>1. Backup!GoneWith(t, "events") = db["events"]
      BY <2>1, <2>2 DEF Backup!GoneWith
    <3>2. dbOp'.gone["events"] = dbOp.gone["events"] \cup db["events"]
      BY <1>1, <3>1
    <3> QED
      BY <3>2
  <2> QED
    BY <1>2, <2>3 DEF EventsCovered, Stay
<1>5. CASE dbOp.at # 4
  <2>1. t \notin {"events", "alerts"} /\ dbOp.at > 4
    BY <1>3, <1>5
  <2>2. EventsCovered
    BY <2>1 DEF BackupInv, Restoring
  <2>3. dbOp'.gone["events"] = dbOp.gone["events"] /\ dbOp'.gone["alerts"] = dbOp.gone["alerts"]
    <3>1. Backup!GoneWith(t, "events") = {} /\ Backup!GoneWith(t, "alerts") = {}
      BY <2>1 DEF Backup!GoneWith
    <3>2. /\ dbOp'.gone["events"] = dbOp.gone["events"] \cup {}
          /\ dbOp'.gone["alerts"] = dbOp.gone["alerts"] \cup {}
      BY <1>1, <3>1
    <3> QED
      BY <3>2
  <2>4. \A e \in db["events"] \ dbOp.gone["events"] :
          e.ref \in Backup!Keys(db["alerts"] \ dbOp.gone["alerts"])
    BY <2>2 DEF EventsCovered, Stay
  <2> QED
    BY <1>2, <2>3, <2>4 DEF EventsCovered, Stay
<1> QED
  BY <1>4, <1>5

LEMMA DeleteTableStep == BackupInv /\ Backup!DeleteTable => BackupInv'
<1> SUFFICES ASSUME BackupInv, Backup!DeleteTable PROVE BackupInv'
  OBVIOUS
<1>1. /\ ScriptOnly /\ dbFile' = dbFile /\ dbOutcome' = dbOutcome /\ dbRaced' = dbRaced
      /\ dbFaults' = dbFaults /\ dbTorn' = dbTorn /\ db' = db /\ dbSchema' = dbSchema
      /\ dbOp.pc = "deleting"
  BY DEF Backup!DeleteTable, ScriptOnly
<1>2. PICK o : o = dbOp
  OBVIOUS
<1>3. /\ o \in ScriptType /\ o.pc = "deleting" /\ o.at \in 1 .. 9 /\ o.put = Backup!NoRows
      /\ db \in BackupRows
      /\ HasFile /\ dbOutcome = "none" /\ (dbFaults = 0 => dbSchema = "ready")
      /\ dbRaced \/ \A i \in 1 .. 9 : i < o.at => Stay(Backup!DeleteOrder[i]) = {}
  BY <1>1, <1>2 DEF BackupInv, BackupTypes, ScriptType, Restoring
<1>4. PICK t : t = Backup!DeleteOrder[o.at]
  OBVIOUS
<1>5. t \in Backup!Table /\ {"events", "alerts"} \subseteq Backup!Table
  BY <1>3, <1>4, TableNames
<1>6. PICK g : g = [u \in Backup!Table |-> o.gone[u] \cup Backup!GoneWith(t, u)]
  OBVIOUS
<1>7. /\ g \in BackupRows
      /\ \A u \in Backup!Table : g[u] = o.gone[u] \cup Backup!GoneWith(t, u)
  <2>1. \A u \in Backup!Table : Backup!GoneWith(t, u) \subseteq db[u]
    BY DEF Backup!GoneWith
  <2>2. \A u \in Backup!Table : o.gone[u] \subseteq BackupRow /\ db[u] \subseteq BackupRow
    BY <1>3 DEF ScriptType, BackupRows
  <2> QED
    BY <1>6, <2>1, <2>2 DEF BackupRows
<1>8. \A u \in Backup!Table : u = t => g[u] = o.gone[u] \cup db[u]
  BY <1>7 DEF Backup!GoneWith
<1>9. dbOp' = [o EXCEPT
                 !.gone = g,
                 !.pc = IF o.at = 9 THEN "inserting" ELSE o.pc,
                 !.at = IF o.at = 9 THEN 1 ELSE o.at + 1]
  BY <1>2, <1>4, <1>6, TableNames DEF Backup!DeleteTable
<1>10. dbOp' = [pc |-> IF o.at = 9 THEN "inserting" ELSE o.pc,
                at |-> IF o.at = 9 THEN 1 ELSE o.at + 1, rows |-> o.rows, schema |-> o.schema,
                gone |-> g, put |-> o.put]
  BY <1>3, <1>9 DEF ScriptType
<1>11. dbOp' \in ScriptType /\ dbOp'.at # 0
  BY <1>3, <1>7, <1>10 DEF ScriptType
<1>12. dbOp'.gone = g /\ dbOp'.put = Backup!NoRows
  BY <1>3, <1>10
<1>13. dbOp.at > 3 => EventsCovered'
  <2>1. \A u \in Backup!Table : dbOp'.gone[u] = dbOp.gone[u] \cup Backup!GoneWith(t, u)
    BY <1>2, <1>7, <1>12
  <2> QED
    BY <1>1, <1>2, <1>3, <1>4, <1>12, <2>1, DeleteCovers
<1>14. \A u \in Backup!Table : db[u] \ g[u] \subseteq Stay(u) /\ (u = t => db[u] \ g[u] = {})
  BY <1>2, <1>7, <1>8 DEF Stay
<1>15. dbRaced \/ \A i \in 1 .. 9 : i <= o.at => db[Backup!DeleteOrder[i]] \ g[Backup!DeleteOrder[i]] = {}
  <2> SUFFICES ASSUME ~dbRaced, NEW i \in 1 .. 9, i <= o.at
               PROVE  db[Backup!DeleteOrder[i]] \ g[Backup!DeleteOrder[i]] = {}
    OBVIOUS
  <2>1. Backup!DeleteOrder[i] \in Backup!Table
    BY TableNames
  <2>2. CASE i = o.at
    BY <1>4, <1>14, <2>1, <2>2
  <2>3. CASE i # o.at
    <3>1. i < o.at
      BY <1>3, <2>3
    <3>2. Stay(Backup!DeleteOrder[i]) = {}
      BY <1>3, <3>1
    <3> QED
      BY <1>14, <2>1, <3>2
  <2> QED
    BY <2>2, <2>3
<1>16. CASE o.at = 9
  <2>1. dbOp'.pc = "inserting" /\ dbOp'.at = 1
    BY <1>10, <1>16
  <2>2. EventsCovered'
    BY <1>2, <1>13, <1>16
  <2>3. dbRaced \/ \A u \in Backup!Table : db[u] \ g[u] = {}
    BY <1>15, <1>16, TableOrders
  <2>4. \A i \in 1 .. 9 :
          /\ dbOp'.put[Backup!RestoreOrder[i]] = {}
          /\ ~(i < dbOp'.at)
    BY <1>12, <2>1, TableNames, BackupConstants
  <2>5. Restoring'
    BY <1>1, <1>3, <1>12, <2>1, <2>2, <2>3, <2>4 DEF Restoring, HasFile, Stay
  <2>6. Capturing' /\ Recapturing'
    BY <2>1 DEF Capturing, Recapturing
  <2> QED
    BY <1>1, <1>11, <2>5, <2>6, ScriptGoesOn
<1>17. CASE o.at # 9
  <2>1. dbOp'.pc = "deleting" /\ dbOp'.at = o.at + 1 /\ dbOp'.at \in 1 .. 9
    BY <1>3, <1>10, <1>17
  <2>2. dbOp'.at > 4 => EventsCovered'
    BY <1>2, <1>3, <1>13, <2>1
  <2>3. dbRaced \/ \A i \in 1 .. 9 :
          i < dbOp'.at => db[Backup!DeleteOrder[i]] \ g[Backup!DeleteOrder[i]] = {}
    BY <1>3, <1>15, <2>1
  <2>4. Restoring'
    BY <1>1, <1>3, <1>12, <2>1, <2>2, <2>3 DEF Restoring, HasFile, Stay
  <2>5. Capturing' /\ Recapturing'
    BY <2>1 DEF Capturing, Recapturing
  <2> QED
    BY <1>1, <1>11, <2>4, <2>5, ScriptGoesOn
<1> QED
  BY <1>16, <1>17

(* What Restoring says of a transaction that inserts *)
LEMMA Inserting ==
  ASSUME BackupInv, dbOp.pc = "inserting"
  PROVE  /\ HasFile /\ dbOutcome = "none" /\ (dbFaults = 0 => dbSchema = "ready")
         /\ EventsCovered /\ dbOp \in ScriptType /\ dbOp.at # 0 /\ db \in BackupRows
         /\ dbFile.rows \in BackupRows
         /\ dbRaced \/ \A t \in Backup!Table : Stay(t) = {}
         /\ \A i \in 1 .. 9 :
              dbOp.put[Backup!CaptureOrder[i]] =
                IF i < dbOp.at THEN dbFile.rows[Backup!CaptureOrder[i]] ELSE {}
         /\ dbTorn \/ Backup!Sound(dbFile.rows)
<1>1. Restoring /\ BackupTypes /\ FileSound
  BY DEF BackupInv
<1> QED
  BY <1>1, TableNames DEF Restoring, BackupTypes, FileSound, ScriptType

LEMMA InsertTableStep == BackupInv /\ Backup!InsertTable => BackupInv'
<1> SUFFICES ASSUME BackupInv, Backup!InsertTable PROVE BackupInv'
  OBVIOUS
<1>1. /\ ScriptOnly /\ dbFile' = dbFile /\ dbOutcome' = dbOutcome /\ dbRaced' = dbRaced
      /\ dbFaults' = dbFaults /\ dbTorn' = dbTorn /\ db' = db /\ dbSchema' = dbSchema
      /\ dbOp.pc = "inserting"
  BY DEF Backup!InsertTable, ScriptOnly
<1>2. PICK o : o = dbOp
  OBVIOUS
<1>3. /\ o \in ScriptType /\ o.pc = "inserting" /\ o.at \in 1 .. 9
      /\ EventsCovered /\ dbFile.rows \in BackupRows
      /\ dbRaced \/ \A u \in Backup!Table : Stay(u) = {}
      /\ \A i \in 1 .. 9 :
           o.put[Backup!CaptureOrder[i]] =
             IF i < o.at THEN dbFile.rows[Backup!CaptureOrder[i]] ELSE {}
      /\ HasFile /\ dbOutcome = "none" /\ (dbFaults = 0 => dbSchema = "ready")
  <2>1. o.at <= 9
    BY <1>2, TableNames DEF Backup!InsertTable
  <2> QED
    BY <1>1, <1>2, <2>1, Inserting DEF ScriptType
<1>4. PICK t : t = Backup!CaptureOrder[o.at]
  OBVIOUS
<1>5. t \in Backup!Table /\ {"events", "alerts"} \subseteq Backup!Table
  BY <1>3, <1>4, TableNames
<1>6. ~Backup!Orphans(t)
  BY <1>2, <1>4, TableNames DEF Backup!InsertTable
<1>7. PICK f : f = dbFile.rows[t]
  OBVIOUS
<1>8. PICK r : r = [o.put EXCEPT ![t] = f]
  OBVIOUS
<1>9. r \in BackupRows /\ r[t] = f /\ \A u \in Backup!Table : u # t => r[u] = o.put[u]
  BY <1>3, <1>5, <1>7, <1>8 DEF BackupRows, ScriptType
<1>10. dbOp' = [o EXCEPT !.put = r, !.at = o.at + 1]
  <2>1. dbOp' = [dbOp EXCEPT !.put[Backup!RestoreOrder[dbOp.at]] = dbFile.rows[Backup!RestoreOrder[dbOp.at]],
                             !.at = @ + 1]
    BY DEF Backup!InsertTable
  <2>2. Backup!RestoreOrder[dbOp.at] = t
    BY <1>2, <1>4, TableNames
  <2> QED
    BY <1>2, <1>3, <1>7, <1>8, <2>1, <2>2 DEF ScriptType, BackupRows
<1>11. dbOp' = [pc |-> o.pc, at |-> o.at + 1, rows |-> o.rows, schema |-> o.schema, gone |-> o.gone,
                put |-> r]
  BY <1>3, <1>10 DEF ScriptType
<1>12. dbOp' \in ScriptType /\ dbOp'.at # 0
  BY <1>3, <1>9, <1>11 DEF ScriptType
<1>13. dbOp'.pc = "inserting" /\ dbOp'.at = o.at + 1 /\ dbOp'.put = r /\ dbOp'.gone = o.gone
  BY <1>3, <1>11
<1>14. ASSUME NEW i \in 1 .. 9
       PROVE  r[Backup!CaptureOrder[i]] =
                IF i < o.at + 1 THEN dbFile.rows[Backup!CaptureOrder[i]] ELSE {}
  <2>1. CASE i = o.at
    BY <1>4, <1>7, <1>9, <2>1
  <2>2. CASE i # o.at
    <3>1. Backup!CaptureOrder[i] # t
      BY <1>3, <1>4, <2>2, TablesApart
    <3>2. r[Backup!CaptureOrder[i]] = o.put[Backup!CaptureOrder[i]]
      BY <1>9, <3>1, TableNames
    <3>3. i < o.at + 1 <=> i < o.at
      BY <1>3, <2>2
    <3> QED
      BY <1>3, <3>2, <3>3
  <2> QED
    BY <2>1, <2>2
<1>15. \A e \in Stay("events") : e.ref \in Backup!Keys(Stay("alerts"))
  BY <1>3 DEF EventsCovered
<1>16. ASSUME NEW e \in r["events"] PROVE e.ref \in Backup!Keys(r["alerts"] \cup Stay("alerts"))
  <2>1. CASE t = "events"
    <3>1. e \in dbFile.rows["events"] /\ r["alerts"] = o.put["alerts"]
      BY <1>5, <1>7, <1>9, <1>16, <2>1
    <3>2. e.ref \in Backup!Keys(o.put["alerts"] \cup Stay("alerts"))
      BY <1>2, <1>6, <2>1, <3>1 DEF Backup!Orphans, Backup!Others, Stay
    <3> QED
      BY <3>1, <3>2
  <2>2. CASE t = "alerts"
    <3>1. o.at = 6
      <4>1. Backup!CaptureOrder[6] = "alerts" /\ 6 \in 1 .. 9
        BY TableOrders
      <4> QED
        BY <1>3, <1>4, <2>2, <4>1, TablesApart
    <3>2. Backup!CaptureOrder[7] = "events"
      BY TableOrders
    <3>3. o.put["events"] = {}
      BY <1>3, <3>1, <3>2
    <3> QED
      BY <1>5, <1>9, <1>16, <2>2, <3>3
  <2>3. CASE t \notin {"events", "alerts"}
    <3>1. r["events"] = o.put["events"] /\ r["alerts"] = o.put["alerts"]
      BY <1>5, <1>9, <2>3
    <3> QED
      BY <1>2, <1>3, <1>16, <3>1 DEF EventsCovered
  <2> QED
    BY <2>1, <2>2, <2>3
<1>17. EventsCovered'
  BY <1>1, <1>2, <1>13, <1>15, <1>16 DEF EventsCovered, Stay
<1>18. Restoring'
  <2>1. \A i \in 1 .. 9 :
          dbOp'.put[Backup!RestoreOrder[i]] =
            IF i < dbOp'.at THEN dbFile.rows[Backup!RestoreOrder[i]] ELSE {}
    BY <1>13, <1>14, TableNames
  <2>2. dbRaced \/ \A u \in Backup!Table : db[u] \ dbOp'.gone[u] = {}
    BY <1>2, <1>3, <1>13 DEF Stay
  <2> QED
    BY <1>1, <1>3, <1>13, <1>17, <2>1, <2>2 DEF Restoring, HasFile, Stay
<1>19. Capturing' /\ Recapturing'
  BY <1>13 DEF Capturing, Recapturing
<1> QED
  BY <1>1, <1>12, <1>18, <1>19, ScriptGoesOn

LEMMA RefusedStep == BackupInv /\ Backup!Refused => BackupInv'
<1> SUFFICES ASSUME BackupInv, Backup!Refused PROVE BackupInv'
  OBVIOUS
<1>1. /\ ScriptOnly /\ dbFile' = dbFile /\ dbOutcome' = "refused" /\ dbRaced' = dbRaced
      /\ dbFaults' = dbFaults /\ dbTorn' = dbTorn /\ dbOp' = Backup!NoScript
      /\ dbOp.pc = "inserting" /\ dbOp.at <= 9
  BY TableNames DEF Backup!Refused, ScriptOnly
<1>2. PICK t : t = Backup!CaptureOrder[dbOp.at]
  OBVIOUS
<1>3. Backup!Orphans(t) \/ Backup!Clashes(t)
  BY <1>2, TableNames DEF Backup!Refused
<1>4. dbOp.at \in 1 .. 9 /\ t \in Backup!Table
  BY <1>1, <1>2, Inserting, TableNames DEF ScriptType
<1>5. dbTorn \/ dbRaced
  <2>1. CASE Backup!Clashes(t)
    <3>1. Stay(t) # {}
      BY <2>1 DEF Backup!Clashes, Backup!Others, Stay
    <3> QED
      BY <1>1, <1>4, <3>1, Inserting
  <2>2. CASE Backup!Orphans(t)
    <3>1. t = "events"
      BY <2>2 DEF Backup!Orphans
    <3>2. dbOp.at = 7 /\ Backup!CaptureOrder[6] = "alerts" /\ 6 \in 1 .. 9
      <4>1. /\ Backup!CaptureOrder[7] = "events" /\ 7 \in 1 .. 9
            /\ Backup!CaptureOrder[6] = "alerts" /\ 6 \in 1 .. 9
        BY TableOrders
      <4> QED
        BY <1>2, <1>4, <3>1, <4>1, TablesApart
    <3>3. dbOp.put["alerts"] = dbFile.rows["alerts"]
      BY <1>1, <3>2, Inserting
    <3>4. PICK e \in dbFile.rows["events"] :
            e.ref \notin Backup!Keys(dbOp.put["alerts"] \cup Backup!Others("alerts"))
      BY <2>2 DEF Backup!Orphans
    <3>5. e.ref \notin Backup!Keys(dbFile.rows["alerts"])
      BY <3>3, <3>4 DEF Backup!Keys
    <3>6. ~Backup!Sound(dbFile.rows)
      BY <3>4, <3>5 DEF Backup!Sound
    <3> QED
      BY <1>1, <3>6, Inserting
  <2> QED
    BY <1>3, <2>1, <2>2
<1>6. dbOutcome = "none" /\ HasFile /\ dbFaults' \in Nat /\ dbFaults' >= dbFaults
  BY <1>1, Inserting DEF BackupInv, BackupTypes
<1> QED
  BY <1>1, <1>5, <1>6, ScriptEnds

LEMMA ScriptFailsStep == BackupInv /\ Backup!ScriptFails => BackupInv'
<1> SUFFICES ASSUME BackupInv, Backup!ScriptFails PROVE BackupInv'
  OBVIOUS
<1>1. /\ ScriptOnly /\ dbFile' = dbFile /\ dbRaced' = dbRaced
      /\ dbFaults' = dbFaults + 1 /\ dbTorn' = dbTorn /\ dbOp' = Backup!NoScript
      /\ dbOutcome' = IF dbOp.pc \in {"deleting", "inserting"} THEN "failed" ELSE dbOutcome
  BY DEF Backup!ScriptFails, ScriptOnly
<1>2. dbFaults' \in Nat /\ dbFaults' >= dbFaults
  BY <1>1 DEF BackupInv, BackupTypes
<1>3. dbOp.pc \in {"deleting", "inserting"} => dbOutcome = "none" /\ HasFile
  BY DEF BackupInv, Restoring
<1>4. dbOutcome' = "refused" => dbTorn \/ dbRaced
  BY <1>1 DEF BackupInv, RestoreFaithful, Backup!RestoreFaithful
<1>5. \/ dbOutcome' = dbOutcome
      \/ dbOutcome = "none" /\ HasFile /\ dbOutcome' \in {"refused", "failed"}
  BY <1>1, <1>3
<1> QED
  BY <1>1, <1>2, <1>4, <1>5, ScriptEnds

LEMMA RestoreCommitStep == \A validated \in BOOLEAN : BackupInv /\ Backup!Commit(validated) => BackupInv'
<1> SUFFICES ASSUME NEW validated \in BOOLEAN, BackupInv, Backup!Commit(validated) PROVE BackupInv'
  OBVIOUS
<1>1. /\ dbFile' = dbFile /\ dbOutcome' = "restored" /\ dbRaced' = dbRaced /\ dbTorn' = dbTorn
      /\ dbFaults' = dbFaults /\ dbSchema' = dbSchema /\ dbJob' = dbJob /\ dbMem' = dbMem
      /\ dbWrites' = dbWrites /\ dbOp.pc = "inserting" /\ dbOp.at > 9
      /\ db' = [t \in Backup!Table |-> (db[t] \ dbOp.gone[t]) \cup dbOp.put[t]]
      /\ dbSchema \in SchemaStatus
  BY TableNames DEF Backup!Commit, BackupInv, BackupTypes
<1>2. /\ HasFile /\ (dbFaults = 0 => dbSchema = "ready") /\ EventsCovered
      /\ dbOp \in ScriptType /\ db \in BackupRows /\ dbFile.rows \in BackupRows
      /\ dbTorn \/ Backup!Sound(dbFile.rows)
      /\ dbRaced \/ \A t \in Backup!Table : Stay(t) = {}
  BY <1>1, Inserting
<1>3. db' \in BackupRows /\ \A t \in Backup!Table : db'[t] = Stay(t) \cup dbOp.put[t]
  BY <1>1, <1>2 DEF BackupRows, ScriptType, Stay
<1>4. EventsOfAlerts'
  <2>1. {"events", "alerts"} \subseteq Backup!Table
    BY TableNames
  <2>2. db'["events"] = Stay("events") \cup dbOp.put["events"]
    BY <1>3, <2>1
  <2>3. db'["alerts"] = Stay("alerts") \cup dbOp.put["alerts"]
    BY <1>3, <2>1
  <2>4. \A e \in db'["events"] : e.ref \in Backup!Keys(Stay("alerts") \cup dbOp.put["alerts"])
    BY <1>2, <2>2 DEF EventsCovered, Backup!Keys
  <2> QED
    BY <2>3, <2>4 DEF EventsOfAlerts
<1>5. dbRaced \/ db' = dbFile.rows
  <2> SUFFICES ASSUME ~dbRaced PROVE db' = dbFile.rows
    OBVIOUS
  <2>1. ASSUME NEW t \in Backup!Table PROVE db'[t] = dbFile.rows[t]
    <3>1. PICK i \in 1 .. 9 : Backup!CaptureOrder[i] = t
      BY TableOrders
    <3>2. i < dbOp.at
      BY <1>1, <1>2 DEF ScriptType
    <3>3. dbOp.put[t] = dbFile.rows[t]
      BY <1>1, <3>1, <3>2, Inserting
    <3> QED
      BY <1>2, <1>3, <3>3
  <2> QED
    BY <1>2, <1>3, <2>1 DEF BackupRows
<1>6. /\ dbOp' \in ScriptType /\ dbOp'.at = 1 /\ dbOp'.pc \in {"idle", "recapturing"}
      /\ dbOp'.pc = "recapturing" => dbOp'.schema = dbSchema
  <2>1. PICK n : n = Backup!NoScript
    OBVIOUS
  <2>2. n \in ScriptType /\ n.at = 1 /\ n.pc = "idle"
    BY <2>1, ScriptIdle DEF ScriptType
  <2>3. CASE validated
    <3>1. dbOp' = [n EXCEPT !.pc = "recapturing", !.schema = dbSchema]
      BY <2>1, <2>3 DEF Backup!Commit
    <3> QED
      BY <1>1, <2>2, <3>1 DEF ScriptType
  <2>4. CASE ~validated
    <3>1. dbOp' = n
      BY <2>1, <2>4 DEF Backup!Commit
    <3> QED
      BY <2>2, <3>1
  <2> QED
    BY <2>3, <2>4
<1>7. BackupTypes'
  BY <1>1, <1>3, <1>6 DEF BackupInv, BackupTypes, ScriptType
<1>8. WritesSound'
  BY <1>1 DEF WritesSound, Unrestored
<1>9. Capturing' /\ Restoring'
  BY <1>6 DEF Capturing, Restoring
<1>10. Recapturing'
  <2>1. Captured'
    BY <1>6 DEF Captured
  <2> QED
    BY <1>1, <1>2, <1>6, <2>1 DEF Recapturing
<1>11. FileSound'
  BY <1>1, <1>2, <1>6 DEF BackupInv, FileSound, HasFile
<1>12. RestoreFaithful'
  <2>1. \A e \in db'["events"] : e.ref \in Backup!Keys(db'["alerts"])
    BY <1>4 DEF EventsOfAlerts
  <2>2. ~dbRaced => db' = dbFile.rows /\ (Backup!Sound(db') \/ dbTorn)
    BY <1>2, <1>5
  <2> QED
    BY <1>1, <2>1, <2>2 DEF RestoreFaithful, Backup!RestoreFaithful
<1> QED
  BY <1>4, <1>7, <1>8, <1>9, <1>10, <1>11, <1>12 DEF BackupInv

LEMMA JudgeStep == BackupInv /\ Backup!Judge => BackupInv'
<1> SUFFICES ASSUME BackupInv, Backup!Judge PROVE BackupInv'
  OBVIOUS
<1>1. /\ ScriptOnly /\ dbFile' = dbFile /\ dbRaced' = dbRaced /\ dbTorn' = dbTorn
      /\ dbFaults' = dbFaults /\ dbOp' = Backup!NoScript /\ db' = db
      /\ dbOp.pc = "recapturing" /\ dbOp.at > 9
      /\ dbOutcome' = Backup!Status(dbFile, [rows |-> dbOp.rows, schema |-> dbOp.schema])
  BY TableNames DEF Backup!Judge, ScriptOnly
<1>2. /\ dbOutcome = "restored" /\ (dbFaults = 0 => dbOp.schema = "ready")
      /\ dbRaced \/ Captured
      /\ dbFaults \in Nat /\ HasFile
  BY <1>1 DEF BackupInv, BackupTypes, Recapturing, FileSound
<1>3. dbOutcome' \in Backup!Statuses
  BY <1>1 DEF Backup!Status, Backup!Statuses
<1>4. dbOutcome' \notin Unrestored
  BY <1>3 DEF Backup!Statuses, Unrestored
<1>5. BackupTypes'
  BY <1>1, <1>3, <1>4, ScriptOnlyStep, ScriptIdle DEF BackupInv, BackupTypes
<1>6. WritesSound' /\ EventsOfAlerts'
  BY <1>1, <1>4, ScriptOnlyStep
<1>7. Capturing' /\ Restoring' /\ Recapturing'
  BY <1>1, ScriptIdle DEF Capturing, Restoring, Recapturing
<1>8. FileSound'
  BY <1>1, <1>2, ScriptIdle DEF BackupInv, FileSound, HasFile
<1>9. ASSUME ~dbRaced
      PROVE  /\ db = dbFile.rows /\ (Backup!Sound(db) \/ dbTorn)
             /\ dbOutcome' # "content_mismatch"
             /\ dbOutcome' = "count_or_metadata_mismatch" => dbFile.schema # "ready" \/ dbFaults > 0
  <2>1. db = dbFile.rows /\ (Backup!Sound(db) \/ dbTorn)
    BY <1>2, <1>9 DEF BackupInv, RestoreFaithful, Backup!RestoreFaithful
  <2>2. dbOp.rows = dbFile.rows
    BY <1>1, <1>2, <1>9, <2>1, AllCaptured DEF BackupInv
  <2>3. dbOutcome' = IF dbFile.schema # dbOp.schema THEN "count_or_metadata_mismatch"
                     ELSE "exact_match"
    BY <1>1, <2>2 DEF Backup!Status
  <2> QED
    BY <1>2, <2>1, <2>3
<1>10. RestoreFaithful'
  <2>1. \A e \in db'["events"] : e.ref \in Backup!Keys(db'["alerts"])
    BY <1>6 DEF EventsOfAlerts
  <2>2. dbOutcome' \notin {"refused", "none", "not_ready", "failed"}
    BY <1>4 DEF Unrestored
  <2> QED
    BY <1>1, <1>9, <2>1, <2>2 DEF RestoreFaithful, Backup!RestoreFaithful
<1> QED
  BY <1>5, <1>6, <1>7, <1>8, <1>10 DEF BackupInv

(* A restore is faithful, whatever the services write, whenever the schema  *)
(* changes and wherever a script fails or dies: it is refused only when a   *)
(* service wrote while the backup was taken or after the restore began; if  *)
(* none did the tables are the backup's, and the validation reports no      *)
(* content_mismatch; until it commits the tables are sound, and events      *)
(* always have their alerts.                                                *)
THEOREM RestoreAlwaysFaithful == Backup!Spec => []RestoreFaithful
<1>1. BackupInv /\ [Backup!Next]_(Backup!vars) => BackupInv'
  <2> SUFFICES ASSUME BackupInv, [Backup!Next]_(Backup!vars) PROVE BackupInv'
    OBVIOUS
  <2>1. CASE UNCHANGED Backup!vars
    <3>1. /\ ScriptOnly /\ dbFile' = dbFile /\ dbOutcome' = dbOutcome /\ dbRaced' = dbRaced
          /\ dbFaults' = dbFaults /\ dbTorn' = dbTorn /\ dbOp' = dbOp
      BY <2>1 DEF Backup!vars, ScriptOnly
    <3>2. dbOp' \in ScriptType /\ dbOp'.at # 0
      BY <3>1 DEF BackupInv, BackupTypes, ScriptType, FileSound
    <3>3. Capturing'
      BY <3>1 DEF BackupInv, Capturing, Captured, ScriptOnly
    <3>4. Restoring'
      BY <3>1 DEF BackupInv, Restoring, HasFile, EventsCovered, Stay, ScriptOnly
    <3>5. Recapturing'
      BY <3>1 DEF BackupInv, Recapturing, Captured, ScriptOnly
    <3> QED
      BY <3>1, <3>2, <3>3, <3>4, <3>5, ScriptGoesOn
  <2>2. CASE Backup!Next
    BY <2>2, ServiceStep, BeginCaptureStep, CaptureTableStep, SaveFileStep, BeginRestoreStep,
       DeleteTableStep, InsertTableStep, RefusedStep, RestoreCommitStep, JudgeStep, ScriptFailsStep
    DEF Backup!Next
  <2> QED
    BY <2>1, <2>2
<1>2. BackupInv => RestoreFaithful
  BY DEF BackupInv
<1> QED
  BY <1>1, <1>2, BackupInit, PTL DEF Backup!Spec
-----------------------------------------------------------------------------
(* The paper runtime.  One cycle runs at a time, whoever called runCycle.   *)
(* An interval is armed by the resumes that fall into start(), and only an  *)
(* error path that a resume overtakes takes one away.                       *)

PaperPlace ==
  {"idle", "starting", "called", "refreshing", "pausing", "intake", "wallet", "intakeBlocked",
   "engine", "concluding", "summing", "failing", "errorSumming", "closing"}
PaperStatus == {"idle", "running", "paused", "stopped", "error"}

InCycle(c) == paperAt[c] \notin {"idle", "starting", "called"}
InErrorPath(c) == paperAt[c] \in {"failing", "errorSumming"}

PaperDown ==
  /\ paperStatus = "idle" /\ paperInterval = FALSE /\ paperIntervals = 0 /\ paperOverlaps = 0
  /\ \A c \in Paper!Caller : paperAt[c] = "idle"

PaperRuns ==
  /\ paperAt \in [Paper!Caller -> PaperPlace] /\ paperStatus \in PaperStatus
  /\ paperUp \in BOOLEAN /\ paperInterval \in BOOLEAN /\ paperOvertaken \in BOOLEAN
  /\ paperIntervals \in Nat /\ paperOverlaps \in Nat
  /\ paperUp \/ PaperDown
  /\ \A c \in Paper!Caller : InCycle(c) => paperCycleInFlight
  /\ \A c, d \in Paper!Caller : InCycle(c) /\ InCycle(d) => c = d
  /\ \A c \in Paper!Caller : InErrorPath(c) /\ paperStatus = "running" => paperOvertaken
  /\ paperInterval => paperIntervals >= 1
  /\ paperAt["start"] = "idle" =>
       /\ paperIntervals <= paperOverlaps + (IF paperInterval THEN 1 ELSE 0)
       /\ paperStatus = "running" => paperInterval \/ paperOvertaken
  /\ paperAt["start"] # "idle" =>
       /\ paperIntervals <= (IF paperInterval THEN 1 ELSE 0)
       /\ paperInterval => paperOverlaps >= 1

(* What the files tell of a cycle, and of the one whose time it carries *)
Executed(n) == n \in 1 .. MaxPaperCycles /\ "execution_result" \in paperJournal[n]

Told(s) ==
  /\ s.cycle \in 1 .. paperCycles
  /\ s.outcome = "success" => Paper!AllEntries \subseteq paperJournal[s.cycle]
  /\ s.outcome = "blocked" /\ s.staged \notin {"risk", "ingest"} =>
       "canonical_trade" \in paperJournal[s.cycle]
  /\ s.executed => Executed(s.stamp)
  /\ s.recovered => s.ends \/ ~s.passed

(* What a cycle under way knows at its place *)
Knows(c) ==
  /\ InCycle(c) =>
       /\ paperCycles >= 1
       /\ \A i \in 1 .. 5 : i <= paperEntry => Paper!Entry[i] \in paperJournal[paperCycles]
  /\ InCycle(c) /\ paperAt[c] # "closing" =>
       \A i \in 1 .. Len(paperSummaries) : paperSummaries[i].cycle # paperCycles
  /\ paperAt[c] = "refreshing" => paperDraft = Paper!NoDraft
  /\ InCycle(c) /\ paperAt[c] \notin {"refreshing", "failing", "errorSumming", "closing"} =>
       paperLastCycleAt = paperCycles
  /\ paperAt[c] = "intake" => ~paperRecovered
  /\ paperAt[c] = "pausing" => paperDraft.outcome = "blocked" /\ paperDraft.stage = "risk"
  /\ paperAt[c] = "concluding" /\ paperDraft.outcome = "success" => paperEntry = 5
  /\ paperAt[c] = "summing" =>
       /\ paperDraft.outcome = "success" => Paper!AllEntries \subseteq paperJournal[paperCycles]
       /\ paperDraft.outcome = "blocked" /\ paperDraft.stage \notin {"risk", "ingest"} =>
            "canonical_trade" \in paperJournal[paperCycles]
  /\ InErrorPath(c) => paperDraft.outcome = "error"

PaperStage ==
  {"none", "ingest", "risk", "signal", "monitor", "last", "decision_outcome", "risk_decision",
   "chaos_decision", "execution_result", "verification_result"}
PaperDraft ==
  [outcome : {"none", "success", "blocked", "error"}, stage : PaperStage, executed : BOOLEAN,
   passed : BOOLEAN, ends : BOOLEAN, rejects : BOOLEAN]
PaperState == [cycle : Nat, executed : BOOLEAN, same : BOOLEAN]
PaperSummary ==
  [cycle : Nat, stamp : Nat, outcome : {"none", "success", "blocked", "error"}, executed : BOOLEAN,
   recovered : BOOLEAN, staged : PaperStage, passed : BOOLEAN, ends : BOOLEAN]

PaperTypes ==
  /\ paperJournal \in [1 .. MaxPaperCycles -> SUBSET Paper!AllEntries]
  /\ paperSummaries \in Seq(PaperSummary) /\ paperCycles \in 0 .. MaxPaperCycles
  /\ paperEntry \in 0 .. 5 /\ paperDraft \in PaperDraft /\ paperLastState \in PaperState
  /\ paperLastCycleAt \in Nat /\ paperRecovered \in BOOLEAN /\ paperDegraded \in BOOLEAN

PaperTold == \A i \in 1 .. Len(paperSummaries) : Told(paperSummaries[i])
PaperOnce ==
  \A i, j \in 1 .. Len(paperSummaries) : paperSummaries[i].cycle = paperSummaries[j].cycle => i = j

(* What the draft and the last state claim *)
PaperClaims ==
  /\ paperDraft.executed => Executed(paperLastCycleAt)
  /\ paperLastState.executed => Executed(paperLastState.cycle)
  /\ paperDraft.passed /\ paperRecovered => paperDraft.ends

PaperTells ==
  PaperTypes /\ PaperTold /\ PaperOnce /\ PaperClaims /\ \A c \in Paper!Caller : Knows(c)

PaperInv == PaperRuns /\ PaperTells

LEMMA PaperInitRuns == Paper!Init => PaperRuns
<1> SUFFICES ASSUME Paper!Init PROVE PaperRuns
  OBVIOUS
<1>1. /\ paperAt = [c \in Paper!Caller |-> "idle"] /\ paperStatus = "idle" /\ paperUp = FALSE
      /\ paperInterval = FALSE /\ paperIntervals = 0 /\ paperOverlaps = 0 /\ paperOvertaken = FALSE
  BY DEF Paper!Init
<1>2. \A c \in Paper!Caller : paperAt[c] = "idle"
  BY <1>1
<1>3. "start" \in Paper!Caller
  BY DEF Paper!Caller
<1>4. PaperDown
  BY <1>1, <1>2 DEF PaperDown
<1>5. paperAt \in [Paper!Caller -> PaperPlace] /\ paperStatus \in PaperStatus
  BY <1>1 DEF PaperPlace, PaperStatus
<1>6. \A c \in Paper!Caller : ~InCycle(c) /\ ~InErrorPath(c)
  BY <1>2 DEF InCycle, InErrorPath
<1>7. /\ paperUp \in BOOLEAN /\ paperInterval \in BOOLEAN /\ paperOvertaken \in BOOLEAN
      /\ ~paperInterval
  BY <1>1, Zenon
<1>8. /\ paperIntervals \in Nat /\ paperOverlaps \in Nat
      /\ paperIntervals <= paperOverlaps + 0
  BY <1>1
<1>9. paperStatus # "running" /\ paperAt["start"] = "idle"
  BY <1>1, <1>2, <1>3
<1> QED
  BY <1>4, <1>5, <1>6, <1>7, <1>8, <1>9 DEF PaperRuns

(* The process goes down. *)
LEMMA PaperDownRuns == PaperRuns /\ Paper!ProcessDown => PaperRuns'
<1> SUFFICES ASSUME Paper!ProcessDown PROVE PaperRuns'
  OBVIOUS
<1>1. /\ paperAt' = [c \in Paper!Caller |-> "idle"] /\ paperStatus' = "idle" /\ paperUp' = FALSE
      /\ paperInterval' = FALSE /\ paperIntervals' = 0 /\ paperOverlaps' = 0
      /\ paperOvertaken' = FALSE
  BY DEF Paper!ProcessDown
<1>2. \A c \in Paper!Caller : paperAt'[c] = "idle"
  BY <1>1
<1>3. "start" \in Paper!Caller
  BY DEF Paper!Caller
<1>4. PaperDown'
  BY <1>1, <1>2 DEF PaperDown
<1>5. paperAt' \in [Paper!Caller -> PaperPlace] /\ paperStatus' \in PaperStatus
  BY <1>1 DEF PaperPlace, PaperStatus
<1>6. \A c \in Paper!Caller : ~InCycle(c)' /\ ~InErrorPath(c)'
  BY <1>2 DEF InCycle, InErrorPath
<1>7. /\ paperUp' \in BOOLEAN /\ paperInterval' \in BOOLEAN /\ paperOvertaken' \in BOOLEAN
      /\ ~paperInterval'
  BY <1>1, Zenon
<1>8. /\ paperIntervals' \in Nat /\ paperOverlaps' \in Nat
      /\ paperIntervals' <= paperOverlaps' + 0
  BY <1>1
<1>9. paperStatus' # "running" /\ paperAt'["start"] = "idle"
  BY <1>1, <1>2, <1>3
<1> QED
  BY <1>4, <1>5, <1>6, <1>7, <1>8, <1>9 DEF PaperRuns

(* Caller c goes on to another place of the cycle. *)
PaperMoves(c, place) ==
  /\ paperAt' = [paperAt EXCEPT ![c] = place]
  /\ paperUp' = paperUp /\ paperCycleInFlight' = paperCycleInFlight
  /\ paperOvertaken' = paperOvertaken /\ paperOverlaps' = paperOverlaps

LEMMA PaperThere ==
  ASSUME PaperRuns, NEW c \in Paper!Caller, NEW place \in PaperPlace,
         paperAt' = [paperAt EXCEPT ![c] = place]
  PROVE  /\ paperAt' \in [Paper!Caller -> PaperPlace] /\ paperAt'[c] = place
         /\ \A d \in Paper!Caller : d # c => paperAt'[d] = paperAt[d]
BY DEF PaperRuns

LEMMA PaperMovesRuns ==
  ASSUME PaperRuns, NEW c \in Paper!Caller, InCycle(c),
         NEW place \in PaperPlace \ {"idle", "starting", "called"}, PaperMoves(c, place),
         paperInterval' = paperInterval, paperIntervals' = paperIntervals,
         paperStatus' \in PaperStatus, paperStatus' = "running" => paperStatus = "running",
         place \in {"failing", "errorSumming"} =>
           paperStatus' # "running" \/ InErrorPath(c)
  PROVE  PaperRuns'
<1>1. /\ paperAt' \in [Paper!Caller -> PaperPlace] /\ paperAt'[c] = place
      /\ \A d \in Paper!Caller : d # c => paperAt'[d] = paperAt[d]
  BY PaperThere DEF PaperMoves
<1>2. /\ paperUp' = paperUp /\ paperCycleInFlight' = paperCycleInFlight
      /\ paperOvertaken' = paperOvertaken /\ paperOverlaps' = paperOverlaps
  BY DEF PaperMoves
<1>3. \A d \in Paper!Caller : InCycle(d)' <=> InCycle(d)
  BY <1>1 DEF InCycle
<1>4. paperUp
  BY DEF PaperRuns, PaperDown, InCycle
<1>5. paperAt["start"] # "idle" <=> paperAt'["start"] # "idle"
  BY <1>1 DEF InCycle, Paper!Caller
<1>6. \A d \in Paper!Caller : InErrorPath(d)' /\ paperStatus' = "running" => paperOvertaken'
  BY <1>1, <1>2 DEF PaperRuns, InErrorPath
<1> QED
  BY <1>1, <1>2, <1>3, <1>4, <1>5, <1>6 DEF PaperRuns

(* A step of the cycle that is no end of it *)
PaperSteps(c) ==
  \/ Paper!Refresh(c) \/ Paper!Pausing(c) \/ Paper!Intake(c) \/ Paper!Wallet(c)
  \/ Paper!IntakeBlocked(c) \/ Paper!NoTrade(c) \/ Paper!Stage(c) \/ Paper!Passed(c)
  \/ Paper!Conclude(c) \/ Paper!Summing(c) \/ Paper!Failing(c)

LEMMA PaperFailMoves ==
  ASSUME NEW c \in Paper!Caller, Paper!Fail(c), UNCHANGED <<paperOvertaken, paperOverlaps>>
  PROVE  /\ PaperMoves(c, "failing") /\ paperStatus' = "error"
         /\ paperInterval' = paperInterval /\ paperIntervals' = paperIntervals
BY DEF Paper!Fail, Paper!Goto, PaperMoves

LEMMA PaperStepsRuns ==
  ASSUME PaperRuns, NEW c \in Paper!Caller, PaperSteps(c)
  PROVE  PaperRuns'
<1>1. /\ InCycle(c) /\ PaperRuns /\ paperAt[c] \in PaperPlace
      /\ paperAt[c] \notin {"idle", "starting", "called"} /\ paperStatus \in PaperStatus
  BY DEF PaperSteps, PaperRuns, InCycle, Paper!Refresh, Paper!Pausing, Paper!Intake, Paper!Wallet,
         Paper!IntakeBlocked, Paper!NoTrade, Paper!Stage, Paper!Passed, Paper!Conclude,
         Paper!Summing, Paper!Failing
<1>2. CASE Paper!Fail(c) /\ UNCHANGED <<paperOvertaken, paperOverlaps>>
  <2>1. /\ PaperMoves(c, "failing") /\ paperStatus' = "error"
        /\ paperInterval' = paperInterval /\ paperIntervals' = paperIntervals
    BY <1>2, PaperFailMoves
  <2> QED
    BY <1>1, <2>1, PaperMovesRuns DEF PaperPlace, PaperStatus
<1>3. ASSUME ~(Paper!Fail(c) /\ UNCHANGED <<paperOvertaken, paperOverlaps>>), ~Paper!Failing(c)
      PROVE  \E place \in {"pausing", "intake", "engine", "summing", "intakeBlocked", "wallet",
                           "concluding", "closing", paperAt[c]} :
               /\ PaperMoves(c, place)
               /\ paperInterval' = paperInterval /\ paperIntervals' = paperIntervals
               /\ paperStatus' = paperStatus \/ paperStatus' = "paused"
               /\ place = paperAt[c] => place \notin {"failing", "errorSumming"}
  <2>1. CASE Paper!Refresh(c)
    <3>1. CASE paperRecordedKill
      <4>1. PaperMoves(c, "pausing") /\ paperStatus' = "paused"
        BY <1>3, <2>1, <3>1 DEF Paper!Refresh, Paper!Steady, Paper!Goto, PaperMoves, Paper!history
      <4>2. paperInterval' = paperInterval /\ paperIntervals' = paperIntervals
        BY <1>3, <2>1, <3>1 DEF Paper!Refresh, Paper!Steady, Paper!history
      <4> QED
        BY <4>1, <4>2
    <3>2. CASE ~paperRecordedKill
      <4>1. PaperMoves(c, IF paperMode = "paper" THEN "intake" ELSE "engine")
        BY <1>3, <2>1, <3>2 DEF Paper!Refresh, Paper!Steady, Paper!Goto, PaperMoves, Paper!history
      <4>2. paperInterval' = paperInterval /\ paperIntervals' = paperIntervals
            /\ paperStatus' = paperStatus
        BY <1>3, <2>1, <3>2 DEF Paper!Refresh, Paper!Steady, Paper!history
      <4> QED
        BY <4>1, <4>2
    <3> QED
      BY <3>1, <3>2
  <2>2. CASE Paper!Pausing(c)
    <3>1. PaperMoves(c, "summing")
      BY <1>3, <2>2
      DEF Paper!Pausing, Paper!Written, Paper!Steady, Paper!Goto, PaperMoves, Paper!history
    <3>2. paperInterval' = paperInterval /\ paperIntervals' = paperIntervals
          /\ paperStatus' = paperStatus
      BY <1>3, <2>2 DEF Paper!Pausing, Paper!Written, Paper!Steady, Paper!history
    <3> QED
      BY <3>1, <3>2
  <2>3. CASE Paper!Intake(c)
    <3>1. PaperMoves(c, "intakeBlocked") \/ PaperMoves(c, "wallet")
      BY <2>3 DEF Paper!Intake, Paper!Steady, Paper!Goto, PaperMoves, Paper!history
    <3>2. paperInterval' = paperInterval /\ paperIntervals' = paperIntervals
          /\ paperStatus' = paperStatus
      BY <2>3 DEF Paper!Intake, Paper!Steady
    <3> QED
      BY <3>1, <3>2
  <2>4. CASE Paper!Wallet(c)
    <3>1. PaperMoves(c, "intakeBlocked") \/ PaperMoves(c, "engine")
      BY <1>3, <2>4
      DEF Paper!Wallet, Paper!Written, Paper!Steady, Paper!Goto, PaperMoves, Paper!history
    <3>2. paperInterval' = paperInterval /\ paperIntervals' = paperIntervals
          /\ paperStatus' = paperStatus
      BY <1>3, <2>4 DEF Paper!Wallet, Paper!Written, Paper!Steady, Paper!history
    <3> QED
      BY <3>1, <3>2
  <2>5. CASE Paper!IntakeBlocked(c)
    <3>1. PaperMoves(c, "summing")
      BY <1>3, <2>5 DEF Paper!IntakeBlocked, Paper!Steady, Paper!Goto, PaperMoves, Paper!history
    <3>2. paperInterval' = paperInterval /\ paperIntervals' = paperIntervals
          /\ paperStatus' = paperStatus
      BY <1>3, <2>5 DEF Paper!IntakeBlocked, Paper!Steady, Paper!history
    <3> QED
      BY <3>1, <3>2
  <2>6. CASE Paper!NoTrade(c) \/ Paper!Passed(c)
    <3>1. PaperMoves(c, "concluding")
      BY <2>6 DEF Paper!NoTrade, Paper!Passed, Paper!Steady, Paper!Goto, PaperMoves, Paper!history
    <3>2. paperInterval' = paperInterval /\ paperIntervals' = paperIntervals
          /\ paperStatus' = paperStatus
      BY <2>6 DEF Paper!NoTrade, Paper!Passed, Paper!Steady
    <3> QED
      BY <3>1, <3>2
  <2>7. CASE Paper!Stage(c)
    <3>1. paperAt[c] = "engine" /\ paperAt = [paperAt EXCEPT ![c] = "engine"]
      BY <2>7 DEF Paper!Stage, PaperRuns
    <3>2. paperAt' = paperAt \/ paperAt' = [paperAt EXCEPT ![c] = "concluding"]
      BY <1>3, <2>7 DEF Paper!Stage, Paper!Goto, Paper!history
    <3>3. /\ paperUp' = paperUp /\ paperCycleInFlight' = paperCycleInFlight
          /\ paperOvertaken' = paperOvertaken /\ paperOverlaps' = paperOverlaps
          /\ paperInterval' = paperInterval /\ paperIntervals' = paperIntervals
          /\ paperStatus' = paperStatus
      BY <1>3, <2>7 DEF Paper!Stage, Paper!history
    <3>4. PaperMoves(c, "engine") \/ PaperMoves(c, "concluding")
      BY <3>1, <3>2, <3>3 DEF PaperMoves
    <3> QED
      BY <3>1, <3>3, <3>4
  <2>8. CASE Paper!Conclude(c)
    <3>1. PaperMoves(c, "summing")
      BY <1>3, <2>8 DEF Paper!Conclude, Paper!Goto, PaperMoves, Paper!history
    <3>2. paperInterval' = paperInterval /\ paperIntervals' = paperIntervals
          /\ paperStatus' = paperStatus
      BY <1>3, <2>8 DEF Paper!Conclude, Paper!history
    <3> QED
      BY <3>1, <3>2
  <2>9. CASE Paper!Summing(c)
    <3>1. PaperMoves(c, "closing")
      BY <1>3, <2>9
      DEF Paper!Summing, Paper!Written, Paper!Steady, Paper!Goto, PaperMoves, Paper!history
    <3>2. paperInterval' = paperInterval /\ paperIntervals' = paperIntervals
          /\ paperStatus' = paperStatus
      BY <1>3, <2>9 DEF Paper!Summing, Paper!Written, Paper!Steady, Paper!history
    <3> QED
      BY <3>1, <3>2
  <2> QED
    BY <1>3, <2>1, <2>2, <2>3, <2>4, <2>5, <2>6, <2>7, <2>8, <2>9 DEF PaperSteps
<1>4. CASE ~(Paper!Fail(c) /\ UNCHANGED <<paperOvertaken, paperOverlaps>>) /\ ~Paper!Failing(c)
  <2>1. PICK place \in {"pausing", "intake", "engine", "summing", "intakeBlocked", "wallet",
                        "concluding", "closing", paperAt[c]} :
               /\ PaperMoves(c, place)
               /\ paperInterval' = paperInterval /\ paperIntervals' = paperIntervals
               /\ paperStatus' = paperStatus \/ paperStatus' = "paused"
               /\ place = paperAt[c] => place \notin {"failing", "errorSumming"}
    BY <1>3, <1>4
  <2>2. place \in PaperPlace \ {"idle", "starting", "called"}
    BY <1>1, <2>1 DEF PaperPlace
  <2>3. place \notin {"failing", "errorSumming"}
    BY <2>1
  <2>4. paperStatus' \in PaperStatus /\ (paperStatus' = "running" => paperStatus = "running")
    BY <1>1, <2>1 DEF PaperStatus
  <2> QED
    BY <1>1, <2>1, <2>2, <2>3, <2>4, PaperMovesRuns
<1>5. CASE Paper!Failing(c)
  <2>1. /\ PaperMoves(c, "errorSumming") \/ PaperMoves(c, "closing")
        /\ paperInterval' = paperInterval /\ paperIntervals' = paperIntervals
        /\ paperStatus' = paperStatus /\ InErrorPath(c)
    BY <1>5 DEF Paper!Failing, Paper!ErrorPathFails, Paper!Goto, PaperMoves, Paper!history, InErrorPath
  <2> QED
    BY <1>1, <2>1, PaperMovesRuns DEF PaperPlace
<1> QED
  BY <1>2, <1>4, <1>5

LEMMA ErrorSummingRuns ==
  ASSUME PaperRuns, NEW c \in Paper!Caller, Paper!ErrorSumming(c)
  PROVE  PaperRuns'
<1>1. /\ PaperMoves(c, "closing") /\ paperStatus' = paperStatus /\ InCycle(c) /\ InErrorPath(c)
  BY DEF Paper!ErrorSumming, Paper!ErrorPathFails, Paper!Goto, PaperMoves, Paper!history, InErrorPath,
         InCycle
<1>2. CASE paperInterval' = paperInterval /\ paperIntervals' = paperIntervals
  BY <1>1, <1>2, PaperMovesRuns DEF PaperPlace, PaperRuns
<1>3. CASE Paper!ClearInterval
  <2>1. /\ paperInterval' = FALSE
        /\ paperIntervals' = IF paperInterval THEN paperIntervals - 1 ELSE paperIntervals
    BY <1>3 DEF Paper!ClearInterval
  <2>2. /\ paperAt' \in [Paper!Caller -> PaperPlace] /\ paperAt'[c] = "closing"
        /\ \A d \in Paper!Caller : d # c => paperAt'[d] = paperAt[d]
    BY <1>1, PaperThere DEF PaperMoves, PaperPlace
  <2>3. /\ paperUp' = paperUp /\ paperCycleInFlight' = paperCycleInFlight
        /\ paperOvertaken' = paperOvertaken /\ paperOverlaps' = paperOverlaps
    BY <1>1 DEF PaperMoves
  <2>4. \A d \in Paper!Caller : InCycle(d)' <=> InCycle(d)
    BY <1>1, <2>2 DEF InCycle
  <2>5. paperUp /\ (paperStatus = "running" => paperOvertaken)
    BY <1>1 DEF PaperRuns, PaperDown, InCycle
  <2>6. paperAt["start"] # "idle" <=> paperAt'["start"] # "idle"
    BY <1>1, <2>2 DEF InCycle, Paper!Caller
  <2>7. \A d \in Paper!Caller : InErrorPath(d)' => InErrorPath(d)
    BY <2>2 DEF InErrorPath
  <2>8. /\ paperIntervals' \in Nat /\ paperIntervals \in Nat /\ paperOverlaps \in Nat
        /\ paperIntervals' = paperIntervals - (IF paperInterval THEN 1 ELSE 0)
    BY <2>1 DEF PaperRuns
  <2>9. /\ paperAt'["start"] = "idle" => paperIntervals' <= paperOverlaps' + 0
        /\ paperAt'["start"] # "idle" => paperIntervals' <= 0
    BY <2>3, <2>6, <2>8 DEF PaperRuns
  <2>10. paperInterval' \in BOOLEAN /\ ~paperInterval'
    BY <2>1, Zenon
  <2> QED
    BY <1>1, <2>2, <2>3, <2>4, <2>5, <2>6, <2>7, <2>8, <2>9, <2>10 DEF PaperRuns
<1> QED
  BY <1>2, <1>3 DEF Paper!ErrorSumming, Paper!ErrorPathFails

(* A caller leaves, or start() arms its interval and leaves. *)
LEMMA PaperLeaves ==
  ASSUME PaperRuns, NEW c \in Paper!Caller, paperAt[c] # "idle",
         paperAt' = [paperAt EXCEPT ![c] = "idle"],
         paperUp' = paperUp, paperStatus' = paperStatus, paperOvertaken' = paperOvertaken,
         paperOverlaps' = paperOverlaps,
         paperCycleInFlight' = paperCycleInFlight \/ InCycle(c),
         paperInterval' = (paperInterval \/ c = "start"),
         paperIntervals' = IF c = "start" THEN paperIntervals + 1 ELSE paperIntervals
  PROVE  PaperRuns'
<1>1. /\ paperAt' \in [Paper!Caller -> PaperPlace] /\ paperAt'[c] = "idle"
      /\ \A d \in Paper!Caller : d # c => paperAt'[d] = paperAt[d]
  BY PaperThere DEF PaperPlace
<1>2. \A d \in Paper!Caller : InCycle(d)' => InCycle(d) /\ d # c
  BY <1>1 DEF InCycle
<1>3. \A d \in Paper!Caller : InCycle(d)' => paperCycleInFlight'
  BY <1>2 DEF PaperRuns
<1>4. \A d, e \in Paper!Caller : InCycle(d)' /\ InCycle(e)' => d = e
  BY <1>2 DEF PaperRuns
<1>5. \A d \in Paper!Caller : InErrorPath(d)' => InErrorPath(d)
  BY <1>1 DEF InErrorPath
<1>6. paperUp
  BY DEF PaperRuns, PaperDown
<1>7. paperIntervals \in Nat /\ paperOverlaps \in Nat /\ paperInterval \in BOOLEAN
  BY DEF PaperRuns
<1>8. CASE c = "start"
  <2>1. paperInterval' /\ paperInterval' \in BOOLEAN
    BY <1>8, Zenon
  <2>2. /\ paperIntervals' = paperIntervals + 1 /\ paperAt'["start"] = "idle"
        /\ paperAt["start"] # "idle"
    BY <1>1, <1>8
  <2>3. paperIntervals' \in Nat /\ paperIntervals' >= 1 /\ paperIntervals' <= paperOverlaps' + 1
    BY <1>7, <2>2 DEF PaperRuns
  <2> QED
    BY <1>1, <1>3, <1>4, <1>5, <1>6, <2>1, <2>2, <2>3 DEF PaperRuns
<1>9. CASE c # "start"
  <2>1. paperInterval' = paperInterval
    BY <1>7, <1>9, Zenon
  <2>2. paperIntervals' = paperIntervals /\ paperAt'["start"] = paperAt["start"]
    BY <1>1, <1>9 DEF Paper!Caller
  <2> QED
    BY <1>1, <1>3, <1>4, <1>5, <1>6, <2>1, <2>2 DEF PaperRuns
<1> QED
  BY <1>8, <1>9

LEMMA CloseRuns ==
  ASSUME PaperRuns, NEW c \in Paper!Caller, Paper!Close(c)
  PROVE  PaperRuns'
<1>1. CASE paperDraft.rejects /\ c # "resume"
  BY <1>1, PaperDownRuns DEF Paper!Close
<1>2. CASE ~(paperDraft.rejects /\ c # "resume")
  <2>1. /\ paperAt[c] = "closing" /\ paperAt' = [paperAt EXCEPT ![c] = "idle"]
        /\ paperUp' = paperUp /\ paperStatus' = paperStatus /\ paperOvertaken' = paperOvertaken
        /\ paperOverlaps' = paperOverlaps
        /\ paperInterval' = (paperInterval \/ c = "start")
        /\ paperIntervals' = IF c = "start" THEN paperIntervals + 1 ELSE paperIntervals
    BY <1>2 DEF Paper!Close, Paper!Goto, Paper!history
  <2>2. InCycle(c)
    BY <2>1 DEF InCycle
  <2> QED
    BY <2>1, <2>2, PaperLeaves
<1> QED
  BY <1>1, <1>2

(* runCycle is entered by a caller that waits, or by a tick. *)
LEMMA EnterRuns ==
  ASSUME PaperRuns, NEW c \in Paper!Caller, Paper!EnterCycle(c), ~InCycle(c), paperUp,
         c = "start" \/ c = "resume" => paperAt[c] # "idle",
         c = "timer" => paperAt[c] = "idle" /\ Paper!MayEnter,
         paperUp' = paperUp, paperStatus' = paperStatus, paperOvertaken' = paperOvertaken,
         paperOverlaps' = paperOverlaps
  PROVE  PaperRuns'
<1>1. CASE Paper!MayEnter /\ paperAt' = [paperAt EXCEPT ![c] = "refreshing"]
           /\ paperCycleInFlight' = TRUE
           /\ paperInterval' = paperInterval /\ paperIntervals' = paperIntervals
  <2>1. /\ paperAt' \in [Paper!Caller -> PaperPlace] /\ paperAt'[c] = "refreshing"
        /\ \A d \in Paper!Caller : d # c => paperAt'[d] = paperAt[d]
    BY <1>1, PaperThere DEF PaperPlace
  <2>2. \A d \in Paper!Caller : ~InCycle(d)
    BY <1>1 DEF PaperRuns, Paper!MayEnter
  <2>3. \A d \in Paper!Caller : InCycle(d)' => d = c
    BY <2>1, <2>2 DEF InCycle
  <2>4. \A d \in Paper!Caller : ~InErrorPath(d)'
    BY <2>1, <2>2 DEF InErrorPath, InCycle
  <2>5. paperAt["start"] # "idle" <=> paperAt'["start"] # "idle"
    BY <2>1 DEF Paper!Caller
  <2> QED
    BY <1>1, <2>1, <2>3, <2>4, <2>5 DEF PaperRuns
<1>2. CASE /\ ~Paper!MayEnter /\ paperAt' = [paperAt EXCEPT ![c] = "idle"]
           /\ paperCycleInFlight' = paperCycleInFlight
           /\ paperInterval' = (paperInterval \/ c = "start")
           /\ paperIntervals' = IF c = "start" THEN paperIntervals + 1 ELSE paperIntervals
  <2>1. paperAt[c] # "idle"
    BY <1>2 DEF Paper!Caller
  <2> QED
    BY <1>2, <2>1, PaperLeaves
<1> QED
  BY <1>1, <1>2 DEF Paper!EnterCycle, Paper!Goto

(* What a control does to the places: nothing. *)
LEMMA ControlRuns ==
  ASSUME PaperRuns, paperUp, paperUp' = paperUp, paperAt' = paperAt,
         paperCycleInFlight' = paperCycleInFlight, paperOvertaken' = paperOvertaken,
         paperOverlaps' = paperOverlaps, paperStatus' \in PaperStatus,
         paperStatus' = "running" => paperStatus = "running",
         \/ paperInterval' = paperInterval /\ paperIntervals' = paperIntervals
         \/ Paper!ClearInterval /\ paperStatus' # "running"
  PROVE  PaperRuns'
<1>1. \A d \in Paper!Caller : (InCycle(d)' <=> InCycle(d)) /\ (InErrorPath(d)' <=> InErrorPath(d))
  BY DEF InCycle, InErrorPath
<1>2. CASE paperInterval' = paperInterval /\ paperIntervals' = paperIntervals
  BY <1>1, <1>2 DEF PaperRuns
<1>3. CASE Paper!ClearInterval /\ paperStatus' # "running"
  <2>1. /\ paperInterval' = FALSE
        /\ paperIntervals' = IF paperInterval THEN paperIntervals - 1 ELSE paperIntervals
    BY <1>3 DEF Paper!ClearInterval
  <2>2. /\ paperIntervals' \in Nat /\ paperIntervals \in Nat /\ paperOverlaps \in Nat
        /\ paperIntervals' = paperIntervals - (IF paperInterval THEN 1 ELSE 0)
    BY <2>1 DEF PaperRuns
  <2>3. /\ paperAt'["start"] = "idle" => paperIntervals' <= paperOverlaps' + 0
        /\ paperAt'["start"] # "idle" => paperIntervals' <= 0
    BY <2>2 DEF PaperRuns
  <2>4. paperInterval' \in BOOLEAN /\ ~paperInterval'
    BY <2>1, Zenon
  <2> QED
    BY <1>1, <1>3, <2>2, <2>3, <2>4 DEF PaperRuns
<1> QED
  BY <1>2, <1>3

LEMMA ResumeRuns == PaperRuns /\ Paper!Resume => PaperRuns'
<1> SUFFICES ASSUME PaperRuns, Paper!Resume PROVE PaperRuns'
  OBVIOUS
<1>1. /\ paperUp /\ paperUp' = paperUp /\ paperCycleInFlight' = paperCycleInFlight
      /\ paperStatus = "paused" /\ paperStatus' = "running" /\ paperAt["resume"] = "idle"
      /\ paperInterval' = TRUE /\ paperAt' = [paperAt EXCEPT !["resume"] = "called"]
      /\ paperIntervals' = IF paperInterval THEN paperIntervals ELSE paperIntervals + 1
      /\ paperOvertaken' = (paperOvertaken \/ \E c \in Paper!Caller : InErrorPath(c))
      /\ paperOverlaps' = IF paperAt["start"] # "idle" THEN paperOverlaps + 1 ELSE paperOverlaps
  BY DEF Paper!Resume, Paper!Control, Paper!Goto, InErrorPath
<1>2. "resume" \in Paper!Caller /\ "start" \in Paper!Caller /\ "called" \in PaperPlace
  BY DEF Paper!Caller, PaperPlace
<1>3. /\ paperAt' \in [Paper!Caller -> PaperPlace] /\ paperAt'["resume"] = "called"
      /\ \A d \in Paper!Caller : d # "resume" => paperAt'[d] = paperAt[d]
  BY <1>1, <1>2, PaperThere
<1>4. \A d \in Paper!Caller : (InCycle(d)' => InCycle(d)) /\ (InErrorPath(d)' => InErrorPath(d))
  BY <1>3 DEF InCycle, InErrorPath
<1>5. /\ paperOvertaken \in BOOLEAN /\ paperInterval \in BOOLEAN
      /\ paperIntervals \in Nat /\ paperOverlaps \in Nat
  BY DEF PaperRuns
<1>6. /\ paperOvertaken' \in BOOLEAN
      /\ \A d \in Paper!Caller : InErrorPath(d)' /\ paperStatus' = "running" => paperOvertaken'
  BY <1>1, <1>4, <1>5, Zenon
<1>7. paperInterval' /\ paperInterval' \in BOOLEAN
  BY <1>1, Zenon
<1>8. paperAt'["start"] = paperAt["start"]
  BY <1>2, <1>3
<1>9. /\ paperIntervals' \in Nat /\ paperOverlaps' \in Nat /\ paperIntervals' >= 1
      /\ paperAt'["start"] = "idle" => paperIntervals' <= paperOverlaps' + 1
      /\ paperAt'["start"] # "idle" => paperIntervals' <= 1 /\ paperOverlaps' >= 1
  BY <1>1, <1>5, <1>8 DEF PaperRuns
<1>10. paperStatus' \in PaperStatus
  BY <1>1 DEF PaperStatus
<1>11. /\ \A d \in Paper!Caller : InCycle(d)' => paperCycleInFlight'
       /\ \A d, e \in Paper!Caller : InCycle(d)' /\ InCycle(e)' => d = e
  BY <1>1, <1>4 DEF PaperRuns
<1> QED
  BY <1>1, <1>3, <1>6, <1>7, <1>9, <1>10, <1>11 DEF PaperRuns

LEMMA BootRuns == PaperRuns /\ Paper!Boot => PaperRuns'
<1> SUFFICES ASSUME PaperRuns, Paper!Boot PROVE PaperRuns'
  OBVIOUS
<1>1. /\ ~paperUp /\ paperUp' = TRUE /\ paperStatus' = "running"
      /\ paperAt' = [paperAt EXCEPT !["start"] = "starting"]
      /\ paperCycleInFlight' = paperCycleInFlight /\ paperOvertaken' = paperOvertaken
      /\ paperOverlaps' = paperOverlaps /\ paperInterval' = paperInterval
      /\ paperIntervals' = paperIntervals
  BY DEF Paper!Boot, Paper!Goto, Paper!history
<1>2. "start" \in Paper!Caller /\ "starting" \in PaperPlace
  BY DEF Paper!Caller, PaperPlace
<1>3. /\ paperAt' \in [Paper!Caller -> PaperPlace] /\ paperAt'["start"] = "starting"
      /\ \A d \in Paper!Caller : d # "start" => paperAt'[d] = paperAt[d]
  BY <1>1, <1>2, PaperThere
<1>4. PaperDown
  BY <1>1 DEF PaperRuns
<1>5. \A d \in Paper!Caller : ~InCycle(d)' /\ ~InErrorPath(d)'
  BY <1>3, <1>4 DEF InCycle, InErrorPath, PaperDown
<1>6. /\ ~paperInterval' /\ paperIntervals' = 0 /\ paperOverlaps' = 0
  BY <1>1, <1>4, Zenon DEF PaperDown
<1>7. paperStatus' \in PaperStatus
  BY <1>1 DEF PaperStatus
<1>8. /\ paperUp' /\ paperUp' \in BOOLEAN /\ paperInterval' \in BOOLEAN
      /\ paperOvertaken' \in BOOLEAN
  BY <1>1, Zenon DEF PaperRuns
<1> QED
  BY <1>3, <1>5, <1>6, <1>7, <1>8 DEF PaperRuns

LEMMA PaperNextRuns == PaperRuns /\ [Paper!Next]_paperVars => PaperRuns'
<1> SUFFICES ASSUME PaperRuns, [Paper!Next]_paperVars PROVE PaperRuns'
  OBVIOUS
<1>1. CASE \E c \in Paper!Caller : Paper!CycleStep(c)
  BY <1>1, PaperStepsRuns, ErrorSummingRuns, CloseRuns DEF Paper!CycleStep, PaperSteps
<1>2. CASE Paper!TimerFires
  <2>1. "timer" \in Paper!Caller /\ "timer" # "start" /\ "timer" # "resume"
    BY DEF Paper!Caller
  <2>2. ~InCycle("timer")
    BY <1>2 DEF Paper!TimerFires, InCycle
  <2> QED
    BY <1>2, <2>1, <2>2, EnterRuns DEF Paper!TimerFires, Paper!history
<1>3. CASE Paper!StartRunsCycle
  <2>1. CASE Paper!ProcessDown
    BY <2>1, PaperDownRuns
  <2>2. CASE ~Paper!ProcessDown
    <3>1. "start" \in Paper!Caller /\ "timer" # "start" /\ paperAt["start"] = "starting"
      BY <1>3 DEF Paper!Caller, Paper!StartRunsCycle
    <3>2. ~InCycle("start") /\ paperUp
      BY <3>1 DEF InCycle, PaperRuns, PaperDown
    <3> QED
      BY <1>3, <2>2, <3>1, <3>2, EnterRuns DEF Paper!StartRunsCycle, Paper!history
  <2> QED
    BY <2>1, <2>2
<1>4. CASE Paper!ResumeRunsCycle
  <2>1. "resume" \in Paper!Caller /\ "timer" # "resume" /\ paperAt["resume"] = "called"
    BY <1>4 DEF Paper!Caller, Paper!ResumeRunsCycle
  <2>2. ~InCycle("resume") /\ paperUp
    BY <2>1 DEF InCycle, PaperRuns, PaperDown
  <2> QED
    BY <1>4, <2>1, <2>2, EnterRuns DEF Paper!ResumeRunsCycle, Paper!history
<1>5. CASE Paper!Boot
  BY <1>5, BootRuns
<1>6. CASE Paper!Crash
  BY <1>6, PaperDownRuns DEF Paper!Crash
<1>7. CASE Paper!Pause \/ Paper!EmergencyStop
  <2>1. paperStatus' = "paused" /\ paperStatus' \in PaperStatus
    BY <1>7 DEF Paper!Pause, Paper!EmergencyStop, PaperStatus
  <2> QED
    BY <1>7, <2>1, ControlRuns DEF Paper!Pause, Paper!EmergencyStop, Paper!Control, Paper!history
<1>8. CASE Paper!Halt
  <2>1. paperStatus' = "stopped" /\ paperStatus' \in PaperStatus
    BY <1>8 DEF Paper!Halt, PaperStatus
  <2> QED
    BY <1>8, <2>1, ControlRuns DEF Paper!Halt, Paper!Control, Paper!history
<1>9. CASE Paper!Resume
  BY <1>9, ResumeRuns
<1>10. CASE Paper!ResetLiveKill
  <2>1. paperStatus' = paperStatus /\ paperStatus' \in PaperStatus
    BY <1>10 DEF Paper!ResetLiveKill, PaperRuns
  <2> QED
    BY <1>10, <2>1, ControlRuns DEF Paper!ResetLiveKill, Paper!Control, Paper!history
<1>11. CASE Paper!TriggerKill \/ UNCHANGED paperVars
  <2>1. /\ paperAt' = paperAt /\ paperStatus' = paperStatus /\ paperUp' = paperUp
        /\ paperInterval' = paperInterval /\ paperOvertaken' = paperOvertaken
        /\ paperIntervals' = paperIntervals /\ paperOverlaps' = paperOverlaps
        /\ paperCycleInFlight' = paperCycleInFlight
    BY <1>11 DEF Paper!TriggerKill, Paper!process, Paper!cycle, Paper!history, paperVars
  <2>2. \A d \in Paper!Caller :
          (InCycle(d)' <=> InCycle(d)) /\ (InErrorPath(d)' <=> InErrorPath(d))
    BY <2>1 DEF InCycle, InErrorPath
  <2>3. PaperDown' <=> PaperDown
    BY <2>1 DEF PaperDown
  <2> QED
    BY <2>1, <2>2, <2>3 DEF PaperRuns
<1> QED
  BY <1>1, <1>2, <1>3, <1>4, <1>5, <1>6, <1>7, <1>8, <1>9, <1>10, <1>11 DEF Paper!Next

LEMMA EntryFacts ==
  /\ Len(Paper!Entry) = 5
  /\ Paper!Entry[1] = "decision_outcome" /\ Paper!Entry[2] = "risk_decision"
  /\ Paper!Entry[3] = "chaos_decision" /\ Paper!Entry[4] = "execution_result"
  /\ Paper!Entry[5] = "verification_result"
  /\ Paper!AllEntries = {"decision_outcome", "risk_decision", "chaos_decision",
                         "execution_result", "verification_result", "canonical_trade"}
<1>1. /\ Len(Paper!Entry) = 5
      /\ Paper!Entry[1] = "decision_outcome" /\ Paper!Entry[2] = "risk_decision"
      /\ Paper!Entry[3] = "chaos_decision" /\ Paper!Entry[4] = "execution_result"
      /\ Paper!Entry[5] = "verification_result"
  BY DEF Paper!Entry
<1>2. 1 .. 5 = {1, 2, 3, 4, 5}
  OBVIOUS
<1> QED
  BY <1>1, <1>2 DEF Paper!AllEntries

(* The journal only grows, and so does the count of the cycles. *)
PaperGrows ==
  /\ paperCycles' \in 0 .. MaxPaperCycles /\ paperCycles <= paperCycles'
  /\ paperJournal' \in [1 .. MaxPaperCycles -> SUBSET Paper!AllEntries]
  /\ \A n \in 1 .. MaxPaperCycles : paperJournal[n] \subseteq paperJournal'[n]

LEMMA PaperRests ==
  ASSUME PaperTypes, paperCycles' = paperCycles, paperJournal' = paperJournal
  PROVE  PaperGrows
BY PaperConstants DEF PaperTypes, PaperGrows

LEMMA ToldStays ==
  ASSUME PaperTypes, PaperGrows, NEW s \in PaperSummary, Told(s)
  PROVE  Told(s)'
<1>1. s.cycle \in 1 .. paperCycles' /\ s.cycle \in 1 .. MaxPaperCycles
  BY PaperConstants DEF PaperTypes, PaperGrows, Told
<1>2. paperJournal[s.cycle] \subseteq paperJournal'[s.cycle]
  BY <1>1 DEF PaperGrows
<1>3. Executed(s.stamp) => Executed(s.stamp)'
  BY DEF PaperGrows, Executed
<1> QED
  BY <1>1, <1>2, <1>3 DEF Told

LEMMA SummariesStay ==
  ASSUME PaperTypes, PaperGrows, PaperTold, PaperOnce, paperSummaries' = paperSummaries
  PROVE  PaperTold' /\ PaperOnce'
<1>1. PICK l : l = paperSummaries
  OBVIOUS
<1>2. \A i \in 1 .. Len(l) : l[i] \in PaperSummary /\ Told(l[i])
  BY <1>1 DEF PaperTypes, PaperTold
<1>3. \A i \in 1 .. Len(l) : Told(l[i])'
  BY <1>2, ToldStays
<1>4. paperSummaries' = l
  BY <1>1
<1>5. PaperTold'
  BY <1>3, <1>4 DEF PaperTold, Told, Executed
<1> QED
  BY <1>5 DEF PaperOnce

LEMMA SummaryAdded ==
  ASSUME PaperTypes, PaperTold, PaperOnce, NEW s \in PaperSummary, Told(s),
         \A i \in 1 .. Len(paperSummaries) : paperSummaries[i].cycle # s.cycle,
         paperSummaries' = Append(paperSummaries, s),
         paperCycles' = paperCycles, paperJournal' = paperJournal
  PROVE  /\ paperSummaries' \in Seq(PaperSummary) /\ PaperTold' /\ PaperOnce'
<1>1. PICK l \in Seq(PaperSummary) : l = paperSummaries
  BY DEF PaperTypes
<1>2. PICK n \in Nat : n = Len(l)
  BY <1>1
<1>3. PICK k : k = Append(l, s)
  OBVIOUS
<1>4. /\ k \in Seq(PaperSummary) /\ Len(k) = n + 1 /\ k[n + 1] = s
      /\ \A i \in 1 .. n : k[i] = l[i]
  BY <1>1, <1>2, <1>3
<1>5. PaperGrows
  BY PaperRests
<1>6. \A i \in 1 .. n : l[i] \in PaperSummary /\ Told(l[i])
  BY <1>1, <1>2 DEF PaperTold
<1>7. \A i \in 1 .. n : Told(l[i])'
  BY <1>5, <1>6, ToldStays
<1>8. Told(s)'
  BY <1>5, ToldStays
<1>9. \A i \in 1 .. n + 1 : i \in 1 .. n \/ i = n + 1
  OBVIOUS
<1>10. \A i \in 1 .. n + 1 : Told(k[i])'
  BY <1>4, <1>7, <1>8, <1>9
<1>11. paperSummaries' = k
  BY <1>1, <1>3
<1>12. PaperTold'
  BY <1>4, <1>10, <1>11 DEF PaperTold, Told, Executed
<1>13. \A i, j \in 1 .. n : l[i].cycle = l[j].cycle => i = j
  BY <1>1, <1>2 DEF PaperOnce
<1>14. \A i \in 1 .. n : l[i].cycle # s.cycle
  BY <1>1, <1>2
<1>15. \A i, j \in 1 .. n + 1 : k[i].cycle = k[j].cycle => i = j
  BY <1>4, <1>9, <1>13, <1>14
<1>16. PaperOnce'
  BY <1>4, <1>11, <1>15 DEF PaperOnce
<1> QED
  BY <1>4, <1>11, <1>12, <1>16

(* One caller's knowledge is all there is: the others are in no cycle. *)
LEMMA KnowsAlone ==
  ASSUME PaperRuns', NEW c \in Paper!Caller, InCycle(c)', Knows(c)'
  PROVE  (\A d \in Paper!Caller : Knows(d))'
<1>1. \A d \in Paper!Caller : d # c => ~InCycle(d)'
  BY DEF PaperRuns
<1>2. \A d \in Paper!Caller : ~InCycle(d)' => Knows(d)'
  BY DEF InCycle, InErrorPath, Knows
<1> QED
  BY <1>1, <1>2

LEMMA KnowsNothing ==
  ASSUME \A d \in Paper!Caller : ~InCycle(d)'
  PROVE  (\A d \in Paper!Caller : Knows(d))'
<1>1. \A d \in Paper!Caller : Knows(d)'
  BY DEF InCycle, InErrorPath, Knows
<1> QED
  BY <1>1

LEMMA PaperInitTells == Paper!Init => PaperTells
<1> SUFFICES ASSUME Paper!Init PROVE PaperTells
  OBVIOUS
<1>1. /\ paperSummaries = <<>> /\ paperJournal = [n \in 1 .. MaxPaperCycles |-> {}]
      /\ paperEntry = 0 /\ paperDraft = Paper!NoDraft /\ paperLastState = Paper!NoState
      /\ paperLastCycleAt = 0 /\ paperDegraded = FALSE /\ paperRecovered = FALSE
      /\ paperCycles = 0 /\ paperAt = [c \in Paper!Caller |-> "idle"]
  BY DEF Paper!Init
<1>2. paperDegraded \in BOOLEAN /\ paperRecovered \in BOOLEAN
  BY <1>1, Zenon
<1>3. paperDraft \in PaperDraft /\ paperLastState \in PaperState
  BY <1>1 DEF Paper!NoDraft, Paper!NoState, PaperDraft, PaperStage, PaperState
<1>4. PaperTypes
  BY <1>1, <1>2, <1>3, PaperConstants DEF PaperTypes
<1>5. PaperTold /\ PaperOnce
  BY <1>1 DEF PaperTold, PaperOnce
<1>6. PaperClaims
  BY <1>1 DEF PaperClaims, Paper!NoDraft, Paper!NoState
<1>7. \A c \in Paper!Caller : Knows(c)
  BY <1>1 DEF Knows, InCycle, InErrorPath
<1> QED
  BY <1>4, <1>5, <1>6, <1>7 DEF PaperTells

LEMMA PaperDownTells ==
  ASSUME PaperTells, Paper!ProcessDown, paperCycles' = paperCycles,
         paperJournal' = paperJournal, paperSummaries' = paperSummaries
  PROVE  PaperTells'
<1>1. /\ paperEntry' = 0 /\ paperDraft' = Paper!NoDraft /\ paperLastState' = Paper!NoState
      /\ paperLastCycleAt' = 0 /\ paperDegraded' = FALSE /\ paperRecovered' = FALSE
      /\ paperAt' = [c \in Paper!Caller |-> "idle"]
  BY DEF Paper!ProcessDown
<1>2. paperDegraded' \in BOOLEAN /\ paperRecovered' \in BOOLEAN
  BY <1>1, Zenon
<1>3. paperDraft' \in PaperDraft /\ paperLastState' \in PaperState
  BY <1>1 DEF Paper!NoDraft, Paper!NoState, PaperDraft, PaperStage, PaperState
<1>4. PaperTypes'
  BY <1>1, <1>2, <1>3 DEF PaperTells, PaperTypes
<1>5. PaperTold' /\ PaperOnce'
  BY PaperRests, SummariesStay DEF PaperTells
<1>6. PaperClaims'
  BY <1>1 DEF PaperClaims, Paper!NoDraft, Paper!NoState
<1>7. (\A c \in Paper!Caller : Knows(c))'
  BY <1>1, KnowsNothing DEF InCycle
<1> QED
  BY <1>4, <1>5, <1>6, <1>7 DEF PaperTells

(* A step inside of the cycle of caller c that writes no summary *)
LEMMA CycleTells ==
  ASSUME PaperTells, PaperRuns', NEW c \in Paper!Caller, InCycle(c)', PaperGrows,
         paperSummaries' = paperSummaries, PaperTypes', PaperClaims', Knows(c)'
  PROVE  PaperTells'
BY SummariesStay, KnowsAlone DEF PaperTells

LEMMA CycleGoes ==
  ASSUME PaperRuns, NEW c \in Paper!Caller, NEW place \in PaperPlace, Paper!Goto(c, place)
  PROVE  paperAt'[c] = place
BY PaperThere DEF Paper!Goto

LEMMA FailTells ==
  ASSUME PaperRuns, PaperTells, PaperRuns', NEW c \in Paper!Caller, Paper!Fail(c), InCycle(c),
         paperAt[c] # "closing", paperJournal' = paperJournal, paperSummaries' = paperSummaries,
         paperCycles' = paperCycles, paperLastCycleAt' = paperLastCycleAt
  PROVE  PaperTells'
<1>1. PICK d \in PaperDraft : d = paperDraft
  BY DEF PaperTells, PaperTypes
<1>2. PICK l \in PaperState : l = paperLastState
  BY DEF PaperTells, PaperTypes
<1> DEFINE same == l.same /\ l.cycle = paperLastCycleAt
           ex == same /\ l.executed
           st == IF same THEN "last" ELSE "ingest"
<1>3. /\ paperDraft' = [d EXCEPT !.outcome = "error", !.executed = ex, !.stage = st]
      /\ paperLastState' = [cycle |-> paperLastCycleAt, executed |-> paperDraft'.executed,
                            same |-> TRUE]
      /\ Paper!Goto(c, "failing") /\ paperEntry' = paperEntry
      /\ paperDegraded' = paperDegraded /\ paperRecovered' = paperRecovered
  BY <1>1, <1>2 DEF Paper!Fail
<1>4. same \in BOOLEAN /\ ex \in BOOLEAN
  BY <1>2 DEF PaperState
<1>5. st \in PaperStage
  BY DEF PaperStage
<1>6. ex => Executed(paperLastCycleAt)
  BY <1>2 DEF PaperTells, PaperClaims
<1> HIDE DEF ex, st
<1>7. paperDraft' = [outcome |-> "error", stage |-> st, executed |-> ex, passed |-> d.passed,
                     ends |-> d.ends, rejects |-> d.rejects]
  BY <1>1, <1>3 DEF PaperDraft
<1>8. /\ paperDraft' \in PaperDraft /\ paperDraft'.executed = ex /\ paperDraft'.outcome = "error"
      /\ paperDraft'.passed = d.passed /\ paperDraft'.ends = d.ends
  BY <1>1, <1>4, <1>5, <1>7 DEF PaperDraft
<1>9. /\ paperLastState' \in PaperState /\ paperLastState'.executed = ex
      /\ paperLastState'.cycle = paperLastCycleAt
  BY <1>3, <1>4, <1>8 DEF PaperState, PaperTells, PaperTypes
<1>10. PaperTypes'
  BY <1>3, <1>8, <1>9 DEF PaperTells, PaperTypes
<1>11. Executed(paperLastCycleAt) => Executed(paperLastCycleAt)'
  BY DEF Executed
<1>12. ex => Executed(paperLastCycleAt)' /\ Executed(paperLastState.cycle)'
  BY <1>6, <1>9, <1>11 DEF Executed
<1>13. PaperClaims'
  BY <1>1, <1>3, <1>8, <1>9, <1>12 DEF PaperTells, PaperClaims
<1>14. paperAt'[c] = "failing"
  BY <1>3, CycleGoes DEF PaperPlace
<1>15. InCycle(c)' /\ Knows(c)
  BY <1>14 DEF InCycle, PaperTells
<1>16. Knows(c)'
  BY <1>3, <1>8, <1>14, <1>15 DEF Knows, InCycle, InErrorPath
<1> QED
  BY <1>10, <1>13, <1>15, <1>16, CycleTells, PaperRests DEF PaperTells

LEMMA ExecutedStays ==
  ASSUME PaperGrows, NEW n, Executed(n)
  PROVE  Executed(n)'
BY DEF PaperGrows, Executed

(* A step that changes neither the draft nor what the last cycles left *)
PaperMute ==
  /\ paperDraft' = paperDraft /\ paperLastState' = paperLastState
  /\ paperLastCycleAt' = paperLastCycleAt /\ paperRecovered' = paperRecovered

LEMMA MuteClaims ==
  ASSUME PaperTells, PaperGrows, PaperMute
  PROVE  PaperClaims'
<1>1. PICK n : n = paperLastCycleAt
  OBVIOUS
<1>2. PICK m : m = paperLastState.cycle
  OBVIOUS
<1>3. (Executed(n) => Executed(n)') /\ (Executed(m) => Executed(m)')
  BY ExecutedStays
<1>4. (Executed(n)' <=> Executed(paperLastCycleAt)') /\ (Executed(m)' <=> Executed(paperLastState.cycle)')
  BY <1>1, <1>2 DEF PaperMute, Executed
<1> QED
  BY <1>1, <1>2, <1>3, <1>4 DEF PaperTells, PaperClaims, PaperMute

LEMMA RefreshTells ==
  ASSUME PaperRuns, PaperTells, PaperRuns', NEW c \in Paper!Caller, Paper!Refresh(c)
  PROVE  PaperTells'
<1>1. /\ paperAt[c] = "refreshing" /\ InCycle(c) /\ paperDraft = Paper!NoDraft
      /\ paperJournal' = paperJournal /\ paperSummaries' = paperSummaries
      /\ paperCycles' = paperCycles
  BY DEF Paper!Refresh, Paper!disk, InCycle, PaperTells, Knows
<1>2. CASE Paper!Fail(c) /\ paperLastCycleAt' = paperLastCycleAt
  BY <1>1, <1>2, FailTells
<1>3. CASE ~(Paper!Fail(c) /\ paperLastCycleAt' = paperLastCycleAt)
  <2>1. /\ paperLastCycleAt' = paperCycles /\ paperEntry' = paperEntry
        /\ paperDegraded' = paperDegraded
    BY <1>3 DEF Paper!Refresh
  <2>2. PaperGrows
    BY <1>1, PaperRests DEF PaperTells
  <2>3. CASE paperRecordedKill
    <3>1. /\ paperDraft' = [paperDraft EXCEPT !.outcome = "blocked", !.stage = "risk"]
          /\ paperLastState' = [cycle |-> paperCycles, executed |-> FALSE, same |-> TRUE]
          /\ paperRecovered' = paperRecovered /\ Paper!Goto(c, "pausing")
      BY <1>3, <2>3 DEF Paper!Refresh
    <3>2. paperDraft' = [outcome |-> "blocked", stage |-> "risk", executed |-> FALSE,
                         passed |-> FALSE, ends |-> FALSE, rejects |-> FALSE]
      BY <1>1, <3>1 DEF Paper!NoDraft
    <3>3. paperDraft' \in PaperDraft
      BY <3>2 DEF PaperDraft, PaperStage
    <3>4. paperLastState' \in PaperState /\ ~paperLastState'.executed
      BY <3>1 DEF PaperState, PaperTells, PaperTypes
    <3>5. PaperTypes'
      BY <1>1, <2>1, <3>1, <3>3, <3>4, PaperConstants DEF PaperTells, PaperTypes
    <3>6. PaperClaims'
      BY <3>2, <3>4 DEF PaperClaims
    <3>7. paperAt'[c] = "pausing"
      BY <3>1, CycleGoes DEF PaperPlace
    <3>8. InCycle(c)' /\ Knows(c)
      BY <3>7 DEF InCycle, PaperTells
    <3>9. Knows(c)'
      BY <1>1, <2>1, <3>2, <3>7, <3>8 DEF Knows, InCycle, InErrorPath
    <3> QED
      BY <1>1, <2>2, <3>5, <3>6, <3>8, <3>9, CycleTells
  <2>4. CASE ~paperRecordedKill
    <3>1. /\ paperDraft' = [paperDraft EXCEPT !.passed = TRUE]
          /\ paperLastState' = paperLastState
          /\ paperRecovered' = FALSE /\ Paper!Goto(c, IF paperMode = "paper" THEN "intake" ELSE "engine")
      BY <1>3, <2>4 DEF Paper!Refresh, Paper!RecoveredAfterCheck
    <3>2. paperDraft' = [outcome |-> "none", stage |-> "none", executed |-> FALSE,
                         passed |-> TRUE, ends |-> FALSE, rejects |-> FALSE]
      BY <1>1, <3>1 DEF Paper!NoDraft
    <3>3. paperDraft' \in PaperDraft
      BY <3>2 DEF PaperDraft, PaperStage
    <3>4. paperRecovered' \in BOOLEAN /\ ~paperRecovered'
      BY <3>1, Zenon
    <3>5. PaperTypes'
      BY <1>1, <2>1, <3>1, <3>3, <3>4, PaperConstants DEF PaperTells, PaperTypes
    <3>6. Executed(paperLastState.cycle) => Executed(paperLastState.cycle)'
      BY <1>1, <3>1 DEF Executed
    <3>7. PaperClaims'
      BY <3>1, <3>2, <3>4, <3>6 DEF PaperTells, PaperClaims
    <3>8. \E place \in {"intake", "engine"} : Paper!Goto(c, place)
      BY <3>1
    <3>9. paperAt'[c] = "intake" \/ paperAt'[c] = "engine"
      BY <3>8, CycleGoes DEF PaperPlace
    <3>10. InCycle(c)' /\ Knows(c)
      BY <3>9 DEF InCycle, PaperTells
    <3>11. Knows(c)'
      BY <1>1, <2>1, <3>4, <3>9, <3>10 DEF Knows, InCycle, InErrorPath
    <3> QED
      BY <1>1, <2>2, <3>5, <3>7, <3>10, <3>11, CycleTells
  <2> QED
    BY <2>3, <2>4
<1> QED
  BY <1>2, <1>3

(* The writes of the cycle that only move on *)
LEMMA MovesTell ==
  ASSUME PaperRuns, PaperTells, PaperRuns', NEW c \in Paper!Caller,
         Paper!Pausing(c) \/ Paper!Wallet(c)
  PROVE  PaperTells'
<1>1. /\ paperAt[c] \in {"pausing", "wallet"} /\ InCycle(c)
      /\ paperJournal' = paperJournal /\ paperSummaries' = paperSummaries
      /\ paperCycles' = paperCycles /\ paperLastCycleAt' = paperLastCycleAt
  BY DEF Paper!Pausing, Paper!Wallet, Paper!disk, InCycle
<1>2. CASE Paper!Fail(c)
  BY <1>1, <1>2, FailTells
<1>3. CASE ~Paper!Fail(c)
  <2>1. /\ PaperMute /\ paperEntry' = paperEntry /\ paperDegraded' = paperDegraded
    BY <1>1, <1>3 DEF Paper!Pausing, Paper!Wallet, Paper!Written, PaperMute
  <2>2. \/ paperAt[c] = "pausing" /\ Paper!Goto(c, "summing")
        \/ paperAt[c] = "wallet" /\ \E place \in {"engine", "intakeBlocked"} : Paper!Goto(c, place)
    BY <1>3 DEF Paper!Pausing, Paper!Wallet, Paper!Written
  <2>3. \/ paperAt[c] = "pausing" /\ paperAt'[c] = "summing"
        \/ paperAt[c] = "wallet" /\ paperAt'[c] \in {"engine", "intakeBlocked"}
    BY <2>2, CycleGoes DEF PaperPlace
  <2>4. PaperGrows
    BY <1>1, PaperRests DEF PaperTells
  <2>5. PaperTypes' /\ PaperClaims'
    BY <1>1, <2>1, <2>4, MuteClaims DEF PaperTells, PaperTypes, PaperMute
  <2>6. InCycle(c)' /\ Knows(c)
    BY <2>3 DEF InCycle, PaperTells
  <2>7. Knows(c)'
    BY <1>1, <2>1, <2>3, <2>6 DEF Knows, InCycle, InErrorPath, PaperMute
  <2> QED
    BY <1>1, <2>4, <2>5, <2>6, <2>7, CycleTells
<1> QED
  BY <1>2, <1>3

LEMMA IntakeTells ==
  ASSUME PaperRuns, PaperTells, PaperRuns', NEW c \in Paper!Caller, Paper!Intake(c)
  PROVE  PaperTells'
<1>1. /\ paperAt[c] = "intake" /\ InCycle(c) /\ paperRecovered = FALSE
      /\ paperJournal' = paperJournal /\ paperSummaries' = paperSummaries
      /\ paperCycles' = paperCycles /\ paperLastCycleAt' = paperLastCycleAt
      /\ paperEntry' = paperEntry /\ paperLastState' = paperLastState
  BY Zenon DEF Paper!Intake, Paper!disk, InCycle, PaperTells, PaperTypes, Knows
<1>2. PaperGrows
  BY <1>1, PaperRests DEF PaperTells
<1>3. /\ Knows(c) /\ paperDegraded \in BOOLEAN
  BY DEF PaperTells, PaperTypes
<1>4. PICK d \in PaperDraft : d = paperDraft
  BY DEF PaperTells, PaperTypes
<1>5. CASE paperDegraded' = TRUE /\ Paper!Goto(c, "intakeBlocked")
           /\ paperRecovered' = paperRecovered /\ paperDraft' = paperDraft
  <2>1. PaperMute /\ paperDegraded' \in BOOLEAN
    BY <1>1, <1>5, Zenon DEF PaperMute
  <2>2. paperAt'[c] = "intakeBlocked"
    BY <1>5, CycleGoes DEF PaperPlace
  <2>3. PaperTypes' /\ PaperClaims'
    BY <1>1, <1>2, <2>1, MuteClaims DEF PaperTells, PaperTypes, PaperMute
  <2>4. InCycle(c)'
    BY <2>2 DEF InCycle
  <2>5. Knows(c)'
    BY <1>1, <1>3, <2>2 DEF Knows, InCycle, InErrorPath
  <2> QED
    BY <1>1, <1>2, <2>3, <2>4, <2>5, CycleTells
<1>6. CASE /\ paperDegraded' = FALSE /\ paperRecovered' = (paperRecovered \/ paperDegraded)
           /\ paperDraft' = [paperDraft EXCEPT !.ends = paperDegraded] /\ Paper!Goto(c, "wallet")
  <2>1. paperDegraded' \in BOOLEAN /\ paperRecovered' \in BOOLEAN /\ (paperRecovered' => paperDegraded)
    BY <1>1, <1>6, Zenon
  <2>2. paperDraft' = [outcome |-> d.outcome, stage |-> d.stage, executed |-> d.executed,
                       passed |-> d.passed, ends |-> paperDegraded, rejects |-> d.rejects]
    BY <1>4, <1>6 DEF PaperDraft
  <2>3. /\ paperDraft' \in PaperDraft /\ paperDraft'.executed = d.executed
        /\ paperDraft'.ends = paperDegraded
    BY <1>3, <1>4, <2>2 DEF PaperDraft
  <2>4. PaperTypes'
    BY <1>1, <2>1, <2>3 DEF PaperTells, PaperTypes
  <2>5. /\ Executed(paperLastCycleAt) => Executed(paperLastCycleAt)'
        /\ Executed(paperLastState.cycle) => Executed(paperLastState.cycle)'
    BY <1>1 DEF Executed
  <2>6. PaperClaims'
    BY <1>1, <1>4, <2>1, <2>3, <2>5 DEF PaperTells, PaperClaims
  <2>7. paperAt'[c] = "wallet"
    BY <1>6, CycleGoes DEF PaperPlace
  <2>8. InCycle(c)'
    BY <2>7 DEF InCycle
  <2>9. Knows(c)'
    BY <1>1, <1>3, <2>7 DEF Knows, InCycle, InErrorPath
  <2> QED
    BY <1>1, <1>2, <2>4, <2>6, <2>8, <2>9, CycleTells
<1> QED
  BY <1>5, <1>6 DEF Paper!Intake

LEMMA IntakeBlockedTells ==
  ASSUME PaperRuns, PaperTells, PaperRuns', NEW c \in Paper!Caller, Paper!IntakeBlocked(c)
  PROVE  PaperTells'
<1>1. /\ paperAt[c] = "intakeBlocked" /\ InCycle(c) /\ Knows(c)
      /\ paperJournal' = paperJournal /\ paperSummaries' = paperSummaries
      /\ paperCycles' = paperCycles /\ paperLastCycleAt' = paperLastCycleAt
  BY DEF Paper!IntakeBlocked, Paper!disk, InCycle, PaperTells
<1>2. CASE Paper!Fail(c)
  BY <1>1, <1>2, FailTells
<1>3. CASE ~Paper!Fail(c)
  <2>1. /\ paperLastState' = [cycle |-> paperCycles, executed |-> FALSE, same |-> TRUE]
        /\ paperDraft' = [paperDraft EXCEPT !.outcome = "blocked", !.stage = "ingest"]
        /\ Paper!Goto(c, "summing") /\ paperEntry' = paperEntry
        /\ paperDegraded' = paperDegraded /\ paperRecovered' = paperRecovered
    BY <1>3 DEF Paper!IntakeBlocked
  <2>2. PICK d \in PaperDraft : d = paperDraft
    BY DEF PaperTells, PaperTypes
  <2>3. paperDraft' = [outcome |-> "blocked", stage |-> "ingest", executed |-> d.executed,
                       passed |-> d.passed, ends |-> d.ends, rejects |-> d.rejects]
    BY <2>1, <2>2 DEF PaperDraft
  <2>4. paperDraft' \in PaperDraft
    BY <2>2, <2>3 DEF PaperDraft, PaperStage
  <2>5. paperLastState' \in PaperState /\ ~paperLastState'.executed
    BY <2>1 DEF PaperState, PaperTells, PaperTypes
  <2>6. PaperTypes'
    BY <1>1, <2>1, <2>4, <2>5 DEF PaperTells, PaperTypes
  <2>7. Executed(paperLastCycleAt) => Executed(paperLastCycleAt)'
    BY <1>1 DEF Executed
  <2>8. PaperClaims'
    BY <2>1, <2>2, <2>3, <2>5, <2>7 DEF PaperTells, PaperClaims
  <2>9. paperAt'[c] = "summing" /\ InCycle(c)'
    BY <2>1, CycleGoes DEF PaperPlace, InCycle
  <2>10. Knows(c)'
    BY <1>1, <2>1, <2>3, <2>9 DEF Knows, InCycle, InErrorPath
  <2> QED
    BY <1>1, <2>6, <2>8, <2>9, <2>10, CycleTells, PaperRests DEF PaperTells
<1> QED
  BY <1>2, <1>3

(* A run of the engine that is over, with its answer *)
LEMMA AnswerTells ==
  ASSUME PaperRuns, PaperTells, PaperRuns', NEW c \in Paper!Caller,
         Paper!NoTrade(c) \/ Paper!Passed(c)
  PROVE  PaperTells'
<1>1. /\ paperAt[c] = "engine" /\ InCycle(c) /\ Knows(c)
      /\ paperJournal' = paperJournal /\ paperSummaries' = paperSummaries
      /\ paperCycles' = paperCycles /\ paperLastCycleAt' = paperLastCycleAt
      /\ paperLastState' = paperLastState /\ paperEntry' = paperEntry
      /\ paperDegraded' = paperDegraded /\ paperRecovered' = paperRecovered
      /\ Paper!Goto(c, "concluding")
  BY DEF Paper!NoTrade, Paper!Passed, Paper!disk, InCycle, PaperTells
<1>2. PICK d \in PaperDraft : d = paperDraft
  BY DEF PaperTells, PaperTypes
<1>3. PICK e \in 0 .. 5 : e = paperEntry
  BY DEF PaperTells, PaperTypes
<1>4. /\ Executed(paperLastCycleAt) => Executed(paperLastCycleAt)'
      /\ Executed(paperLastState.cycle) => Executed(paperLastState.cycle)'
  BY <1>1 DEF Executed
<1>5. paperAt'[c] = "concluding" /\ InCycle(c)'
  BY <1>1, CycleGoes DEF PaperPlace, InCycle
<1>6. paperLastCycleAt = paperCycles /\ paperCycles \in 1 .. MaxPaperCycles
  BY <1>1, PaperConstants DEF Knows, PaperTells, PaperTypes
<1>7. CASE Paper!NoTrade(c)
  <2>1. paperDraft' = [d EXCEPT !.outcome = "blocked", !.stage = "signal"]
    BY <1>2, <1>7 DEF Paper!NoTrade
  <2>2. paperDraft' = [outcome |-> "blocked", stage |-> "signal", executed |-> d.executed,
                       passed |-> d.passed, ends |-> d.ends, rejects |-> d.rejects]
    BY <2>1 DEF PaperDraft
  <2>3. paperDraft' \in PaperDraft
    BY <1>2, <2>2 DEF PaperDraft, PaperStage
  <2>4. PaperTypes'
    BY <1>1, <2>3 DEF PaperTells, PaperTypes
  <2>5. PaperClaims'
    BY <1>1, <1>2, <1>4, <2>2 DEF PaperTells, PaperClaims
  <2>6. Knows(c)'
    BY <1>1, <1>5, <2>2 DEF Knows, InCycle, InErrorPath
  <2> QED
    BY <1>1, <1>5, <2>4, <2>5, <2>6, CycleTells, PaperRests DEF PaperTells
<1>8. CASE Paper!Passed(c)
  <2>1. /\ paperDraft' = [d EXCEPT !.outcome = "success", !.stage = "monitor", !.executed = TRUE]
        /\ e = 5
    BY <1>2, <1>3, <1>8, EntryFacts DEF Paper!Passed
  <2>2. paperDraft' = [outcome |-> "success", stage |-> "monitor", executed |-> TRUE,
                       passed |-> d.passed, ends |-> d.ends, rejects |-> d.rejects]
    BY <2>1 DEF PaperDraft
  <2>3. paperDraft' \in PaperDraft
    BY <1>2, <2>2 DEF PaperDraft, PaperStage
  <2>4. PaperTypes'
    BY <1>1, <2>3 DEF PaperTells, PaperTypes
  <2>5. Paper!Entry[4] \in paperJournal[paperCycles]
    BY <1>1, <1>3, <2>1 DEF Knows
  <2>6. Executed(paperLastCycleAt)'
    BY <1>1, <1>6, <2>5, EntryFacts DEF Executed
  <2>7. PaperClaims'
    BY <1>1, <1>2, <1>4, <2>2, <2>6 DEF PaperTells, PaperClaims
  <2>8. Knows(c)'
    BY <1>1, <1>3, <1>5, <2>1, <2>2 DEF Knows, InCycle, InErrorPath
  <2> QED
    BY <1>1, <1>5, <2>4, <2>7, <2>8, CycleTells, PaperRests DEF PaperTells
<1> QED
  BY <1>7, <1>8

(* An entry is written for the cycle. *)
LEMMA JournalTells ==
  ASSUME PaperTypes, NEW e \in Paper!AllEntries, Paper!Journal(e), paperCycles >= 1,
         paperCycles' = paperCycles
  PROVE  /\ PaperGrows
         /\ paperJournal'[paperCycles] = paperJournal[paperCycles] \cup {e}
<1>1. paperCycles \in 1 .. MaxPaperCycles
  BY PaperConstants DEF PaperTypes
<1>2. PICK j \in [1 .. MaxPaperCycles -> SUBSET Paper!AllEntries] : j = paperJournal
  BY DEF PaperTypes
<1>3. PICK n \in 1 .. MaxPaperCycles : n = paperCycles
  BY <1>1
<1>4. paperJournal' = [j EXCEPT ![n] = j[n] \cup {e}]
  BY <1>2, <1>3 DEF Paper!Journal
<1>5. /\ paperJournal' \in [1 .. MaxPaperCycles -> SUBSET Paper!AllEntries]
      /\ paperJournal'[n] = j[n] \cup {e}
      /\ \A m \in 1 .. MaxPaperCycles : j[m] \subseteq paperJournal'[m]
  BY <1>2, <1>4
<1> QED
  BY <1>2, <1>3, <1>5, PaperConstants DEF PaperGrows, PaperTypes

LEMMA StageTells ==
  ASSUME PaperRuns, PaperTells, PaperRuns', NEW c \in Paper!Caller, Paper!Stage(c)
  PROVE  PaperTells'
<1>1. /\ paperAt[c] = "engine" /\ InCycle(c) /\ Knows(c)
      /\ paperSummaries' = paperSummaries
      /\ paperCycles' = paperCycles /\ paperLastCycleAt' = paperLastCycleAt
      /\ paperEntry < Len(Paper!Entry)
  BY DEF Paper!Stage, InCycle, PaperTells
<1>2. CASE Paper!Fail(c) /\ paperJournal' = paperJournal
  BY <1>1, <1>2, FailTells
<1>3. CASE ~(Paper!Fail(c) /\ paperJournal' = paperJournal)
  <2>1. PICK n \in 0 .. 4 : n = paperEntry
    BY <1>1, EntryFacts DEF PaperTells, PaperTypes
  <2>2. PICK e : e = Paper!Entry[n + 1]
    OBVIOUS
  <2>3. /\ Paper!Journal(e) /\ paperEntry' = n + 1
        /\ paperLastState' = paperLastState
        /\ paperDegraded' = paperDegraded /\ paperRecovered' = paperRecovered
        /\ \/ paperAt' = paperAt /\ paperDraft' = paperDraft
           \/ /\ paperDraft' = [paperDraft EXCEPT !.outcome = "blocked", !.stage = e,
                                                  !.executed = (n >= 3)]
              /\ Paper!Goto(c, "concluding")
    BY <1>3, <2>1, <2>2 DEF Paper!Stage
  <2>4. e \in Paper!AllEntries /\ e \in PaperStage /\ (n = 3 => e = "execution_result")
    BY <2>1, <2>2, EntryFacts DEF PaperStage
  <2>5. /\ paperLastCycleAt = paperCycles /\ paperCycles >= 1
        /\ paperCycles \in 1 .. MaxPaperCycles
    BY <1>1, PaperConstants DEF Knows, PaperTells, PaperTypes
  <2>6. /\ PaperGrows
        /\ paperJournal'[paperCycles] = paperJournal[paperCycles] \cup {e}
    BY <1>1, <2>3, <2>4, <2>5, JournalTells DEF PaperTells
  <2>7. paperEntry' \in 0 .. 5
    BY <2>1, <2>3
  <2>8. \A i \in 1 .. 5 : i <= n => Paper!Entry[i] \in paperJournal[paperCycles]
    BY <1>1, <2>1 DEF Knows
  <2>9. \A i \in 1 .. 5 : i <= paperEntry' => Paper!Entry[i] \in paperJournal'[paperCycles']
    BY <1>1, <2>1, <2>2, <2>3, <2>6, <2>8
  <2>10. n >= 3 => "execution_result" \in paperJournal'[paperCycles']
    BY <2>1, <2>3, <2>9, EntryFacts
  <2>11. n >= 3 => Executed(paperLastCycleAt)'
    BY <1>1, <2>5, <2>10 DEF Executed
  <2>12. CASE paperAt' = paperAt /\ paperDraft' = paperDraft
    <3>1. PaperMute
      BY <1>1, <2>3, <2>12 DEF PaperMute
    <3>2. PaperTypes' /\ PaperClaims'
      BY <1>1, <2>3, <2>6, <2>7, <2>12, <3>1, MuteClaims DEF PaperTells, PaperTypes, PaperGrows
    <3>3. paperAt'[c] = "engine" /\ InCycle(c)'
      BY <1>1, <2>12 DEF InCycle
    <3>4. Knows(c)'
      BY <1>1, <2>5, <2>9, <3>3 DEF Knows, InCycle, InErrorPath
    <3> QED
      BY <1>1, <2>6, <3>2, <3>3, <3>4, CycleTells
  <2>13. CASE /\ paperDraft' = [paperDraft EXCEPT !.outcome = "blocked", !.stage = e,
                                                  !.executed = (n >= 3)]
              /\ Paper!Goto(c, "concluding")
    <3>1. PICK d \in PaperDraft : d = paperDraft
      BY DEF PaperTells, PaperTypes
    <3>2. PICK x \in BOOLEAN : x = (n >= 3)
      <4>1. (n >= 3) \in BOOLEAN
        OBVIOUS
      <4> QED
        BY <4>1, Zenon
    <3>3. paperDraft' = [outcome |-> "blocked", stage |-> e, executed |-> x,
                         passed |-> d.passed, ends |-> d.ends, rejects |-> d.rejects]
      BY <2>13, <3>1, <3>2 DEF PaperDraft
    <3>4. paperDraft' \in PaperDraft
      BY <2>4, <3>1, <3>3 DEF PaperDraft
    <3>5. PaperTypes'
      BY <1>1, <2>3, <2>6, <2>7, <3>4 DEF PaperTells, PaperTypes, PaperGrows
    <3>6. x => Executed(paperLastCycleAt)'
      BY <2>11, <3>2
    <3>7. Executed(paperLastState.cycle) => Executed(paperLastState.cycle)'
      BY <2>3, <2>6 DEF Executed, PaperGrows
    <3>8. PaperClaims'
      BY <2>3, <3>1, <3>3, <3>6, <3>7 DEF PaperTells, PaperClaims
    <3>9. paperAt'[c] = "concluding" /\ InCycle(c)'
      BY <2>13, CycleGoes DEF PaperPlace, InCycle
    <3>10. Knows(c)'
      BY <1>1, <2>5, <2>9, <3>3, <3>9 DEF Knows, InCycle, InErrorPath
    <3> QED
      BY <1>1, <2>6, <3>5, <3>8, <3>9, <3>10, CycleTells
  <2> QED
    BY <2>3, <2>12, <2>13
<1> QED
  BY <1>2, <1>3

LEMMA ConcludeTells ==
  ASSUME PaperRuns, PaperTells, PaperRuns', NEW c \in Paper!Caller, Paper!Conclude(c)
  PROVE  PaperTells'
<1>1. /\ paperAt[c] = "concluding" /\ InCycle(c) /\ Knows(c)
      /\ paperSummaries' = paperSummaries
      /\ paperCycles' = paperCycles /\ paperLastCycleAt' = paperLastCycleAt
  BY DEF Paper!Conclude, InCycle, PaperTells
<1>2. CASE Paper!Fail(c) /\ paperJournal' = paperJournal
  BY <1>1, <1>2, FailTells
<1>3. CASE ~(Paper!Fail(c) /\ paperJournal' = paperJournal)
  <2>1. /\ Paper!Journal("canonical_trade") /\ Paper!Goto(c, "summing")
        /\ paperEntry' = paperEntry /\ paperDraft' = paperDraft
        /\ paperDegraded' = paperDegraded /\ paperRecovered' = paperRecovered
    BY <1>3 DEF Paper!Conclude
  <2>2. PICK same \in BOOLEAN :
          paperLastState' = [cycle |-> paperCycles, executed |-> paperDraft.executed, same |-> same]
    BY <1>3 DEF Paper!Conclude
  <2>3. /\ paperLastCycleAt = paperCycles /\ paperCycles >= 1
        /\ paperCycles \in 1 .. MaxPaperCycles
    BY <1>1, PaperConstants DEF Knows, PaperTells, PaperTypes
  <2>4. /\ PaperGrows
        /\ paperJournal'[paperCycles] = paperJournal[paperCycles] \cup {"canonical_trade"}
    BY <1>1, <2>1, <2>3, JournalTells, EntryFacts DEF PaperTells
  <2>5. paperLastState' \in PaperState
    BY <2>2, <2>3 DEF PaperState, PaperTells, PaperTypes, PaperDraft
  <2>6. /\ paperLastState'.executed = paperDraft.executed
        /\ paperLastState'.cycle = paperCycles
    BY <2>2
  <2>7. PaperTypes'
    BY <1>1, <2>1, <2>4, <2>5 DEF PaperTells, PaperTypes, PaperGrows
  <2>8. Executed(paperCycles) => Executed(paperLastCycleAt)' /\ Executed(paperLastState.cycle)'
    BY <1>1, <2>3, <2>4, <2>6 DEF Executed
  <2>9. PaperClaims'
    BY <2>1, <2>3, <2>6, <2>8 DEF PaperTells, PaperClaims
  <2>10. paperAt'[c] = "summing" /\ InCycle(c)'
    BY <2>1, CycleGoes DEF PaperPlace, InCycle
  <2>11. /\ "canonical_trade" \in paperJournal'[paperCycles']
         /\ \A i \in 1 .. 5 : i <= paperEntry => Paper!Entry[i] \in paperJournal'[paperCycles']
    BY <1>1, <2>4 DEF Knows
  <2>12. paperDraft.outcome = "success" => paperEntry = 5
    BY <1>1 DEF Knows
  <2>13. paperDraft.outcome = "success" => Paper!AllEntries \subseteq paperJournal'[paperCycles']
    BY <2>11, <2>12, EntryFacts
  <2>14. paperEntry' = paperEntry /\ paperDraft' = paperDraft
    BY <2>1
  <2>15. /\ paperCycles' >= 1
         /\ \A i \in 1 .. Len(paperSummaries') : paperSummaries'[i].cycle # paperCycles'
         /\ paperLastCycleAt' = paperCycles'
    BY <1>1, <2>3 DEF Knows
  <2>16. Knows(c)'
    BY <2>10, <2>11, <2>13, <2>14, <2>15 DEF Knows, InCycle, InErrorPath
  <2> QED
    BY <1>1, <2>4, <2>7, <2>9, <2>10, <2>16, CycleTells
<1> QED
  BY <1>2, <1>3

(* The summary of the cycle under way, if it does not claim too much *)
LEMMA SummaryTold ==
  ASSUME PaperRuns, PaperTells, NEW c \in Paper!Caller, InCycle(c), paperAt[c] # "closing",
         paperSummaries' = Append(paperSummaries, Paper!SummaryOf),
         paperCycles' = paperCycles, paperJournal' = paperJournal,
         paperDraft.outcome = "success" => Paper!AllEntries \subseteq paperJournal[paperCycles],
         paperDraft.outcome = "blocked" /\ paperDraft.stage \notin {"risk", "ingest"} =>
           "canonical_trade" \in paperJournal[paperCycles]
  PROVE  paperSummaries' \in Seq(PaperSummary) /\ PaperTold' /\ PaperOnce'
<1>1. PICK s : s = Paper!SummaryOf
  OBVIOUS
<1>2. PICK d \in PaperDraft : d = paperDraft
  BY DEF PaperTells, PaperTypes
<1>3. s = [cycle |-> paperCycles, stamp |-> paperLastCycleAt, outcome |-> d.outcome,
           executed |-> d.executed, recovered |-> paperRecovered,
           staged |-> d.stage, passed |-> d.passed, ends |-> d.ends]
  BY <1>1, <1>2 DEF Paper!SummaryOf
<1>4. paperCycles \in Nat /\ paperLastCycleAt \in Nat /\ paperRecovered \in BOOLEAN
  BY DEF PaperTells, PaperTypes
<1>5. s \in PaperSummary
  BY <1>2, <1>3, <1>4 DEF PaperDraft, PaperSummary
<1>6. /\ s.cycle = paperCycles /\ s.stamp = paperLastCycleAt /\ s.outcome = d.outcome
      /\ s.executed = d.executed /\ s.recovered = paperRecovered /\ s.staged = d.stage
      /\ s.passed = d.passed /\ s.ends = d.ends
  BY <1>3
<1>7. /\ paperCycles \in 1 .. paperCycles
      /\ \A i \in 1 .. Len(paperSummaries) : paperSummaries[i].cycle # s.cycle
  BY <1>4, <1>6 DEF PaperTells, Knows
<1>8. /\ d.executed => Executed(paperLastCycleAt)
      /\ paperRecovered => d.ends \/ ~d.passed
  BY <1>2 DEF PaperTells, PaperClaims
<1>9. Told(s)
  BY <1>2, <1>6, <1>7, <1>8 DEF Told
<1> QED
  BY <1>1, <1>5, <1>7, <1>9, SummaryAdded DEF PaperTells

LEMMA SummingTells ==
  ASSUME PaperRuns, PaperTells, PaperRuns', NEW c \in Paper!Caller, Paper!Summing(c)
  PROVE  PaperTells'
<1>1. /\ paperAt[c] = "summing" /\ InCycle(c) /\ Knows(c)
      /\ paperJournal' = paperJournal
      /\ paperCycles' = paperCycles /\ paperLastCycleAt' = paperLastCycleAt
  BY DEF Paper!Summing, InCycle, PaperTells
<1>2. CASE Paper!Fail(c) /\ paperSummaries' = paperSummaries
  BY <1>1, <1>2, FailTells
<1>3. CASE ~(Paper!Fail(c) /\ paperSummaries' = paperSummaries)
  <2>1. /\ paperSummaries' = Append(paperSummaries, Paper!SummaryOf)
        /\ Paper!Goto(c, "closing") /\ PaperMute
        /\ paperEntry' = paperEntry /\ paperDegraded' = paperDegraded
    BY <1>1, <1>3 DEF Paper!Summing, Paper!Written, PaperMute
  <2>2. paperSummaries' \in Seq(PaperSummary) /\ PaperTold' /\ PaperOnce'
    BY <1>1, <2>1, SummaryTold DEF Knows
  <2>3. PaperGrows
    BY <1>1, PaperRests DEF PaperTells
  <2>4. PaperTypes' /\ PaperClaims'
    BY <1>1, <2>1, <2>2, <2>3, MuteClaims DEF PaperTells, PaperTypes, PaperMute
  <2>5. paperAt'[c] = "closing" /\ InCycle(c)'
    BY <2>1, CycleGoes DEF PaperPlace, InCycle
  <2>6. Knows(c)'
    BY <1>1, <2>1, <2>5 DEF Knows, InCycle, InErrorPath
  <2> QED
    BY <2>2, <2>4, <2>5, <2>6, KnowsAlone DEF PaperTells
<1> QED
  BY <1>2, <1>3

(* The draft is marked with whether runCycle will throw. *)
LEMMA MarkedClaims ==
  ASSUME PaperTells, PaperGrows, NEW x \in BOOLEAN,
         paperDraft' = [paperDraft EXCEPT !.rejects = x], paperLastState' = paperLastState,
         paperLastCycleAt' = paperLastCycleAt, paperRecovered' = paperRecovered
  PROVE  PaperClaims' /\ paperDraft' \in PaperDraft
<1>1. PICK d \in PaperDraft : d = paperDraft
  BY DEF PaperTells, PaperTypes
<1>2. paperDraft' = [outcome |-> d.outcome, stage |-> d.stage, executed |-> d.executed,
                     passed |-> d.passed, ends |-> d.ends, rejects |-> x]
  BY <1>1 DEF PaperDraft
<1>3. paperDraft' \in PaperDraft
  BY <1>1, <1>2 DEF PaperDraft
<1>4. PICK n : n = paperLastCycleAt
  OBVIOUS
<1>5. PICK m : m = paperLastState.cycle
  OBVIOUS
<1>6. (Executed(n) => Executed(n)') /\ (Executed(m) => Executed(m)')
  BY ExecutedStays
<1>7. (Executed(n)' <=> Executed(paperLastCycleAt)') /\ (Executed(m)' <=> Executed(paperLastState.cycle)')
  BY <1>4, <1>5 DEF Executed
<1> QED
  BY <1>1, <1>2, <1>3, <1>4, <1>5, <1>6, <1>7 DEF PaperTells, PaperClaims

LEMMA ErrorPathTells ==
  ASSUME PaperRuns, PaperTells, PaperRuns', NEW c \in Paper!Caller,
         Paper!Failing(c) \/ Paper!ErrorSumming(c)
  PROVE  PaperTells'
<1>1. /\ paperAt[c] \in {"failing", "errorSumming"} /\ InCycle(c) /\ Knows(c)
      /\ paperJournal' = paperJournal
      /\ paperCycles' = paperCycles /\ paperLastCycleAt' = paperLastCycleAt
      /\ paperLastState' = paperLastState /\ paperEntry' = paperEntry
      /\ paperDegraded' = paperDegraded /\ paperRecovered' = paperRecovered
  BY DEF Paper!Failing, Paper!ErrorSumming, InCycle, PaperTells
<1>2. PaperGrows
  BY <1>1, PaperRests DEF PaperTells
<1>3. CASE \E x \in BOOLEAN : /\ paperDraft' = [paperDraft EXCEPT !.rejects = x]
                              /\ Paper!Goto(c, "closing")
  <2>1. PaperClaims' /\ paperDraft' \in PaperDraft
    BY <1>1, <1>2, <1>3, MarkedClaims
  <2>2. paperAt'[c] = "closing" /\ InCycle(c)'
    BY <1>3, CycleGoes DEF PaperPlace, InCycle
  <2>3. Knows(c)'
    BY <1>1, <2>2 DEF Knows, InCycle, InErrorPath
  <2>4. CASE paperSummaries' = paperSummaries
    <3>1. PaperTypes'
      BY <1>1, <2>1, <2>4 DEF PaperTells, PaperTypes
    <3> QED
      BY <1>2, <2>1, <2>2, <2>3, <2>4, <3>1, CycleTells
  <2>5. CASE paperSummaries' = Append(paperSummaries, Paper!SummaryOf)
    <3>1. paperDraft.outcome = "error" /\ paperAt[c] # "closing"
      BY <1>1 DEF Knows, InErrorPath
    <3>2. paperSummaries' \in Seq(PaperSummary) /\ PaperTold' /\ PaperOnce'
      BY <1>1, <2>5, <3>1, SummaryTold
    <3>3. PaperTypes'
      BY <1>1, <2>1, <3>2 DEF PaperTells, PaperTypes
    <3> QED
      BY <2>1, <2>2, <2>3, <3>2, <3>3, KnowsAlone DEF PaperTells
  <2> QED
    BY <2>4, <2>5 DEF Paper!Failing, Paper!ErrorSumming, Paper!ErrorPathFails
<1>4. CASE /\ Paper!Goto(c, "errorSumming") /\ paperAt[c] = "failing"
           /\ paperSummaries' = paperSummaries /\ paperDraft' = paperDraft
  <2>1. PaperMute
    BY <1>1, <1>4 DEF PaperMute
  <2>2. PaperTypes' /\ PaperClaims'
    BY <1>1, <1>2, <1>4, <2>1, MuteClaims DEF PaperTells, PaperTypes
  <2>3. paperAt'[c] = "errorSumming" /\ InCycle(c)'
    BY <1>4, CycleGoes DEF PaperPlace, InCycle
  <2>4. Knows(c)'
    BY <1>1, <1>4, <2>3 DEF Knows, InCycle, InErrorPath
  <2> QED
    BY <1>2, <1>4, <2>2, <2>3, <2>4, CycleTells
<1>5. (c = "start") \in BOOLEAN /\ TRUE \in BOOLEAN
  OBVIOUS
<1>6. CASE Paper!ErrorPathFails(c)
  BY <1>3, <1>5, <1>6, Zenon DEF Paper!ErrorPathFails
<1>7. CASE Paper!Failing(c) /\ ~Paper!ErrorPathFails(c)
  BY <1>4, <1>7 DEF Paper!Failing
<1>8. CASE Paper!ErrorSumming(c) /\ ~Paper!ErrorPathFails(c)
  BY <1>3, <1>5, <1>8, Zenon DEF Paper!ErrorSumming
<1> QED
  BY <1>6, <1>7, <1>8

(* A step that leaves the cycles alone *)
LEMMA ApartTells ==
  ASSUME PaperTells, PaperMute, paperJournal' = paperJournal, paperSummaries' = paperSummaries,
         paperCycles' = paperCycles, paperEntry' = paperEntry, paperDegraded' = paperDegraded,
         \A d \in Paper!Caller : paperAt'[d] = paperAt[d] \/ ~InCycle(d)'
  PROVE  PaperTells'
<1>1. PaperGrows
  BY PaperRests DEF PaperTells
<1>2. PaperTypes' /\ PaperClaims'
  BY <1>1, MuteClaims DEF PaperTells, PaperTypes, PaperMute
<1>3. PaperTold' /\ PaperOnce'
  BY <1>1, SummariesStay DEF PaperTells
<1>4. ASSUME NEW d \in Paper!Caller PROVE Knows(d)'
  <2>1. CASE ~InCycle(d)'
    BY <2>1 DEF InCycle, InErrorPath, Knows
  <2>2. CASE paperAt'[d] = paperAt[d]
    <3>1. Knows(d)
      BY DEF PaperTells
    <3> QED
      BY <2>2, <3>1 DEF Knows, InCycle, InErrorPath, PaperMute
  <2> QED
    BY <2>1, <2>2
<1>5. \A d \in Paper!Caller : Knows(d)'
  BY <1>4
<1> QED
  BY <1>2, <1>3, <1>5 DEF PaperTells

LEMMA CloseTells ==
  ASSUME PaperRuns, PaperTells, NEW c \in Paper!Caller, Paper!Close(c)
  PROVE  PaperTells'
<1>1. /\ paperJournal' = paperJournal /\ paperSummaries' = paperSummaries
      /\ paperCycles' = paperCycles
  BY DEF Paper!Close, Paper!disk
<1>2. CASE paperDraft.rejects /\ c # "resume"
  BY <1>1, <1>2, PaperDownTells DEF Paper!Close
<1>3. CASE ~(paperDraft.rejects /\ c # "resume")
  <2>1. /\ PaperMute /\ paperEntry' = paperEntry /\ paperDegraded' = paperDegraded
        /\ paperAt' = [paperAt EXCEPT ![c] = "idle"]
    BY <1>3 DEF Paper!Close, Paper!Goto, PaperMute
  <2>2. \A d \in Paper!Caller : paperAt'[d] = paperAt[d] \/ ~InCycle(d)'
    BY <2>1 DEF PaperRuns, InCycle
  <2> QED
    BY <1>1, <2>1, <2>2, ApartTells
<1> QED
  BY <1>2, <1>3

LEMMA EnterTells ==
  ASSUME PaperRuns, PaperTells, PaperRuns', NEW c \in Paper!Caller, Paper!EnterCycle(c),
         paperJournal' = paperJournal, paperSummaries' = paperSummaries,
         paperLastState' = paperLastState, paperLastCycleAt' = paperLastCycleAt,
         paperRecovered' = paperRecovered, paperDegraded' = paperDegraded
  PROVE  PaperTells'
<1>1. CASE Paper!MayEnter
  <2>1. /\ paperCycles < MaxPaperCycles /\ paperCycles' = paperCycles + 1
        /\ paperDraft' = Paper!NoDraft /\ paperEntry' = 0 /\ Paper!Goto(c, "refreshing")
    BY <1>1 DEF Paper!EnterCycle
  <2>2. /\ paperCycles \in Nat /\ paperCycles' \in 0 .. MaxPaperCycles
        /\ paperCycles <= paperCycles' /\ paperCycles' >= 1
    BY <2>1, PaperConstants DEF PaperTells, PaperTypes
  <2>3. PaperGrows
    BY <2>2 DEF PaperTells, PaperTypes, PaperGrows
  <2>4. paperDraft' \in PaperDraft
    BY <2>1 DEF Paper!NoDraft, PaperDraft, PaperStage
  <2>5. PaperTypes'
    BY <2>1, <2>2, <2>4 DEF PaperTells, PaperTypes
  <2>6. Executed(paperLastState.cycle) => Executed(paperLastState.cycle)'
    BY DEF Executed
  <2>7. PaperClaims'
    BY <2>1, <2>6 DEF PaperTells, PaperClaims, Paper!NoDraft
  <2>8. paperAt'[c] = "refreshing" /\ InCycle(c)'
    BY <2>1, CycleGoes DEF PaperPlace, InCycle
  <2>9. \A i \in 1 .. Len(paperSummaries) : paperSummaries[i].cycle \in 1 .. paperCycles
    BY DEF PaperTells, PaperTold, Told
  <2>10. \A i \in 1 .. Len(paperSummaries') : paperSummaries'[i].cycle # paperCycles'
    BY <2>1, <2>2, <2>9
  <2>11. \A i \in 1 .. 5 : ~(i <= paperEntry')
    BY <2>1
  <2>12. Knows(c)'
    BY <2>1, <2>2, <2>8, <2>10, <2>11 DEF Knows, InCycle, InErrorPath
  <2> QED
    BY <2>3, <2>5, <2>7, <2>8, <2>12, CycleTells
<1>2. CASE ~Paper!MayEnter
  <2>1. /\ paperCycles' = paperCycles /\ PaperMute /\ paperEntry' = paperEntry
        /\ paperAt' = [paperAt EXCEPT ![c] = "idle"]
    BY <1>2 DEF Paper!EnterCycle, Paper!Goto, PaperMute
  <2>2. \A d \in Paper!Caller : paperAt'[d] = paperAt[d] \/ ~InCycle(d)'
    BY <2>1 DEF PaperRuns, InCycle
  <2> QED
    BY <2>1, <2>2, ApartTells
<1> QED
  BY <1>1, <1>2

LEMMA PaperNextTells == PaperInv /\ PaperRuns' /\ [Paper!Next]_paperVars => PaperTells'
<1> SUFFICES ASSUME PaperRuns, PaperTells, PaperRuns', [Paper!Next]_paperVars PROVE PaperTells'
  BY DEF PaperInv
<1>1. ASSUME NEW c \in Paper!Caller, Paper!CycleStep(c) PROVE PaperTells'
  BY <1>1, RefreshTells, MovesTell, IntakeTells, IntakeBlockedTells, AnswerTells, StageTells,
     ConcludeTells, SummingTells, ErrorPathTells, CloseTells DEF Paper!CycleStep
<1>2. CASE Paper!TimerFires
  BY <1>2, EnterTells DEF Paper!TimerFires, Paper!Caller, Paper!disk
<1>3. CASE Paper!StartRunsCycle
  <2>1. CASE Paper!ProcessDown /\ paperCycles' = paperCycles
    BY <1>3, <2>1, PaperDownTells DEF Paper!StartRunsCycle, Paper!disk
  <2>2. CASE ~(Paper!ProcessDown /\ paperCycles' = paperCycles)
    BY <1>3, <2>2, EnterTells DEF Paper!StartRunsCycle, Paper!Caller, Paper!disk
  <2> QED
    BY <2>1, <2>2
<1>4. CASE Paper!ResumeRunsCycle
  BY <1>4, EnterTells DEF Paper!ResumeRunsCycle, Paper!Caller, Paper!disk
<1>5. CASE Paper!Crash
  BY <1>5, PaperDownTells DEF Paper!Crash, Paper!disk
<1>6. CASE Paper!Boot \/ Paper!Resume
  <2>1. /\ PaperMute /\ paperJournal' = paperJournal /\ paperSummaries' = paperSummaries
        /\ paperCycles' = paperCycles /\ paperEntry' = paperEntry
        /\ paperDegraded' = paperDegraded
    BY <1>6 DEF Paper!Boot, Paper!Resume, Paper!Control, Paper!disk, PaperMute
  <2>2. \/ paperAt' = [paperAt EXCEPT !["start"] = "starting"]
        \/ paperAt' = [paperAt EXCEPT !["resume"] = "called"]
    BY <1>6 DEF Paper!Boot, Paper!Resume, Paper!Goto
  <2>3. \A d \in Paper!Caller : paperAt'[d] = paperAt[d] \/ ~InCycle(d)'
    BY <2>2 DEF PaperRuns, InCycle
  <2> QED
    BY <2>1, <2>3, ApartTells
<1>7. CASE \/ Paper!Pause \/ Paper!Halt \/ Paper!EmergencyStop \/ Paper!ResetLiveKill
           \/ Paper!TriggerKill \/ UNCHANGED paperVars
  <2>1. /\ PaperMute /\ paperJournal' = paperJournal /\ paperSummaries' = paperSummaries
        /\ paperCycles' = paperCycles /\ paperEntry' = paperEntry
        /\ paperDegraded' = paperDegraded /\ paperAt' = paperAt
    <3>1. CASE Paper!Pause \/ Paper!Halt \/ Paper!EmergencyStop \/ Paper!ResetLiveKill
      BY <3>1 DEF Paper!Pause, Paper!Halt, Paper!EmergencyStop, Paper!ResetLiveKill,
                  Paper!Control, PaperMute
    <3>2. CASE Paper!TriggerKill
      BY <3>2 DEF Paper!TriggerKill, Paper!cycle, PaperMute
    <3>3. CASE UNCHANGED paperVars
      BY <3>3 DEF paperVars, PaperMute
    <3> QED
      BY <1>7, <3>1, <3>2, <3>3
  <2>2. \A d \in Paper!Caller : paperAt'[d] = paperAt[d] \/ ~InCycle(d)'
    BY <2>1
  <2> QED
    BY <2>1, <2>2, ApartTells
<1> QED
  BY <1>1, <1>2, <1>3, <1>4, <1>5, <1>6, <1>7 DEF Paper!Next

LEMMA PaperInvTrue == PaperInv => PaperRuntimeTrue
<1> SUFFICES ASSUME PaperRuns, PaperTells PROVE PaperRuntimeTrue
  BY DEF PaperInv
<1>1. Paper!RunningIsArmed
  <2>1. /\ paperIntervals \in Nat /\ paperOverlaps \in Nat
        /\ paperIntervals <= 1 + paperOverlaps
        /\ paperInterval => paperIntervals > 0
    BY DEF PaperRuns
  <2>2. paperStatus = "running" /\ paperAt["start"] = "idle" => paperInterval \/ paperOvertaken
    BY DEF PaperRuns
  <2> QED
    BY <2>1, <2>2 DEF Paper!RunningIsArmed
<1>2. Paper!SummariesTrue
  <2>1. ASSUME NEW i \in 1 .. Len(paperSummaries), NEW s, s = paperSummaries[i]
        PROVE  /\ \A j \in 1 .. Len(paperSummaries) : paperSummaries[j].cycle = s.cycle => i = j
               /\ s.outcome = "success" => Paper!AllEntries \subseteq paperJournal[s.cycle]
               /\ s.outcome = "blocked" /\ s.staged \notin {"risk", "ingest"}
                    => "canonical_trade" \in paperJournal[s.cycle]
               /\ s.executed => "execution_result" \in paperJournal[s.stamp]
               /\ s.recovered => s.ends \/ ~s.passed
    BY <2>1 DEF PaperTells, PaperTold, PaperOnce, Told, Executed
  <2> QED
    BY <2>1 DEF Paper!SummariesTrue
<1> QED
  BY <1>1, <1>2 DEF PaperRuntimeTrue

(* A cycle has one summary; a success has every entry of its run in the     *)
(* journal; an execution is claimed with its own entry or that of the cycle *)
(* whose time the summary carries; a recovery is told by the cycle that     *)
(* ended the degraded run; a runtime that says it runs has an interval, and *)
(* one of them, but for the resumes that fell into an error path or into    *)
(* start() (runCycle, start(), resume() and the error path of               *)
(* dry-run-runtime.ts).                                                     *)
THEOREM PaperRuntimeAlwaysTrue == Paper!Spec => []PaperRuntimeTrue
<1>1. Paper!Init => PaperInv
  BY PaperInitRuns, PaperInitTells DEF PaperInv
<1>2. UNCHANGED Paper!vars => UNCHANGED paperVars
  BY DEF Paper!vars, Paper!disk, Paper!process, Paper!cycle, Paper!history, paperVars
<1>3. PaperInv /\ [Paper!Next]_(Paper!vars) => PaperInv'
  BY <1>2, PaperNextRuns, PaperNextTells DEF PaperInv
<1> QED
  BY <1>1, <1>3, PaperInvTrue, PTL DEF Paper!Spec
=============================================================================
