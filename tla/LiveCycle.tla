------------------------------ MODULE LiveCycle ------------------------------
(***************************************************************************)
(* The live runtime of the worker process: LiveRuntime's controls and its  *)
(* trading cycle (bot/src/runtime/live-runtime.ts) through the engine's    *)
(* stages (bot/src/core/engine.ts), with the daily limits of               *)
(* daily-loss-tracker.ts and the idempotency records of                    *)
(* idempotency-repository.ts.                                              *)
(*                                                                         *)
(* runCycle has three callers: start(), resume() and the interval timer.   *)
(* A step of the model is the code between two awaits, so the controls,    *)
(* the kill switch and a crash may come between any two steps.  The files  *)
(* (kill switch, live-test round, daily counters, idempotency records) are *)
(* written synchronously inside a step and survive a crash.                *)
(*                                                                         *)
(* Module LiveControl has the details of the admission that is a free      *)
(* choice here (apart from the kill switch and the round), and module      *)
(* RuntimeConfig how a kill reaches the process: `halted` is what          *)
(* isKillSwitchHalted() answers.                                           *)
(***************************************************************************)
EXTENDS Integers

CONSTANTS
  Key,                    \* idempotency keys: `${traceId}-intent`
  Loss,                   \* the losses a trade may turn out to have
  Limit,                  \* the live-test limits the worker may be configured with
  Bridged,                \* a triggered kill takes effect through the runtime configuration
  MaxDay, MaxCycles, MaxControls, MaxKills, MaxCrashes   \* bounds of the model

ASSUME LimitsOK ==
  /\ Loss \subseteq Nat
  /\ Limit \subseteq [trades : Nat \ {0}, loss : Nat]
  /\ Bridged \in BOOLEAN /\ "none" \notin Key

Caller == {"start", "resume", "timer"}

VARIABLES
  halted, round, daily, record,   \* persistent: kill switch, round, daily counters, records
  up, status, timer, cycleInFlight,   \* the process and its LiveRuntime
  at, intent,                     \* per caller of runCycle: where it is, and its intent
  limit,                          \* the configured limits, fixed by Init
  today,                          \* the UTC day
  sends, sendsSinceKill,          \* history: transactions sent
  tradesToday,                       \* history: today's trades that were reported as successful
  cycles, controls, kills, crashes    \* counters that bound the model

files   == <<halted, round, daily, record>>
runtime == <<up, status, timer, cycleInFlight>>
callers == <<at, intent>>
clock   == <<today, limit>>
sent    == <<sends, sendsSinceKill>>
bounds  == <<cycles, controls, kills, crashes>>
vars == <<files, runtime, callers, clock, sent, tradesToday, bounds>>

NoTrades == [trades |-> 0, loss |-> 0, last |-> 0]
NoIntent == [key |-> "none", ok |-> FALSE, loss |-> 0]
InCycle == {"entered", "deciding", "executing", "sent", "refused", "reported", "closing", "failing"}
Terminal == {"stopped", "completed", "failed"}

Goto(c, stage) == at' = [at EXCEPT ![c] = stage]

-----------------------------------------------------------------------------
(* Daily limits. *)

(* A new UTC day starts from empty counters. *)
Rolled == IF daily.day = today THEN daily ELSE [day |-> today, trades |-> 0, loss |-> 0]

(* Mutant: the trade count is not looked at. *)
LimitReachedByLoss == daily.day = today /\ daily.loss >= limit.loss

(* checkLimit *)
LimitReached ==
  daily.day = today /\ (daily.trades >= limit.trades \/ daily.loss >= limit.loss)

(* The kill switch takes effect now, or (bridged) by a later TriggerKill,   *)
(* or never when the write of the runtime configuration fails.              *)
Halts ==
  /\ halted' = TRUE
  /\ sendsSinceKill' = IF halted THEN sendsSinceKill ELSE 0
TriggerKillSwitch == Halts \/ (Bridged /\ UNCHANGED <<halted, sendsSinceKill>>)

Booked(loss) == [day |-> today, trades |-> Rolled.trades + 1, loss |-> Rolled.loss + loss]

(* recordTrade *)
RecordTrade(loss) ==
  /\ daily' = Booked(loss)
  /\ IF daily'.loss >= limit.loss THEN TriggerKillSwitch
     ELSE UNCHANGED <<halted, sendsSinceKill>>

-----------------------------------------------------------------------------
(* The cycle. *)

(* Mutant: a cycle in flight does not keep another one out. *)
MayEnterAlways == status = "running"

MayEnter == ~cycleInFlight /\ status = "running"

(* runCycle is called: it returns at once unless it may run. *)
EnterCycle(c) ==
  /\ MayEnter
  /\ cycles < MaxCycles /\ cycles' = cycles + 1
  /\ cycleInFlight' = TRUE
  /\ Goto(c, "entered")

TimerFires ==
  /\ up /\ timer /\ at["timer"] = "idle"
  /\ EnterCycle("timer")
  /\ UNCHANGED <<files, up, status, timer, intent, clock, sent, tradesToday, controls, kills, crashes>>

ResumeRunsCycle ==
  /\ at["resume"] = "called"
  /\ \/ EnterCycle("resume")
     \/ ~MayEnter /\ Goto("resume", "idle") /\ UNCHANGED <<cycles, cycleInFlight>>
  /\ UNCHANGED <<files, up, status, timer, intent, clock, sent, tradesToday, controls, kills, crashes>>

(* After the refresh: a halted runtime pauses itself and ends the cycle. *)
CheckKillSwitch(c) ==
  /\ at[c] = "entered"
  /\ IF halted THEN status' = "paused" /\ Goto(c, "closing")
     ELSE Goto(c, "deciding") /\ UNCHANGED status
  /\ UNCHANGED <<files, up, timer, cycleInFlight, intent, clock, sent, tradesToday, bounds>>

(* Ingest, signal or the risk rules block; nothing is traded. *)
Blocked(c) ==
  /\ at[c] = "deciding" /\ intent[c].key = "none"
  /\ Goto(c, "closing")
  /\ UNCHANGED <<files, runtime, intent, clock, sent, tradesToday, bounds>>

(* The risk stage lets the intent through to the daily limit. *)
Risk(c, k) ==
  /\ at[c] = "deciding" /\ intent[c].key = "none"
  /\ daily' = Rolled
  /\ IF LimitReached THEN Goto(c, "closing") /\ UNCHANGED intent
     ELSE intent' = [intent EXCEPT ![c].key = k] /\ UNCHANGED at
  /\ UNCHANGED <<halted, round, record, runtime, clock, sent, tradesToday, bounds>>

(* The chaos gate blocks after the daily limit let the intent through. *)
ChaosBlocks(c) ==
  /\ at[c] = "deciding" /\ intent[c].key # "none"
  /\ Goto(c, "closing")
  /\ UNCHANGED <<files, runtime, intent, clock, sent, tradesToday, bounds>>

(* Mutant: the key is recorded only with its outcome. *)
ClaimUnrecorded(c) ==
  /\ at[c] = "deciding" /\ intent[c].key # "none"
  /\ IF record[intent[c].key] # "none" THEN Goto(c, "reported")
     ELSE \/ Goto(c, "refused")
          \/ ~halted /\ round = "running" /\ Goto(c, "executing")
  /\ UNCHANGED <<files, runtime, intent, clock, sent, tradesToday, bounds>>

(* executeWithIdempotency up to the handler's first await: a known key is   *)
(* reported as a replay; a new one is recorded as pending, and the micro-   *)
(* live guardrail admits the intent or refuses it.                          *)
Claim(c) ==
  /\ at[c] = "deciding" /\ intent[c].key # "none"
  /\ IF record[intent[c].key] # "none"
     THEN Goto(c, "reported") /\ UNCHANGED record
     ELSE /\ record' = [record EXCEPT ![intent[c].key] = "pending"]
          /\ \/ Goto(c, "refused")
             \/ ~halted /\ round = "running" /\ Goto(c, "executing")
  /\ UNCHANGED <<halted, round, daily, runtime, intent, clock, sent, tradesToday, bounds>>

Send(c) ==
  /\ at[c] = "executing"
  /\ Goto(c, "sent")
  /\ sends' = [sends EXCEPT ![intent[c].key] = @ + 1]
  /\ sendsSinceKill' = IF halted THEN sendsSinceKill + 1 ELSE sendsSinceKill
  /\ UNCHANGED <<files, runtime, intent, clock, tradesToday, bounds>>

(* The handler answers with a confirmed trade: executeWithIdempotency books *)
(* it and completes the record.                                             *)
TradeSucceeds(c, loss) ==
  /\ at[c] = "sent"
  /\ RecordTrade(loss)
  /\ record' = [record EXCEPT ![intent[c].key] = "completed"]
  /\ intent' = [intent EXCEPT ![c].ok = TRUE, ![c].loss = loss]
  /\ tradesToday' = [trades |-> tradesToday.trades + 1, loss |-> tradesToday.loss + loss, last |-> loss]
  /\ Goto(c, "reported")
  /\ UNCHANGED <<round, runtime, clock, sends, bounds>>

(* The handler answers with a refusal or a failure. *)
TradeFails(c) ==
  /\ at[c] \in {"refused", "executing", "sent"}
  /\ record' = [record EXCEPT ![intent[c].key] = "failed"]
  /\ Goto(c, "reported")
  /\ UNCHANGED <<halted, round, daily, runtime, intent, clock, sent, tradesToday, bounds>>

(* The engine's verify stage books the successful trade once more. *)
Verify(c) ==
  /\ at[c] = "reported"
  /\ IF intent[c].ok THEN RecordTrade(intent[c].loss)
     ELSE UNCHANGED <<daily, halted, sendsSinceKill>>
  /\ Goto(c, "closing")
  /\ UNCHANGED <<round, record, runtime, intent, clock, sends, tradesToday, bounds>>

(* A stage throws: the intake, a critical journal entry, the handler's      *)
(* evidence, an incident or the cycle summary could not be written.  An     *)
(* escalation to the kill switch is a TriggerKill next to this step.        *)
CycleThrows(c) ==
  /\ at[c] \in InCycle \ {"failing"}
  /\ Goto(c, "failing")
  /\ status' = "error"
  /\ UNCHANGED <<files, up, timer, cycleInFlight, intent, clock, sent, tradesToday, bounds>>

(* Mutant: the error path returns without giving the flag back. *)
LeaveCycleHeld(c) ==
  /\ Goto(c, "idle")
  /\ intent' = [intent EXCEPT ![c] = NoIntent]
  /\ cycleInFlight' = (at[c] = "failing")

(* runCycle's finally block. *)
LeaveCycle(c) ==
  /\ Goto(c, "idle")
  /\ intent' = [intent EXCEPT ![c] = NoIntent]
  /\ cycleInFlight' = FALSE

(* start() arms the interval only when its first cycle is over. *)
CloseCycle(c) ==
  /\ at[c] = "closing"
  /\ LeaveCycle(c)
  /\ timer' = (timer \/ c = "start")
  /\ UNCHANGED <<files, up, status, clock, sent, tradesToday, bounds>>

-----------------------------------------------------------------------------
(* The process. *)

ProcessDown ==
  /\ up' = FALSE /\ status' = "idle" /\ timer' = FALSE /\ cycleInFlight' = FALSE
  /\ at' = [c \in Caller |-> "idle"]
  /\ intent' = [c \in Caller |-> NoIntent]

(* The error path's end clears the interval; an error of the first cycle    *)
(* is thrown to the worker, which exits.                                    *)
CloseFailedCycle(c) ==
  /\ at[c] = "failing"
  /\ IF c = "start" THEN ProcessDown
     ELSE timer' = FALSE /\ LeaveCycle(c) /\ UNCHANGED <<up, status>>
  /\ UNCHANGED <<files, clock, sent, tradesToday, bounds>>

Crash ==
  /\ up /\ crashes < MaxCrashes /\ crashes' = crashes + 1
  /\ ProcessDown
  /\ UNCHANGED <<files, clock, sent, tradesToday, cycles, controls, kills>>

(* Mutant: a refused start leaves the round as it was. *)
RoundAfterRefusedStartSame == round

(* A preflight of a running round is refused and fails the round. *)
RoundAfterRefusedStart == "failed"

(* createLiveRuntime takes the counters as they were saved. *)
Hydrated == daily

(* The supervisor starts the worker: createLiveRuntime, then start(), which *)
(* throws (and the worker exits) when the last process left its round       *)
(* running, and otherwise runs the first cycle.                             *)
Boot ==
  /\ ~up
  /\ daily' = Hydrated
  /\ \/ /\ round = "running"
        /\ round' = RoundAfterRefusedStart
        /\ UNCHANGED <<runtime, at, cycles>>
     \/ /\ round # "running"
        /\ round' = "running"
        /\ up' = TRUE /\ status' = "running" /\ UNCHANGED timer
        /\ cycles < MaxCycles /\ cycles' = cycles + 1
        /\ cycleInFlight' = TRUE
        /\ Goto("start", "entered")
  /\ UNCHANGED <<halted, record, intent, clock, sent, tradesToday, controls, kills, crashes>>

-----------------------------------------------------------------------------
(* The controls of LiveRuntime. *)

Control ==
  /\ up /\ controls < MaxControls /\ controls' = controls + 1
  /\ UNCHANGED <<daily, record, up, cycleInFlight, intent, clock, sends, tradesToday,
                 cycles, kills, crashes>>

Pause ==
  /\ Control
  /\ status \notin {"stopped", "error"}
  /\ status' = "paused"
  /\ UNCHANGED <<halted, round, timer, at, sendsSinceKill>>

(* A round that ended is not started again: the resume is refused. *)
Resume ==
  /\ Control
  /\ ~halted /\ status = "paused" /\ at["resume"] = "idle"
  /\ IF round \in Terminal THEN round' = "failed" /\ UNCHANGED <<status, timer, at>>
     ELSE /\ round' = "running"
          /\ status' = "running" /\ timer' = TRUE
          /\ Goto("resume", "called")
  /\ UNCHANGED <<halted, sendsSinceKill>>

(* stop(), on SIGTERM; halt() differs only in the incident it records. *)
Stop ==
  /\ Control
  /\ timer' = FALSE
  /\ round' = IF round = "failed" THEN "failed" ELSE "completed"
  /\ status' = "stopped"
  /\ UNCHANGED <<halted, at, sendsSinceKill>>
Halt == Stop

EmergencyStop ==
  /\ Control
  /\ status' = "paused"
  /\ round' = IF round \in {"completed", "failed"} THEN "failed" ELSE "stopped"
  /\ TriggerKillSwitch
  /\ UNCHANGED <<timer, at>>

(* A bridged reset may be lost with the write of the configuration. *)
ResetLiveKill ==
  /\ Control
  /\ round' = CASE round = "running" -> "failed"
                [] round \in Terminal -> "preflighted"
                [] OTHER -> round
  /\ halted' = FALSE \/ (Bridged /\ UNCHANGED halted)
  /\ UNCHANGED <<status, timer, at, sendsSinceKill>>

(* The engine's escalation, the control plane or a late bridge. *)
TriggerKill ==
  /\ kills < MaxKills /\ kills' = kills + 1
  /\ Halts
  /\ UNCHANGED <<round, daily, record, runtime, callers, clock, sends, tradesToday,
                 cycles, controls, crashes>>

Midnight ==
  /\ today < MaxDay
  /\ today' = today + 1 /\ UNCHANGED limit
  /\ tradesToday' = NoTrades
  /\ UNCHANGED <<files, runtime, callers, sent, bounds>>

Init ==
  /\ limit \in Limit
  /\ halted = FALSE /\ round = "idle"
  /\ daily = [day |-> 0, trades |-> 0, loss |-> 0]
  /\ record = [k \in Key |-> "none"]
  /\ up = FALSE /\ status = "idle" /\ timer = FALSE /\ cycleInFlight = FALSE
  /\ at = [c \in Caller |-> "idle"]
  /\ intent = [c \in Caller |-> NoIntent]
  /\ today = 0
  /\ sends = [k \in Key |-> 0] /\ sendsSinceKill = 0 /\ tradesToday = NoTrades
  /\ cycles = 0 /\ controls = 0 /\ kills = 0 /\ crashes = 0

(* What a cycle does by itself. *)
CycleStep(c) ==
  \/ CheckKillSwitch(c) \/ Blocked(c) \/ (\E k \in Key : Risk(c, k)) \/ ChaosBlocks(c)
  \/ Claim(c) \/ Send(c) \/ (\E l \in Loss : TradeSucceeds(c, l)) \/ TradeFails(c)
  \/ Verify(c) \/ CycleThrows(c) \/ CloseCycle(c) \/ CloseFailedCycle(c)

Next ==
  \/ \E c \in Caller : CycleStep(c)
  \/ TimerFires \/ ResumeRunsCycle
  \/ Boot \/ Crash
  \/ Pause \/ Resume \/ Halt \/ EmergencyStop \/ ResetLiveKill
  \/ TriggerKill \/ Midnight

(* Every await of a cycle settles (the RPC, the quote and the signer have   *)
(* timeouts), and the supervisor restarts a worker that exited.             *)
Fairness == (\A c \in Caller : WF_vars(CycleStep(c))) /\ WF_vars(Boot)

Spec == Init /\ [][Next]_vars
FairSpec == Spec /\ Fairness

-----------------------------------------------------------------------------
(* Every variable has its type. *)
TypeOK ==
  /\ halted \in BOOLEAN /\ up \in BOOLEAN /\ timer \in BOOLEAN /\ cycleInFlight \in BOOLEAN
  /\ round \in {"idle", "preflighted", "running", "stopped", "completed", "failed"}
  /\ daily \in [day : Nat, trades : Nat, loss : Nat]
  /\ limit \in [trades : Nat \ {0}, loss : Nat]
  /\ record \in [Key -> {"none", "pending", "completed", "failed"}]
  /\ status \in {"idle", "running", "paused", "stopped", "error"}
  /\ at \in [Caller -> {"idle", "called"} \cup InCycle]
  /\ intent \in [Caller -> [key : Key \cup {"none"}, ok : BOOLEAN, loss : Nat]]
  /\ today \in Nat /\ sends \in [Key -> Nat] /\ sendsSinceKill \in Nat
  /\ tradesToday \in [trades : Nat, loss : Nat, last : Nat]
  /\ cycles \in Nat /\ controls \in Nat /\ kills \in Nat /\ crashes \in Nat

(* At most one cycle runs, whoever called it, and the flag says so. *)
CycleExclusive ==
  /\ cycleInFlight = (\E c \in Caller : at[c] \in InCycle)
  /\ \A b, c \in Caller : at[b] \in InCycle /\ at[c] \in InCycle => b = c

(* Once the kill switch took effect, at most the one transaction that was   *)
(* already admitted goes out, over pauses, resumes and restarts.            *)
KillBoundsSends == halted => sendsSinceKill <= 1

(* No more trades are reported in a day than its limit, over crashes        *)
(* between the trade and its booking and over midnight.                     *)
DailyTradeLimit == tradesToday.trades <= limit.trades

(* A day's losses were below the limit before its last trade: trading stops *)
(* with the trade that reaches it, over crashes and late kill switches.     *)
DailyLossLimit == tradesToday.trades > 1 => tradesToday.loss - tradesToday.last < limit.loss

(* The count that the trade limit is compared with: two bookings a trade    *)
(* (executeWithIdempotency's and the verify stage's), and one more for a    *)
(* trade that was reported before midnight and verified after it.           *)
DailyCountNear ==
  daily.day = today =>
    /\ tradesToday.trades <= daily.trades
    /\ daily.trades <= 2 * tradesToday.trades + 1

(* Both limits of a day hold, and the count they rest on is never too low   *)
(* nor further off than that, however the worker crashes, restarts or is    *)
(* killed and resumed within the day.                                       *)
DailyLimits == DailyTradeLimit /\ DailyLossLimit /\ DailyCountNear

(* How far the handler's call for a key is.  A claimed key that has no      *)
(* outcome and is nobody's call any more was given up by an error or crash. *)
AtCall(k, stage) == \E c \in Caller : at[c] = stage /\ intent[c].key = k
CallPhase(k) ==
  CASE record[k] = "none" -> "called"
    [] record[k] = "completed" -> "succeeded"
    [] record[k] = "failed" -> "failed"
    [] OTHER -> CASE AtCall(k, "refused") -> "refused"
                  [] AtCall(k, "executing") -> "executing"
                  [] AtCall(k, "sent") -> "sent"
                  [] OTHER -> "thrown"

(* The runtime implements the idempotency rule: whatever crashes, errors,   *)
(* refusals and repeated intents come, a key's transaction goes out once.   *)
(* And for every key it makes one call of the execution handler, no other   *)
(* than the handler's own module allows (Services_proofs shows that).       *)
Idempotency == INSTANCE TradeOnce WITH
  claimed <- {k \in Key : record[k] # "none"},
  closed <- {k \in Key : record[k] \in {"completed", "failed"}}
Calls == INSTANCE HandlerCall WITH phase <- [k \in Key |-> CallPhase(k)]
SendsOnce == Idempotency!Spec /\ Calls!Spec

(* A cycle that entered ends, whatever fails in it: the runtime is not kept *)
(* from its next cycle.                                                     *)
CycleEnds == cycleInFlight ~> ~cycleInFlight

(* A worker that went down in the middle of a live-test round runs again:   *)
(* the boot its round refuses is followed by one that succeeds.             *)
WorkerRunsAgain == ~up ~> (status = "running" \/ cycles = MaxCycles)

(* What recordTrade's comment says, "Record a completed trade": the count   *)
(* of a day is not above the number of its completed trades.                *)
DailyCountIsTrades ==
  daily.day = today => daily.trades <= tradesToday.trades
=============================================================================
