---------------------------- MODULE PaperRuntime ----------------------------
(***************************************************************************)
(* The paper and dry runtime of the worker process: DryRunRuntime's        *)
(* controls, its cycle (bot/src/runtime/dry-run-runtime.ts) through the    *)
(* engine's stages with their mandatory journal entries                    *)
(* (bot/src/core/engine.ts, bot/src/core/decision/), and the two files a   *)
(* cycle leaves: the journal and the cycle summaries.                      *)
(*                                                                         *)
(* A step is the code between two awaits.  runCycle has three callers:     *)
(* start(), resume() and the interval.  Every write may fail, and the      *)
(* process may crash between any two steps.  Module MarketIntake has the   *)
(* fetching of the market data that is one free choice here, and module    *)
(* RuntimeConfig the refresh and the way of a kill.                        *)
(*                                                                         *)
(* The branches for live mode are not modelled: createRuntime gives a live *)
(* worker the LiveRuntime of module LiveCycle.                             *)
(***************************************************************************)
EXTENDS Integers, Sequences

CONSTANTS
  Modes,                  \* execution modes considered: "paper", "dry"
  MaxCycles, MaxControls, MaxFaults   \* bounds: cycles, operator calls, failures and crashes

Caller == {"start", "resume", "timer"}

(* The engine's critical journal entries, in order *)
Entry == <<"decision_outcome", "risk_decision", "chaos_decision",
           "execution_result", "verification_result">>

VARIABLES
  recordedKill, journal, summaries,   \* persistent: the kill record, both files
  mode,                               \* the worker's execution mode
  up, status, cycleInFlight, halted,  \* the process; halted: its view of the kill record
  interval, intervals,                \* intervalRef is set; timers that are armed
  at,                                 \* per caller of runCycle: where it is
  entry,                              \* the engine: entries written by this run
  draft,                              \* the summary under way
  lastState, lastCycleAt,             \* what the last cycles left in the process
  degraded, recovered,                \* consecutiveDegradedCycles > 0, recoveredThisCycle
  cycles, controls, faults,           \* counters that bound the model; cycles names a cycle
  overtaken, overlaps                 \* history: resumes that landed in an error path, or in start()

disk    == <<recordedKill, journal, summaries>>
process == <<up, status, cycleInFlight, halted, interval, intervals>>
cycle   == <<at, entry, draft, lastState, lastCycleAt, degraded, recovered>>
history == <<overtaken, overlaps>>
vars == <<disk, mode, process, cycle, cycles, controls, faults, history>>

NoState == [cycle |-> 0, executed |-> FALSE, same |-> FALSE]
(* A summary under way; `passed` (the kill check), `ends` (a degraded run)  *)
(* and `rejects` (runCycle will throw) are no fields of the file.           *)
NoDraft == [outcome |-> "none", stage |-> "none", executed |-> FALSE,
            passed |-> FALSE, ends |-> FALSE, rejects |-> FALSE]

Goto(c, place) == at' = [at EXCEPT ![c] = place]

(* A write or a read fails: a fault of the model's budget *)
Fault == faults < MaxFaults /\ faults' = faults + 1

-----------------------------------------------------------------------------
(* The process. *)

ProcessDown ==
  /\ up' = FALSE /\ status' = "idle" /\ cycleInFlight' = FALSE /\ halted' = FALSE
  /\ interval' = FALSE /\ intervals' = 0
  /\ at' = [c \in Caller |-> "idle"]
  /\ entry' = 0 /\ draft' = NoDraft
  /\ lastState' = NoState /\ lastCycleAt' = 0
  /\ degraded' = FALSE /\ recovered' = FALSE
  /\ overtaken' = FALSE /\ overlaps' = 0

Crash ==
  /\ up /\ Fault
  /\ ProcessDown
  /\ UNCHANGED <<disk, mode, cycles, controls>>

(* The supervisor starts the worker: the manager is initialized from the    *)
(* record, start() says it runs and writes the rollout incident.            *)
Boot ==
  /\ ~up /\ cycles < MaxCycles
  /\ up' = TRUE /\ status' = "running" /\ halted' = recordedKill
  /\ Goto("start", "starting")
  /\ UNCHANGED <<disk, mode, cycleInFlight, interval, intervals, entry, draft, lastState,
                 lastCycleAt, degraded, recovered, cycles, controls, faults, history>>

MayEnter == ~cycleInFlight /\ status = "running"

(* runCycle up to its first await, and its early return *)
EnterCycle(c) ==
  \/ /\ MayEnter
     /\ cycles < MaxCycles /\ cycles' = cycles + 1
     /\ cycleInFlight' = TRUE
     /\ draft' = NoDraft /\ entry' = 0
     /\ Goto(c, "refreshing")
     /\ UNCHANGED <<interval, intervals>>
  \/ /\ ~MayEnter
     /\ Goto(c, "idle")
     /\ interval' = (interval \/ c = "start")
     /\ intervals' = IF c = "start" THEN intervals + 1 ELSE intervals
     /\ UNCHANGED <<cycles, cycleInFlight, draft, entry>>

(* start() has its incident written and runs the first cycle; it fails with *)
(* the incident, and the worker exits.                                      *)
StartRunsCycle ==
  /\ at["start"] = "starting"
  /\ \/ EnterCycle("start") /\ UNCHANGED <<up, status, halted, lastState, lastCycleAt,
                                           degraded, recovered, faults, history>>
     \/ Fault /\ ProcessDown /\ UNCHANGED cycles
  /\ UNCHANGED <<disk, mode, controls>>

ResumeRunsCycle ==
  /\ at["resume"] = "called"
  /\ EnterCycle("resume")
  /\ UNCHANGED <<disk, mode, up, status, halted, lastState, lastCycleAt, degraded, recovered,
                 controls, faults, history>>

(* A tick that finds the runtime busy or not running changes nothing. *)
TimerFires ==
  /\ up /\ intervals > 0 /\ at["timer"] = "idle" /\ MayEnter
  /\ EnterCycle("timer")
  /\ UNCHANGED <<disk, mode, up, status, halted, lastState, lastCycleAt, degraded, recovered,
                 controls, faults, history>>

-----------------------------------------------------------------------------
(* The cycle. *)

(* The catch block up to its first await.  What the error's summary shows   *)
(* of an execution is the last state's, if its timestamp is the one of the  *)
(* last cycle begun: the engine's own state is lost with the error.         *)
Fail(c) ==
  LET same == lastState.same /\ lastState.cycle = lastCycleAt IN
  /\ Fault
  /\ status' = "error"
  /\ draft' = [draft EXCEPT !.outcome = "error", !.executed = same /\ lastState.executed,
                            !.stage = IF same THEN "last" ELSE "ingest"]
  /\ lastState' = [cycle |-> lastCycleAt, executed |-> draft'.executed, same |-> TRUE]
  /\ Goto(c, "failing")
  /\ UNCHANGED <<up, cycleInFlight, halted, interval, intervals, entry, degraded, recovered>>

(* A step that stays in the try block, and leaves these alone *)
Steady == UNCHANGED <<up, cycleInFlight, interval, intervals, faults>>

RecoveredAfterCheck == FALSE

(* refresh() shows the kill record; a killed runtime pauses itself. *)
Refresh(c) ==
  /\ at[c] = "refreshing"
  /\ \/ /\ halted' = recordedKill /\ lastCycleAt' = cycles
        /\ IF recordedKill
           THEN /\ status' = "paused"
                /\ lastState' = [cycle |-> cycles, executed |-> FALSE, same |-> TRUE]
                /\ draft' = [draft EXCEPT !.outcome = "blocked", !.stage = "risk"]
                /\ Goto(c, "pausing")
                /\ UNCHANGED recovered
           ELSE /\ recovered' = RecoveredAfterCheck
                /\ draft' = [draft EXCEPT !.passed = TRUE]
                /\ Goto(c, IF mode = "paper" THEN "intake" ELSE "engine")
                /\ UNCHANGED <<status, lastState>>
        /\ Steady /\ UNCHANGED <<entry, degraded>>
     \/ Fail(c) /\ UNCHANGED lastCycleAt
  /\ UNCHANGED <<disk, mode, cycles, controls, history>>

(* A write of the cycle, and where it goes on from there *)
Written(c, place) ==
  Goto(c, place) /\ Steady /\ UNCHANGED <<status, halted, entry, lastState, degraded, recovered>>

(* The incident of a runtime that found itself killed *)
Pausing(c) ==
  /\ at[c] = "pausing"
  /\ (Written(c, "summing") /\ UNCHANGED draft) \/ Fail(c)
  /\ UNCHANGED <<disk, mode, lastCycleAt, cycles, controls, history>>

(* preparePaperIntake: the market data, with the degraded bookkeeping *)
Intake(c) ==
  /\ at[c] = "intake"
  /\ \/ degraded' = TRUE /\ Goto(c, "intakeBlocked") /\ UNCHANGED <<recovered, draft>>
     \/ /\ degraded' = FALSE
        /\ recovered' = (recovered \/ degraded)
        /\ draft' = [draft EXCEPT !.ends = degraded]
        /\ Goto(c, "wallet")
  /\ Steady
  /\ UNCHANGED <<disk, mode, status, halted, entry, lastState, lastCycleAt, cycles, controls, history>>

(* The wallet snapshot: its provider and address are checked. *)
Wallet(c) ==
  /\ at[c] = "wallet"
  /\ \/ (\E place \in {"engine", "intakeBlocked"} : Written(c, place)) /\ UNCHANGED draft
     \/ Fail(c)
  /\ UNCHANGED <<disk, mode, lastCycleAt, cycles, controls, history>>

(* The incident of a blocked intake *)
IntakeBlocked(c) ==
  /\ at[c] = "intakeBlocked"
  /\ \/ /\ lastState' = [cycle |-> cycles, executed |-> FALSE, same |-> TRUE]
        /\ draft' = [draft EXCEPT !.outcome = "blocked", !.stage = "ingest"]
        /\ Goto(c, "summing")
        /\ Steady /\ UNCHANGED <<status, halted, entry, degraded, recovered>>
     \/ Fail(c)
  /\ UNCHANGED <<disk, mode, lastCycleAt, cycles, controls, history>>

-----------------------------------------------------------------------------
(* The engine's run. *)

(* Mutant: a journal entry that cannot be written is passed over. *)
JournalUnchecked(e) ==
  \/ journal' = [journal EXCEPT ![cycles] = @ \cup {e}] /\ UNCHANGED faults
  \/ Fault /\ UNCHANGED journal

(* appendCriticalJournal, appendJournal *)
Journal(e) ==
  journal' = [journal EXCEPT ![cycles] = @ \cup {e}] /\ UNCHANGED faults

(* The ingest checks or the authority chain block, before any entry. *)
NoTrade(c) ==
  /\ at[c] = "engine" /\ entry = 0
  /\ draft' = [draft EXCEPT !.outcome = "blocked", !.stage = "signal"]
  /\ Goto(c, "concluding")
  /\ Steady
  /\ UNCHANGED <<disk, mode, status, halted, entry, lastState, lastCycleAt, degraded, recovered,
                 cycles, controls, history>>

(* What a stage answers blocks after its entry: risk and chaos may, and in  *)
(* dry mode the verification always does.                                   *)
MayBlock(e) == e \in {"risk_decision", "chaos_decision"}
MustBlock(e) == e = "verification_result" /\ mode = "dry"

(* A stage: its handler, and its entry.  An error of either ends the run.   *)
Stage(c) ==
  LET e == Entry[entry + 1] IN
  /\ at[c] = "engine" /\ entry < Len(Entry)
  /\ \/ /\ Journal(e)
        /\ entry' = entry + 1
        /\ \/ ~MustBlock(e) /\ UNCHANGED <<at, draft>>
           \/ /\ MayBlock(e) \/ MustBlock(e)
              /\ draft' = [draft EXCEPT !.outcome = "blocked", !.stage = e,
                                        !.executed = (entry >= 3)]
              /\ Goto(c, "concluding")
        /\ UNCHANGED <<up, cycleInFlight, interval, intervals>>
        /\ UNCHANGED <<status, halted, lastState, degraded, recovered>>
     \/ Fail(c) /\ UNCHANGED journal
  /\ UNCHANGED <<recordedKill, summaries, mode, lastCycleAt, cycles, controls, history>>

(* All stages have passed. *)
Passed(c) ==
  /\ at[c] = "engine" /\ entry = Len(Entry)
  /\ draft' = [draft EXCEPT !.outcome = "success", !.stage = "monitor", !.executed = TRUE]
  /\ Goto(c, "concluding")
  /\ Steady
  /\ UNCHANGED <<disk, mode, status, halted, entry, lastState, lastCycleAt, degraded, recovered,
                 cycles, controls, history>>

(* The canonical entry.  The engine's state has the timestamp of its own    *)
(* run, which may fall into the millisecond of the cycle's.                 *)
Conclude(c) ==
  /\ at[c] = "concluding"
  /\ \/ /\ Journal("canonical_trade")
        /\ \E same \in BOOLEAN :
             lastState' = [cycle |-> cycles, executed |-> draft.executed, same |-> same]
        /\ Goto(c, "summing")
        /\ UNCHANGED <<up, cycleInFlight, interval, intervals>>
        /\ UNCHANGED <<status, halted, entry, draft, degraded, recovered>>
     \/ Fail(c) /\ UNCHANGED journal
  /\ UNCHANGED <<recordedKill, summaries, mode, lastCycleAt, cycles, controls, history>>

-----------------------------------------------------------------------------
(* The summary, and the end of the cycle. *)

SummaryOf == [cycle |-> cycles, stamp |-> lastCycleAt, outcome |-> draft.outcome,
              executed |-> draft.executed, recovered |-> recovered,
              staged |-> draft.stage, passed |-> draft.passed, ends |-> draft.ends]

(* persistCycleSummary of a cycle that came to its end *)
Summing(c) ==
  /\ at[c] = "summing"
  /\ \/ /\ summaries' = Append(summaries, SummaryOf)
        /\ Written(c, "closing") /\ UNCHANGED draft
     \/ Fail(c) /\ UNCHANGED summaries
  /\ UNCHANGED <<recordedKill, journal, mode, lastCycleAt, cycles, controls, history>>

(* A write of the error path fails: the rest of the path is skipped, and    *)
(* runCycle throws.                                                         *)
ErrorPathFails(c) ==
  /\ Fault
  /\ draft' = [draft EXCEPT !.rejects = TRUE]
  /\ Goto(c, "closing")
  /\ UNCHANGED <<summaries, interval, intervals>>

(* The incidents of the error *)
Failing(c) ==
  /\ at[c] = "failing"
  /\ \/ Goto(c, "errorSumming") /\ UNCHANGED <<summaries, interval, intervals, draft, faults>>
     \/ ErrorPathFails(c)
  /\ UNCHANGED <<recordedKill, journal, mode, up, status, cycleInFlight, halted, entry, lastState,
                 lastCycleAt, degraded, recovered, cycles, controls, history>>

(* clearInterval(this.intervalRef) *)
ClearInterval ==
  /\ interval' = FALSE
  /\ intervals' = IF interval THEN intervals - 1 ELSE intervals

(* The error's summary; then the interval is cleared, and the first cycle's *)
(* error is thrown to start().                                              *)
ErrorSumming(c) ==
  /\ at[c] = "errorSumming"
  /\ \/ /\ summaries' = Append(summaries, SummaryOf)
        /\ ClearInterval
        /\ draft' = [draft EXCEPT !.rejects = (c = "start")]
        /\ Goto(c, "closing")
        /\ UNCHANGED faults
     \/ ErrorPathFails(c)
  /\ UNCHANGED <<recordedKill, journal, mode, up, status, cycleInFlight, halted, entry, lastState,
                 lastCycleAt, degraded, recovered, cycles, controls, history>>

(* The finally block (endCycle does not throw).  An error thrown by the     *)
(* first cycle or by a tick ends the worker; start() arms the interval.     *)
Close(c) ==
  /\ at[c] = "closing"
  /\ IF draft.rejects /\ c # "resume" THEN ProcessDown
     ELSE /\ cycleInFlight' = FALSE
          /\ Goto(c, "idle")
          /\ interval' = (interval \/ c = "start")
          /\ intervals' = IF c = "start" THEN intervals + 1 ELSE intervals
          /\ UNCHANGED <<up, status, halted, entry, draft, lastState, lastCycleAt, degraded,
                         recovered, history>>
  /\ UNCHANGED <<disk, mode, cycles, controls, faults>>

-----------------------------------------------------------------------------
(* The controls of DryRunRuntime, and the control service. *)

Control ==
  /\ up /\ controls < MaxControls /\ controls' = controls + 1
  /\ UNCHANGED <<journal, summaries, mode, up, cycleInFlight, entry, draft, lastState, lastCycleAt,
                 degraded, recovered, cycles, faults>>

Pause ==
  /\ Control
  /\ status \notin {"stopped", "error"}
  /\ status' = "paused"
  /\ UNCHANGED <<recordedKill, halted, interval, intervals, at, history>>

(* resume() arms an interval only if it knows of none; a start() or an      *)
(* error path under way will arm another, or clear this one.                *)
Resume ==
  /\ Control
  /\ ~halted /\ status = "paused" /\ at["resume"] = "idle"
  /\ status' = "running"
  /\ interval' = TRUE
  /\ intervals' = IF interval THEN intervals ELSE intervals + 1
  /\ Goto("resume", "called")
  /\ overtaken' = (overtaken \/ \E c \in Caller : at[c] \in {"failing", "errorSumming"})
  /\ overlaps' = IF at["start"] # "idle" THEN overlaps + 1 ELSE overlaps
  /\ UNCHANGED <<recordedKill, halted>>

(* stop() differs only in the incident. *)
Halt ==
  /\ Control
  /\ ClearInterval
  /\ status' = "stopped"
  /\ UNCHANGED <<recordedKill, halted, at, history>>

(* The kill is recorded through the manager, which may fail or postpone it. *)
EmergencyStop ==
  /\ Control
  /\ status' = "paused"
  /\ \/ recordedKill' = TRUE /\ halted' = TRUE
     \/ UNCHANGED <<recordedKill, halted>>
  /\ UNCHANGED <<interval, intervals, at, history>>

ResetLiveKill ==
  /\ Control
  /\ recordedKill' = FALSE /\ halted' = FALSE
  /\ UNCHANGED <<status, interval, intervals, at, history>>

(* The control service records a kill; the next refresh shows it. *)
TriggerKill ==
  /\ controls < MaxControls /\ controls' = controls + 1
  /\ recordedKill' = TRUE
  /\ UNCHANGED <<journal, summaries, mode, process, cycle, cycles, faults, history>>

Init ==
  /\ mode \in Modes
  /\ recordedKill = FALSE /\ summaries = <<>>
  /\ journal = [n \in 1 .. MaxCycles |-> {}]
  /\ up = FALSE /\ status = "idle" /\ cycleInFlight = FALSE /\ halted = FALSE
  /\ interval = FALSE /\ intervals = 0
  /\ at = [c \in Caller |-> "idle"] /\ entry = 0 /\ draft = NoDraft
  /\ lastState = NoState /\ lastCycleAt = 0
  /\ degraded = FALSE /\ recovered = FALSE
  /\ cycles = 0 /\ controls = 0 /\ faults = 0
  /\ overtaken = FALSE /\ overlaps = 0

CycleStep(c) ==
  \/ Refresh(c) \/ Pausing(c) \/ Intake(c) \/ Wallet(c) \/ IntakeBlocked(c)
  \/ NoTrade(c) \/ Stage(c) \/ Passed(c) \/ Conclude(c)
  \/ Summing(c) \/ Failing(c) \/ ErrorSumming(c) \/ Close(c)

Next ==
  \/ \E c \in Caller : CycleStep(c)
  \/ TimerFires \/ StartRunsCycle \/ ResumeRunsCycle
  \/ Boot \/ Crash
  \/ Pause \/ Resume \/ Halt \/ EmergencyStop \/ ResetLiveKill \/ TriggerKill

Spec == Init /\ [][Next]_vars

-----------------------------------------------------------------------------
AllEntries == {Entry[i] : i \in 1 .. Len(Entry)} \cup {"canonical_trade"}

(* The summaries and the journal tell the same story, over failing writes,  *)
(* errors and crashes: a cycle has one summary; a success has every entry   *)
(* of its run in the journal, and a cycle that the engine blocked its       *)
(* canonical one; an execution is only claimed with its own entry or, after *)
(* an error, with that of the cycle whose time the summary carries; and     *)
(* a recovery is told by the cycle that ended the degraded run, or told     *)
(* again by one that did not get past its kill check.                       *)
SummariesTrue ==
  \A i \in 1 .. Len(summaries) :
    LET s == summaries[i] IN
    /\ \A j \in 1 .. Len(summaries) : summaries[j].cycle = s.cycle => i = j
    /\ s.outcome = "success" => AllEntries \subseteq journal[s.cycle]
    /\ s.outcome = "blocked" /\ s.staged \notin {"risk", "ingest"}
         => "canonical_trade" \in journal[s.cycle]
    /\ s.executed => "execution_result" \in journal[s.stamp]
    /\ s.recovered => s.ends \/ ~s.passed

(* A runtime that says it runs has an interval that will run it, unless a   *)
(* resume fell into the error path of a cycle, which then clears it; and it *)
(* has one interval, but for each resume that fell into start().            *)
RunningIsArmed ==
  /\ status = "running" /\ at["start"] = "idle" => (interval /\ intervals > 0) \/ overtaken
  /\ intervals <= 1 + overlaps
=============================================================================
