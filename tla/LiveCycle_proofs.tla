--------------------------- MODULE LiveCycle_proofs ---------------------------
(***************************************************************************)
(* Proofs about LiveCycle, for every value of its constants: one cycle at  *)
(* a time, and at most one transaction per idempotency key.                *)
(***************************************************************************)
EXTENDS LiveCycle, TLAPS

Stage == {"idle", "called"} \cup InCycle

(* The part of the type invariant the control flow rests on. *)
FlowType ==
  /\ up \in BOOLEAN /\ cycleInFlight \in BOOLEAN
  /\ at \in [Caller -> Stage]
  /\ intent \in [Caller -> [key : Key \cup {"none"}, ok : BOOLEAN, loss : Nat]]
  /\ record \in [Key -> {"none", "pending", "completed", "failed"}]
  /\ sends \in [Key -> Nat]

(* A process that is down runs nothing. *)
DownIsIdle == ~up => ~cycleInFlight /\ status = "idle"

(***************************************************************************)
(* What a step may do to the control flow: nothing, move one caller inside *)
(* its cycle, let one in or out, have resume() wait for its turn or give   *)
(* up, or end the process.                                                 *)
(***************************************************************************)
Moves(c) ==
  /\ at[c] \in InCycle
  /\ \E s \in InCycle : Goto(c, s)
  /\ UNCHANGED <<up, cycleInFlight>>
Enters(c) ==
  /\ ~cycleInFlight /\ cycleInFlight' = TRUE
  /\ Goto(c, "entered")
  /\ up' = TRUE
Leaves(c) ==
  /\ at[c] \in InCycle
  /\ Goto(c, "idle")
  /\ cycleInFlight' = FALSE /\ UNCHANGED up
Waits ==
  /\ at["resume"] \notin InCycle
  /\ Goto("resume", "called") \/ Goto("resume", "idle")
  /\ UNCHANGED <<up, cycleInFlight>>
Stays == UNCHANGED <<up, at, cycleInFlight>>

Flow ==
  \/ Stays \/ Waits \/ ProcessDown
  \/ \E c \in Caller : Moves(c) \/ Enters(c) \/ Leaves(c)

(* The steps of a cycle move its caller on, or let it out. *)
LEMMA CycleStepFlow ==
  ASSUME FlowType, NEW c \in Caller, CycleStep(c)
  PROVE  Moves(c) \/ Leaves(c) \/ Stays \/ ProcessDown
<1>1. CASE CheckKillSwitch(c)
  BY <1>1 DEF CheckKillSwitch, Moves, Goto, InCycle
<1>2. CASE Blocked(c)
  BY <1>2 DEF Blocked, Moves, Goto, InCycle, runtime
<1>3. CASE \E k \in Key : Risk(c, k)
  BY <1>3 DEF Risk, Moves, Stays, Goto, InCycle, runtime
<1>4. CASE ChaosBlocks(c)
  BY <1>4 DEF ChaosBlocks, Moves, Goto, InCycle, runtime
<1>5. CASE Claim(c)
  BY <1>5 DEF Claim, Moves, Goto, InCycle, runtime
<1>6. CASE Send(c)
  BY <1>6 DEF Send, Moves, Goto, InCycle, runtime
<1>7. CASE \E l \in Loss : TradeSucceeds(c, l)
  BY <1>7 DEF TradeSucceeds, Moves, Goto, InCycle, runtime
<1>8. CASE TradeFails(c)
  BY <1>8 DEF TradeFails, Moves, Goto, InCycle, runtime
<1>9. CASE Verify(c)
  BY <1>9 DEF Verify, Moves, Goto, InCycle, runtime
<1>10. CASE CycleThrows(c)
  BY <1>10 DEF CycleThrows, Moves, Goto, InCycle
<1>11. CASE CloseCycle(c)
  BY <1>11 DEF CloseCycle, LeaveCycle, Leaves, Goto, InCycle
<1>12. CASE CloseFailedCycle(c)
  BY <1>12 DEF CloseFailedCycle, LeaveCycle, Leaves, Goto, InCycle
<1> QED
  BY <1>1, <1>2, <1>3, <1>4, <1>5, <1>6, <1>7, <1>8, <1>9, <1>10, <1>11, <1>12 DEF CycleStep

LEMMA NextFlow ==
  ASSUME FlowType, DownIsIdle, [Next]_vars
  PROVE  Flow
<1>1. CASE \E c \in Caller : CycleStep(c)
  BY <1>1, CycleStepFlow DEF Flow
<1>2. CASE TimerFires
  BY <1>2 DEF TimerFires, EnterCycle, MayEnter, Flow, Enters, Caller, FlowType
<1>3. CASE ResumeRunsCycle
  <2>1. CASE EnterCycle("resume")
    BY <1>3, <2>1 DEF ResumeRunsCycle, EnterCycle, MayEnter, DownIsIdle, Flow, Enters, Caller, FlowType
  <2>2. CASE Goto("resume", "idle") /\ UNCHANGED cycleInFlight
    BY <1>3, <2>2 DEF ResumeRunsCycle, Flow, Waits, InCycle
  <2> QED
    BY <1>3, <2>1, <2>2 DEF ResumeRunsCycle
<1>4. CASE Boot
  BY <1>4 DEF Boot, DownIsIdle, Flow, Stays, Enters, Caller, FlowType, runtime
<1>5. CASE Crash
  BY <1>5 DEF Crash, Flow
<1>6. CASE Pause \/ Halt \/ EmergencyStop \/ ResetLiveKill
  BY <1>6 DEF Pause, Halt, Stop, EmergencyStop, ResetLiveKill, Control, Flow, Stays
<1>7. CASE Resume
  BY <1>7 DEF Resume, Control, Flow, Stays, Waits, InCycle
<1>8. CASE TriggerKill \/ Midnight \/ UNCHANGED vars
  BY <1>8 DEF TriggerKill, Midnight, vars, runtime, callers, Flow, Stays
<1> QED
  BY <1>1, <1>2, <1>3, <1>4, <1>5, <1>6, <1>7, <1>8 DEF Next

-----------------------------------------------------------------------------
(* Types *)

IntentType == [key : Key \cup {"none"}, ok : BOOLEAN, loss : Nat]

LEMMA NoIntentType == NoIntent \in IntentType
BY DEF NoIntent, IntentType

LEMMA InitFlow == Init => FlowType /\ DownIsIdle
<1> SUFFICES ASSUME Init PROVE FlowType /\ DownIsIdle
  OBVIOUS
<1>1. at \in [Caller -> Stage] /\ up = FALSE /\ cycleInFlight = FALSE /\ status = "idle"
  BY DEF Init, Stage
<1>2. intent \in [Caller -> IntentType]
  BY NoIntentType DEF Init
<1>3. record \in [Key -> {"none", "pending", "completed", "failed"}] /\ sends \in [Key -> Nat]
  BY DEF Init
<1> QED
  BY <1>1, <1>2, <1>3 DEF FlowType, DownIsIdle, IntentType

LEMMA FlowTypeKept ==
  ASSUME FlowType, DownIsIdle, [Next]_vars
  PROVE  FlowType'
<1>1. up' \in BOOLEAN /\ cycleInFlight' \in BOOLEAN /\ at' \in [Caller -> Stage]
  <2> USE DEF FlowType
  <2>1. ASSUME NEW c \in Caller, NEW s \in Stage, Goto(c, s) PROVE at' \in [Caller -> Stage]
    BY <2>1 DEF Goto
  <2>2. /\ "resume" \in Caller /\ InCycle \subseteq Stage
        /\ "idle" \in Stage /\ "called" \in Stage /\ "entered" \in Stage
    BY DEF Caller, Stage, InCycle
  <2>3. CASE Stays
    BY <2>3 DEF Stays
  <2>4. CASE Waits
    BY <2>1, <2>2, <2>4 DEF Waits
  <2>5. CASE ProcessDown
    BY <2>2, <2>5 DEF ProcessDown
  <2>6. CASE \E c \in Caller : Moves(c) \/ Enters(c) \/ Leaves(c)
    BY <2>1, <2>2, <2>6 DEF Moves, Enters, Leaves
  <2> QED
    BY <2>3, <2>4, <2>5, <2>6, NextFlow DEF Flow
<1>2. NoIntent \in IntentType
  BY NoIntentType
<1>3. intent' \in [Caller -> IntentType] /\ record' \in [Key -> {"none", "pending", "completed", "failed"}]
      /\ sends' \in [Key -> Nat]
  <2> USE DEF FlowType, IntentType
  <2>1. ASSUME NEW c \in Caller, CycleStep(c) PROVE <1>3
    <3>1. CASE CheckKillSwitch(c) \/ Blocked(c) \/ ChaosBlocks(c) \/ CycleThrows(c)
      BY <3>1 DEF CheckKillSwitch, Blocked, ChaosBlocks, CycleThrows, files, sent
    <3>2. CASE \E k \in Key : Risk(c, k)
      BY <3>2 DEF Risk, sent
    <3>3. CASE Claim(c)
      BY <3>3 DEF Claim, sent
    <3>4. CASE Send(c)
      <4>1. sends' = [sends EXCEPT ![intent[c].key] = sends[intent[c].key] + 1]
            /\ UNCHANGED <<intent, record>>
        BY <3>4 DEF Send, files
      <4>2. ASSUME NEW k \in Key PROVE sends'[k] \in Nat
        BY <4>1
      <4> QED
        BY <4>1, <4>2
    <3>5. CASE \E l \in Loss : TradeSucceeds(c, l)
      <4>1. PICK l \in Loss : TradeSucceeds(c, l)
        BY <3>5
      <4>2. record' = [record EXCEPT ![intent[c].key] = "completed"] /\ UNCHANGED sends
        BY <4>1 DEF TradeSucceeds
      <4>3. intent' = [intent EXCEPT ![c] = [intent[c] EXCEPT !.ok = TRUE, !.loss = l]]
        BY <4>1 DEF TradeSucceeds
      <4>4. l \in Nat
        BY LimitsOK
      <4>5. [intent[c] EXCEPT !.ok = TRUE, !.loss = l] \in IntentType
        BY <4>4
      <4> QED
        BY <4>2, <4>3, <4>5
    <3>6. CASE TradeFails(c)
      BY <3>6 DEF TradeFails, sent
    <3>7. CASE Verify(c)
      BY <3>7 DEF Verify
    <3>8. CASE CloseCycle(c)
      BY <1>2, <3>8 DEF CloseCycle, LeaveCycle, files, sent
    <3>9. CASE CloseFailedCycle(c)
      BY <1>2, <3>9 DEF CloseFailedCycle, LeaveCycle, ProcessDown, files, sent
    <3> QED
      BY <2>1, <3>1, <3>2, <3>3, <3>4, <3>5, <3>6, <3>7, <3>8, <3>9 DEF CycleStep
  <2>2. CASE TimerFires \/ ResumeRunsCycle \/ Boot
    BY <2>2 DEF TimerFires, ResumeRunsCycle, Boot, files, sent
  <2>3. CASE Crash
    BY <1>2, <2>3 DEF Crash, ProcessDown, files, sent
  <2>4. CASE Pause \/ Resume \/ Halt \/ EmergencyStop \/ ResetLiveKill
    BY <2>4 DEF Pause, Resume, Halt, Stop, EmergencyStop, ResetLiveKill, Control
  <2>5. CASE TriggerKill \/ Midnight \/ UNCHANGED vars
    BY <2>5 DEF TriggerKill, Midnight, vars, files, callers, sent
  <2> QED
    BY <2>1, <2>2, <2>3, <2>4, <2>5 DEF Next
<1> QED
  BY <1>1, <1>3 DEF FlowType, IntentType

-----------------------------------------------------------------------------
(* One cycle at a time *)

LEMMA InitExclusive == Init => CycleExclusive
BY DEF Init, CycleExclusive, InCycle

LEMMA ExclusiveKept ==
  ASSUME FlowType, CycleExclusive, Flow
  PROVE  CycleExclusive'
<1> USE DEF FlowType, CycleExclusive
<1>1. CASE Stays
  BY <1>1 DEF Stays
<1>2. CASE Waits
  BY <1>2 DEF Waits, Goto, InCycle
<1>3. CASE ProcessDown
  BY <1>3 DEF ProcessDown, InCycle
<1>4. ASSUME NEW c \in Caller, Moves(c) PROVE CycleExclusive'
  <2>1. PICK s \in InCycle : Goto(c, s)
    BY <1>4 DEF Moves
  <2>2. \A b \in Caller : at'[b] \in InCycle <=> at[b] \in InCycle
    BY <1>4, <2>1 DEF Moves, Goto
  <2> QED
    BY <1>4, <2>2 DEF Moves
<1>5. ASSUME NEW c \in Caller, Enters(c) PROVE CycleExclusive'
  <2>1. \A b \in Caller : at'[b] \in InCycle <=> b = c
    BY <1>5 DEF Enters, Goto, InCycle
  <2> QED
    BY <1>5, <2>1 DEF Enters
<1>6. ASSUME NEW c \in Caller, Leaves(c) PROVE CycleExclusive'
  <2>1. \A b \in Caller : at'[b] \notin InCycle
    BY <1>6 DEF Leaves, Goto, InCycle
  <2> QED
    BY <1>6, <2>1 DEF Leaves
<1> QED
  BY <1>1, <1>2, <1>3, <1>4, <1>5, <1>6 DEF Flow

LEMMA DownIsIdleKept ==
  ASSUME FlowType, DownIsIdle, CycleExclusive, [Next]_vars
  PROVE  DownIsIdle'
<1> USE DEF DownIsIdle
<1>1. ASSUME NEW c \in Caller, CycleStep(c) PROVE DownIsIdle'
  <2>1. at[c] \in InCycle
    BY <1>1 DEF CycleStep, CheckKillSwitch, Blocked, Risk, ChaosBlocks, Claim, Send,
       TradeSucceeds, TradeFails, Verify, CycleThrows, CloseCycle, CloseFailedCycle, InCycle
  <2>2. up
    BY <2>1 DEF CycleExclusive, FlowType
  <2>3. up' \/ ProcessDown
    BY <1>1, <2>2, CycleStepFlow DEF Moves, Leaves, Stays
  <2> QED
    BY <2>3 DEF ProcessDown
<1>2. CASE TimerFires
  BY <1>2 DEF TimerFires
<1>3. CASE ResumeRunsCycle
  BY <1>3 DEF ResumeRunsCycle, EnterCycle, MayEnter
<1>4. CASE Boot
  BY <1>4 DEF Boot, runtime
<1>5. CASE Crash
  BY <1>5 DEF Crash, ProcessDown
<1>6. CASE Pause \/ Resume \/ Halt \/ EmergencyStop \/ ResetLiveKill
  BY <1>6 DEF Pause, Resume, Halt, Stop, EmergencyStop, ResetLiveKill, Control
<1>7. CASE TriggerKill \/ Midnight \/ UNCHANGED vars
  BY <1>7 DEF TriggerKill, Midnight, vars, runtime
<1> QED
  BY <1>1, <1>2, <1>3, <1>4, <1>5, <1>6, <1>7 DEF Next

(* The inductive invariant of the control flow. *)
FlowInv == FlowType /\ DownIsIdle /\ CycleExclusive

LEMMA FlowInvariant == Spec => []FlowInv
<1>1. Init => FlowInv
  BY InitFlow, InitExclusive DEF FlowInv
<1>2. FlowInv /\ [Next]_vars => FlowInv'
  BY FlowTypeKept, NextFlow, ExclusiveKept, DownIsIdleKept DEF FlowInv
<1> QED
  BY <1>1, <1>2, PTL DEF Spec

(* At most one cycle runs, whoever calls runCycle: start(), resume() or the *)
(* timer, over errors, crashes and restarts.                                *)
THEOREM CyclesExclude == Spec => []CycleExclusive
<1>1. FlowInv => CycleExclusive
  BY DEF FlowInv
<1> QED
  BY <1>1, FlowInvariant, PTL

-----------------------------------------------------------------------------
(* At most one transaction per key *)

(* A key without a record was never sent, and the intent of a running       *)
(* execution holds a pending record, unsent until the transaction goes out. *)
ClaimInv ==
  /\ \A k \in Key : record[k] = "none" => sends[k] = 0
  /\ \A c \in Caller : at[c] \in {"executing", "refused", "sent"} =>
       intent[c].key \in Key /\ record[intent[c].key] = "pending"
  /\ \A c \in Caller : at[c] = "executing" => sends[intent[c].key] = 0

LEMMA InitClaim == Init => ClaimInv
BY DEF Init, ClaimInv

(* A step that leaves records and transactions alone, and starts no         *)
(* execution, keeps the claims.                                             *)
LEMMA ClaimQuiet ==
  ASSUME FlowType, ClaimInv, UNCHANGED <<record, sends>>,
         \A c \in Caller : at'[c] \in {"executing", "refused", "sent"} =>
            at'[c] = at[c] /\ intent'[c] = intent[c]
  PROVE  ClaimInv'
BY DEF ClaimInv, FlowType

LEMMA ClaimKept ==
  ASSUME FlowInv, ClaimInv, [Next]_vars
  PROVE  ClaimInv'
<1> USE DEF FlowInv, FlowType
<1>1. ASSUME NEW c \in Caller, CycleStep(c) PROVE ClaimInv'
  <2>0. \A b \in Caller : b # c /\ at[c] \in InCycle => at[b] \notin InCycle
    BY DEF CycleExclusive
  <2>1. CASE CheckKillSwitch(c) \/ Blocked(c) \/ ChaosBlocks(c) \/ CycleThrows(c)
    BY <2>1, ClaimQuiet DEF CheckKillSwitch, Blocked, ChaosBlocks, CycleThrows, Goto, files, sent
  <2>2. CASE \E k \in Key : Risk(c, k)
    BY <2>2, ClaimQuiet DEF Risk, Goto, sent
  <2>3. CASE Claim(c)
    <3>1. CASE record[intent[c].key] # "none"
      BY <2>3, <3>1, ClaimQuiet DEF Claim, Goto, sent
    <3>2. CASE record[intent[c].key] = "none"
      <4>1. /\ intent[c].key \in Key
            /\ record' = [record EXCEPT ![intent[c].key] = "pending"]
            /\ at'[c] \in {"refused", "executing"}
            /\ \A b \in Caller \ {c} : at'[b] = at[b]
            /\ UNCHANGED <<intent, sends>>
            /\ at[c] \in InCycle
        BY <2>3, <3>2 DEF Claim, Goto, sent, InCycle
      <4> QED
        BY <4>1, <2>0, <3>2 DEF ClaimInv, InCycle
    <3> QED
      BY <3>1, <3>2
  <2>4. CASE Send(c)
    <3>1. /\ at[c] = "executing" /\ at'[c] = "sent"
          /\ \A b \in Caller \ {c} : at'[b] = at[b]
          /\ sends' = [sends EXCEPT ![intent[c].key] = @ + 1]
          /\ UNCHANGED <<intent, record>>
      BY <2>4 DEF Send, Goto, files
    <3> QED
      BY <3>1, <2>0 DEF ClaimInv, InCycle
  <2>5. CASE (\E l \in Loss : TradeSucceeds(c, l)) \/ TradeFails(c)
    <3>1. /\ at[c] \in {"refused", "executing", "sent"} /\ at'[c] = "reported"
          /\ \A b \in Caller \ {c} : at'[b] = at[b] /\ intent'[b] = intent[b]
          /\ \E r \in {"completed", "failed"} : record' = [record EXCEPT ![intent[c].key] = r]
          /\ UNCHANGED sends
      BY <2>5 DEF TradeSucceeds, TradeFails, Goto, sent
    <3> QED
      BY <3>1, <2>0 DEF ClaimInv, InCycle
  <2>6. CASE Verify(c)
    BY <2>6, ClaimQuiet DEF Verify, Goto
  <2>7. CASE CloseCycle(c)
    BY <2>7, ClaimQuiet DEF CloseCycle, LeaveCycle, Goto, files, sent
  <2>8. CASE CloseFailedCycle(c)
    BY <2>8, ClaimQuiet DEF CloseFailedCycle, ProcessDown, LeaveCycle, Goto, files, sent
  <2> QED
    BY <1>1, <2>1, <2>2, <2>3, <2>4, <2>5, <2>6, <2>7, <2>8 DEF CycleStep
<1>2. CASE TimerFires \/ ResumeRunsCycle
  BY <1>2, ClaimQuiet DEF TimerFires, ResumeRunsCycle, EnterCycle, Goto, files, sent
<1>3. CASE Boot
  BY <1>3, ClaimQuiet DEF Boot, Goto, sent
<1>4. CASE Crash
  BY <1>4, ClaimQuiet DEF Crash, ProcessDown, files, sent
<1>5. CASE Pause \/ Resume \/ Halt \/ EmergencyStop \/ ResetLiveKill
  BY <1>5, ClaimQuiet DEF Pause, Resume, Halt, Stop, EmergencyStop, ResetLiveKill, Control, Goto
<1>6. CASE TriggerKill \/ Midnight \/ UNCHANGED vars
  BY <1>6, ClaimQuiet DEF TriggerKill, Midnight, vars, files, callers, sent
<1> QED
  BY <1>1, <1>2, <1>3, <1>4, <1>5, <1>6 DEF Next


Claimed == {k \in Key : record[k] # "none"}
Closed == {k \in Key : record[k] \in {"completed", "failed"}}

LEMMA InitRefines == Init => Idempotency!Init
BY DEF Init, Idempotency!Init

(* Claim, Send and the two ends of a trade are steps of TradeOnce; nothing  *)
(* else touches a record or sends a transaction.                            *)
LEMMA StepRefines ==
  ASSUME FlowInv, ClaimInv, [Next]_vars
  PROVE  Idempotency!Next \/ UNCHANGED <<Claimed, Closed, sends>>
<1> USE DEF FlowInv, FlowType
<1>1. ASSUME NEW c \in Caller, CycleStep(c)
      PROVE  Idempotency!Next \/ UNCHANGED <<Claimed, Closed, sends>>
  <2>1. CASE UNCHANGED <<record, sends>>
    BY <2>1 DEF Claimed, Closed
  <2>2. CASE Claim(c)
    <3>1. CASE record[intent[c].key] # "none"
      BY <2>1, <2>2, <3>1 DEF Claim, sent
    <3>2. CASE record[intent[c].key] = "none"
      <4>1. /\ intent[c].key \in Key
            /\ record' = [record EXCEPT ![intent[c].key] = "pending"]
            /\ UNCHANGED sends
        BY <2>2, <3>2 DEF Claim, sent
      <4>2. \E k \in Key : Idempotency!Claim(k)
        BY <3>2, <4>1 DEF Idempotency!Claim
      <4> QED
        BY <4>2 DEF Idempotency!Next
    <3> QED
      BY <3>1, <3>2
  <2>3. CASE Send(c)
    <3>1. /\ intent[c].key \in Key /\ record[intent[c].key] = "pending"
          /\ sends[intent[c].key] = 0
          /\ sends' = [sends EXCEPT ![intent[c].key] = sends[intent[c].key] + 1]
          /\ UNCHANGED record
      BY <2>3 DEF Send, ClaimInv, files
    <3>2. sends' = [sends EXCEPT ![intent[c].key] = 1]
      BY <3>1
    <3>3. \E k \in Key : Idempotency!Send(k)
      BY <3>1, <3>2 DEF Idempotency!Send
    <3> QED
      BY <3>3 DEF Idempotency!Next
  <2>4. CASE (\E l \in Loss : TradeSucceeds(c, l)) \/ TradeFails(c)
    <3>1. /\ intent[c].key \in Key /\ record[intent[c].key] = "pending"
          /\ \E r \in {"completed", "failed"} : record' = [record EXCEPT ![intent[c].key] = r]
          /\ UNCHANGED sends
      BY <2>4 DEF TradeSucceeds, TradeFails, ClaimInv, sent
    <3>2. \E k \in Key : Idempotency!Close(k)
      BY <3>1 DEF Idempotency!Close
    <3> QED
      BY <3>2 DEF Idempotency!Next
  <2>5. CASE CheckKillSwitch(c) \/ Blocked(c) \/ (\E k \in Key : Risk(c, k)) \/ ChaosBlocks(c)
             \/ Verify(c) \/ CycleThrows(c) \/ CloseCycle(c) \/ CloseFailedCycle(c)
    BY <2>1, <2>5 DEF CheckKillSwitch, Blocked, Risk, ChaosBlocks, Verify, CycleThrows,
       CloseCycle, CloseFailedCycle, files, sent
  <2> QED
    BY <1>1, <2>2, <2>3, <2>4, <2>5 DEF CycleStep
<1>2. CASE TimerFires \/ ResumeRunsCycle \/ Boot \/ Crash \/ TriggerKill \/ Midnight
  BY <1>2 DEF TimerFires, ResumeRunsCycle, Boot, Crash, TriggerKill, Midnight, files, sent,
     Claimed, Closed
<1>3. CASE Pause \/ Resume \/ Halt \/ EmergencyStop \/ ResetLiveKill
  BY <1>3 DEF Pause, Resume, Halt, Stop, EmergencyStop, ResetLiveKill, Control, Claimed, Closed
<1>4. CASE UNCHANGED vars
  BY <1>4 DEF vars, files, sent, Claimed, Closed
<1> QED
  BY <1>1, <1>2, <1>3, <1>4 DEF Next

(***************************************************************************)
(* The calls of the handler.  At most one is under way; of the other keys  *)
(* the record alone says what became of their calls.                       *)
(***************************************************************************)
Calling == {"refused", "executing", "sent"}

Settled(r) ==
  CASE r = "none" -> "called"
    [] r = "completed" -> "succeeded"
    [] r = "failed" -> "failed"
    [] OTHER -> "thrown"

PhaseInv ==
  /\ \A c \in Caller : at[c] \in Calling =>
       /\ intent[c].key \in Key /\ CallPhase(intent[c].key) = at[c]
       /\ \A k \in Key \ {intent[c].key} : CallPhase(k) = Settled(record[k])
  /\ (\A c \in Caller : at[c] \notin Calling) => \A k \in Key : CallPhase(k) = Settled(record[k])

LEMMA PhasesAre == FlowInv /\ ClaimInv => PhaseInv
<1> SUFFICES ASSUME FlowInv, ClaimInv PROVE PhaseInv
  OBVIOUS
<1> USE DEF FlowInv, FlowType
<1>1. ASSUME NEW k \in Key, \A stage \in Calling : ~AtCall(k, stage)
      PROVE  CallPhase(k) = Settled(record[k])
  BY <1>1 DEF CallPhase, Settled, Calling
<1>2. ASSUME NEW c \in Caller, at[c] \in Calling
      PROVE  /\ intent[c].key \in Key /\ CallPhase(intent[c].key) = at[c]
             /\ \A k \in Key \ {intent[c].key} : CallPhase(k) = Settled(record[k])
  <2>1. intent[c].key \in Key /\ record[intent[c].key] = "pending"
    BY <1>2 DEF ClaimInv, Calling
  <2>2. \A b \in Caller \ {c} : at[b] \notin Calling
    BY <1>2 DEF CycleExclusive, Calling, InCycle
  <2>3. \A k \in Key : \A stage \in Calling : AtCall(k, stage) <=> stage = at[c] /\ k = intent[c].key
    BY <1>2, <2>2 DEF AtCall
  <2>4. CallPhase(intent[c].key) = at[c]
    BY <1>2, <2>1, <2>3 DEF CallPhase, Calling
  <2> QED
    BY <1>1, <2>1, <2>3, <2>4
<1>3. ASSUME \A c \in Caller : at[c] \notin Calling
      PROVE  \A k \in Key : CallPhase(k) = Settled(record[k])
  BY <1>1, <1>3 DEF AtCall
<1> QED
  BY <1>2, <1>3 DEF PhaseInv

Phases == [k \in Key |-> CallPhase(k)]

CallStep == Calls!Next \/ UNCHANGED <<Phases, sends>>

(* A step that records and sends nothing and begins no call leaves the one  *)
(* that is under way alone, or gives it up.                                 *)
LEMMA CallQuiet ==
  ASSUME FlowInv, PhaseInv, PhaseInv', UNCHANGED <<record, sends>>,
         \A c \in Caller : at'[c] \in Calling => at'[c] = at[c] /\ intent'[c] = intent[c]
  PROVE  CallStep
<1>1. CASE \E c \in Caller : at'[c] \in Calling
  <2>1. PICK c \in Caller : at'[c] \in Calling /\ at'[c] = at[c] /\ intent'[c] = intent[c]
    BY <1>1
  <2>2. \A k \in Key : CallPhase(k)' = CallPhase(k)
    BY <2>1 DEF PhaseInv
  <2> QED
    BY <2>2 DEF CallStep, Phases
<1>2. CASE \A c \in Caller : at'[c] \notin Calling
  <2>1. \A k \in Key : CallPhase(k)' = Settled(record[k])
    BY <1>2 DEF PhaseInv
  <2>2. CASE \A c \in Caller : at[c] \notin Calling
    <3>1. \A k \in Key : CallPhase(k)' = CallPhase(k)
      BY <2>1, <2>2 DEF PhaseInv
    <3> QED
      BY <3>1 DEF CallStep, Phases
  <2>3. ASSUME NEW c \in Caller, at[c] \in Calling PROVE CallStep
    <3>1. PICK key \in Key : key = intent[c].key
      BY <2>3 DEF PhaseInv
    <3>2. CallPhase(key) \in Calling /\ \A k \in Key \ {key} : CallPhase(k) = Settled(record[k])
      BY <2>3, <3>1 DEF PhaseInv
    <3>3. CallPhase(key)' = "thrown"
      <4>1. record[key] = "pending"
        BY <3>2 DEF FlowInv, FlowType, CallPhase, Calling
      <4> QED
        BY <2>1, <4>1 DEF Settled
    <3>4. Phases' = [Phases EXCEPT ![key] = "thrown"]
      BY <2>1, <3>2, <3>3 DEF Phases
    <3>5. Calls!Throw(key)
      BY <3>2, <3>4 DEF Calls!Throw, Calls!Becomes, Calls!UnderWay, Phases, Calling
    <3> QED
      BY <3>5 DEF CallStep, Calls!Next
  <2> QED
    BY <2>2, <2>3
<1> QED
  BY <1>1, <1>2

(* The key's phase changes to what its record and its caller say; nobody    *)
(* else has a call.                                                         *)
LEMMA CallMoves ==
  ASSUME FlowInv, PhaseInv, PhaseInv', NEW c \in Caller, at[c] \in InCycle,
         \A b \in Caller \ {c} : at'[b] = at[b],
         intent[c].key \in Key, UNCHANGED intent[c].key,
         \A k \in Key \ {intent[c].key} : record'[k] = record[k]
  PROVE  /\ at[c] \in Calling => CallPhase(intent[c].key) = at[c]
         /\ at[c] \notin Calling => CallPhase(intent[c].key) = Settled(record[intent[c].key])
         /\ at'[c] \in Calling => Phases' = [Phases EXCEPT ![intent[c].key] = at'[c]]
         /\ at'[c] \notin Calling =>
              Phases' = [Phases EXCEPT ![intent[c].key] = Settled(record'[intent[c].key])]
<1>1. PICK key \in Key : key = intent[c].key
  OBVIOUS
<1>2. \A b \in Caller \ {c} : at[b] \notin Calling /\ at'[b] \notin Calling
  BY DEF FlowInv, CycleExclusive, Calling, InCycle
<1>3. /\ \A k \in Key \ {key} : CallPhase(k) = Settled(record[k])
      /\ at[c] \in Calling => CallPhase(key) = at[c]
      /\ at[c] \notin Calling => CallPhase(key) = Settled(record[key])
  BY <1>1, <1>2 DEF PhaseInv
<1>4. /\ \A k \in Key \ {key} : CallPhase(k)' = Settled(record'[k])
      /\ at'[c] \in Calling => CallPhase(key)' = at'[c]
      /\ at'[c] \notin Calling => CallPhase(key)' = Settled(record'[key])
  BY <1>1, <1>2 DEF PhaseInv
<1>5. \A k \in Key \ {key} : CallPhase(k)' = CallPhase(k)
  BY <1>1, <1>3, <1>4
<1>6. at'[c] \in Calling => Phases' = [Phases EXCEPT ![key] = at'[c]]
  BY <1>4, <1>5 DEF Phases
<1>7. at'[c] \notin Calling => Phases' = [Phases EXCEPT ![key] = Settled(record'[key])]
  BY <1>4, <1>5 DEF Phases
<1> QED
  BY <1>1, <1>3, <1>6, <1>7

LEMMA CallRefines ==
  ASSUME FlowInv, ClaimInv, PhaseInv, PhaseInv', [Next]_vars
  PROVE  CallStep
<1> USE DEF FlowInv, FlowType
<1>1. ASSUME NEW c \in Caller, CycleStep(c) PROVE CallStep
  <2>1. CASE CheckKillSwitch(c) \/ Blocked(c) \/ ChaosBlocks(c) \/ CycleThrows(c)
    BY <2>1, CallQuiet
       DEF CheckKillSwitch, Blocked, ChaosBlocks, CycleThrows, Goto, files, sent, Calling
  <2>2. CASE (\E k \in Key : Risk(c, k)) \/ Verify(c)
    BY <2>2, CallQuiet DEF Risk, Verify, Goto, sent, Calling
  <2>3. CASE Claim(c) /\ record[intent[c].key] # "none"
    BY <2>3, CallQuiet DEF Claim, Goto, sent, Calling
  <2>4. CASE Claim(c) /\ record[intent[c].key] = "none"
    <3>1. PICK key \in Key : key = intent[c].key
      BY <2>4 DEF Claim
    <3>2. /\ at[c] = "deciding" /\ at'[c] \in {"refused", "executing"}
          /\ \A b \in Caller \ {c} : at'[b] = at[b]
          /\ record' = [record EXCEPT ![key] = "pending"] /\ UNCHANGED <<intent, sends>>
      BY <2>4, <3>1 DEF Claim, Goto, sent
    <3>3. CallPhase(key) = "called" /\ Phases' = [Phases EXCEPT ![key] = at'[c]]
      BY <2>4, <3>1, <3>2, CallMoves DEF InCycle, Calling, Settled
    <3>4. Calls!Admit(key) \/ Calls!Refuse(key)
      BY <3>2, <3>3 DEF Calls!Admit, Calls!Refuse, Calls!Becomes, Phases
    <3> QED
      BY <3>4 DEF CallStep, Calls!Next
  <2>5. CASE Send(c)
    <3>1. PICK key \in Key : key = intent[c].key
      BY <2>5 DEF Send, ClaimInv
    <3>2. /\ at[c] = "executing" /\ at'[c] = "sent"
          /\ \A b \in Caller \ {c} : at'[b] = at[b]
          /\ sends' = [sends EXCEPT ![key] = sends[key] + 1] /\ UNCHANGED <<intent, record>>
      BY <2>5, <3>1 DEF Send, Goto, files
    <3>3. CallPhase(key) = "executing" /\ Phases' = [Phases EXCEPT ![key] = "sent"]
      BY <3>1, <3>2, CallMoves DEF InCycle, Calling
    <3>4. sends[key] = 0
      BY <3>1, <3>2 DEF ClaimInv
    <3>5. sends' = [sends EXCEPT ![key] = 1]
      BY <3>2, <3>4
    <3>6. Calls!Send(key)
      BY <3>3, <3>4, <3>5 DEF Calls!Send, Calls!Becomes, Phases
    <3> QED
      BY <3>6 DEF CallStep, Calls!Next
  <2>6. CASE \E l \in Loss : TradeSucceeds(c, l)
    <3>1. PICK key \in Key : key = intent[c].key
      BY <2>6 DEF TradeSucceeds, ClaimInv
    <3>2. /\ at[c] = "sent" /\ at'[c] = "reported"
          /\ \A b \in Caller \ {c} : at'[b] = at[b]
          /\ record' = [record EXCEPT ![key] = "completed"]
          /\ UNCHANGED <<intent[c].key, sends>>
      BY <2>6, <3>1 DEF TradeSucceeds, Goto
    <3>3. CallPhase(key) = "sent" /\ Phases' = [Phases EXCEPT ![key] = "succeeded"]
      BY <3>1, <3>2, CallMoves DEF InCycle, Calling, Settled
    <3>4. Calls!Succeed(key)
      BY <3>2, <3>3 DEF Calls!Succeed, Calls!Becomes, Phases
    <3> QED
      BY <3>4 DEF CallStep, Calls!Next
  <2>7. CASE TradeFails(c)
    <3>1. PICK key \in Key : key = intent[c].key
      BY <2>7 DEF TradeFails, ClaimInv
    <3>2. /\ at[c] \in Calling /\ at'[c] = "reported"
          /\ \A b \in Caller \ {c} : at'[b] = at[b]
          /\ record' = [record EXCEPT ![key] = "failed"] /\ UNCHANGED <<intent, sends>>
      BY <2>7, <3>1 DEF TradeFails, Goto, sent, Calling
    <3>3. CallPhase(key) \in Calling /\ Phases' = [Phases EXCEPT ![key] = "failed"]
      BY <3>1, <3>2, CallMoves DEF InCycle, Calling, Settled
    <3>4. Calls!Fail(key)
      BY <3>2, <3>3 DEF Calls!Fail, Calls!Becomes, Calls!UnderWay, Calling, Phases
    <3> QED
      BY <3>4 DEF CallStep, Calls!Next
  <2>8. CASE CloseCycle(c) \/ CloseFailedCycle(c)
    BY <2>8, CallQuiet
       DEF CloseCycle, CloseFailedCycle, ProcessDown, LeaveCycle, Goto, files, sent, Calling
  <2> QED
    BY <1>1, <2>1, <2>2, <2>3, <2>4, <2>5, <2>6, <2>7, <2>8 DEF CycleStep
<1>2. CASE TimerFires \/ ResumeRunsCycle
  BY <1>2, CallQuiet DEF TimerFires, ResumeRunsCycle, EnterCycle, Goto, files, sent, Calling
<1>3. CASE Boot
  BY <1>3, CallQuiet DEF Boot, Goto, sent, Calling
<1>4. CASE Crash
  BY <1>4, CallQuiet DEF Crash, ProcessDown, files, sent, Calling
<1>5. CASE Pause \/ Resume \/ Halt \/ EmergencyStop \/ ResetLiveKill
  BY <1>5, CallQuiet DEF Pause, Resume, Halt, Stop, EmergencyStop, ResetLiveKill, Control, Goto, Calling
<1>6. CASE TriggerKill \/ Midnight \/ UNCHANGED vars
  BY <1>6, CallQuiet DEF TriggerKill, Midnight, vars, files, callers, sent, Calling
<1> QED
  BY <1>1, <1>2, <1>3, <1>4, <1>5, <1>6 DEF Next

LEMMA InitCalls == Init => Calls!Init
<1> SUFFICES ASSUME Init PROVE Calls!Init
  OBVIOUS
<1>1. \A k \in Key : record[k] = "none"
  BY DEF Init
<1>2. [k \in Key |-> CallPhase(k)] = [k \in Key |-> "called"]
  BY <1>1 DEF CallPhase
<1> QED
  BY <1>2 DEF Init, Calls!Init

(* Whatever crashes, errors, refusals and repeated intents come, the live   *)
(* runtime sends at most one transaction per idempotency key, and only for  *)
(* a key it claimed before; and what it does about a key is one call of the *)
(* execution handler, up to its answer or to the error or crash that ended  *)
(* it.                                                                      *)
THEOREM RuntimeSendsOnce == Spec => SendsOnce
<1>1. Init => ClaimInv /\ Idempotency!Init /\ Calls!Init
  BY InitClaim, InitRefines, InitCalls
<1>2. FlowInv /\ ClaimInv /\ [Next]_vars => ClaimInv'
  BY ClaimKept
<1>3. FlowInv /\ ClaimInv /\ [Next]_vars =>
        [Idempotency!Next]_<<{k \in Key : record[k] # "none"},
                             {k \in Key : record[k] \in {"completed", "failed"}}, sends>>
  BY StepRefines DEF Claimed, Closed
<1>4. FlowInv /\ ClaimInv => PhaseInv
  BY PhasesAre
<1>5. FlowInv /\ ClaimInv /\ PhaseInv /\ PhaseInv' /\ [Next]_vars =>
        [Calls!Next]_<<[k \in Key |-> CallPhase(k)], sends>>
  BY CallRefines DEF CallStep, Phases
<1> QED
  BY <1>1, <1>2, <1>3, <1>4, <1>5, FlowInvariant, PTL
     DEF Spec, SendsOnce, Idempotency!Spec, Calls!Spec

-----------------------------------------------------------------------------
(* After a kill *)

(* While the kill switch is in effect no execution begins, so that one in   *)
(* progress is the one that was admitted before, and nothing was sent yet.  *)
KillInv ==
  /\ halted \in BOOLEAN /\ sendsSinceKill \in Nat
  /\ halted => sendsSinceKill <= 1
  /\ \A c \in Caller : halted /\ at[c] = "executing" => sendsSinceKill = 0

(* The kill switch may come with a step that starts no execution; it has    *)
(* counted nothing then.                                                    *)
LEMMA KillQuiet ==
  ASSUME FlowType, KillInv,
         \/ UNCHANGED <<halted, sendsSinceKill>>
         \/ Halts
         \/ halted' = FALSE /\ UNCHANGED sendsSinceKill,
         \A c \in Caller : at'[c] = "executing" => at[c] = "executing"
  PROVE  KillInv'
<1> USE DEF KillInv
<1>1. CASE UNCHANGED <<halted, sendsSinceKill>>
  BY <1>1
<1>2. CASE Halts
  <2>1. CASE halted
    BY <1>2, <2>1 DEF Halts
  <2>2. CASE ~halted
    BY <1>2, <2>2 DEF Halts
  <2> QED
    BY <2>1, <2>2
<1>3. CASE halted' = FALSE /\ UNCHANGED sendsSinceKill
  BY <1>3
<1> QED
  BY <1>1, <1>2, <1>3

LEMMA RecordTradeKill ==
  ASSUME NEW l, RecordTrade(l)
  PROVE  UNCHANGED <<halted, sendsSinceKill>> \/ Halts
BY DEF RecordTrade, TriggerKillSwitch

LEMMA KillKept ==
  ASSUME FlowInv, KillInv, [Next]_vars
  PROVE  KillInv'
<1> USE DEF FlowInv, FlowType
<1>1. ASSUME NEW c \in Caller, CycleStep(c) PROVE KillInv'
  <2>1. CASE CheckKillSwitch(c) \/ Blocked(c) \/ ChaosBlocks(c) \/ CycleThrows(c)
    BY <2>1, KillQuiet DEF CheckKillSwitch, Blocked, ChaosBlocks, CycleThrows, Goto, files, sent
  <2>2. CASE \E k \in Key : Risk(c, k)
    BY <2>2, KillQuiet DEF Risk, Goto, sent
  <2>3. CASE Claim(c)
    <3>1. CASE halted
      BY <2>3, <3>1, KillQuiet DEF Claim, Goto, sent
    <3>2. CASE ~halted
      BY <2>3, <3>2 DEF Claim, KillInv, sent
    <3> QED
      BY <3>1, <3>2
  <2>4. CASE Send(c)
    <3>1. /\ at[c] = "executing" /\ at'[c] = "sent" /\ UNCHANGED halted
          /\ \A b \in Caller \ {c} : at'[b] = at[b]
          /\ sendsSinceKill' = IF halted THEN sendsSinceKill + 1 ELSE sendsSinceKill
      BY <2>4 DEF Send, Goto, files
    <3>2. \A b \in Caller \ {c} : at[b] # "executing"
      BY <3>1 DEF CycleExclusive, InCycle
    <3> QED
      BY <3>1, <3>2 DEF KillInv
  <2>5. CASE \E l \in Loss : TradeSucceeds(c, l)
    BY <2>5, KillQuiet, RecordTradeKill DEF TradeSucceeds, Goto
  <2>6. CASE TradeFails(c)
    BY <2>6, KillQuiet DEF TradeFails, Goto, sent
  <2>7. CASE Verify(c)
    BY <2>7, KillQuiet, RecordTradeKill DEF Verify, Goto
  <2>8. CASE CloseCycle(c) \/ CloseFailedCycle(c)
    BY <2>8, KillQuiet DEF CloseCycle, CloseFailedCycle, ProcessDown, LeaveCycle, Goto, files, sent
  <2> QED
    BY <1>1, <2>1, <2>2, <2>3, <2>4, <2>5, <2>6, <2>7, <2>8 DEF CycleStep
<1>2. CASE TimerFires \/ ResumeRunsCycle
  BY <1>2, KillQuiet DEF TimerFires, ResumeRunsCycle, EnterCycle, Goto, files, sent
<1>3. CASE Boot
  BY <1>3, KillQuiet DEF Boot, Goto, sent
<1>4. CASE Crash
  BY <1>4, KillQuiet DEF Crash, ProcessDown, files, sent
<1>5. CASE Pause \/ Resume \/ Halt \/ EmergencyStop \/ ResetLiveKill
  BY <1>5, KillQuiet DEF Pause, Resume, Halt, Stop, EmergencyStop, TriggerKillSwitch,
     ResetLiveKill, Control, Goto
<1>6. CASE TriggerKill \/ Midnight \/ UNCHANGED vars
  BY <1>6, KillQuiet DEF TriggerKill, Midnight, vars, files, callers, sent
<1> QED
  BY <1>1, <1>2, <1>3, <1>4, <1>5, <1>6 DEF Next

(* Once the kill switch took effect, at most the transaction that was       *)
(* already admitted goes out, over pauses, resumes, errors and restarts.    *)
THEOREM KillStopsSends == Spec => []KillBoundsSends
<1>1. Init => KillInv
  <2> SUFFICES ASSUME Init PROVE KillInv
    OBVIOUS
  <2>1. ~halted /\ halted \in BOOLEAN /\ sendsSinceKill = 0
    BY DEF Init
  <2> QED
    BY <2>1 DEF KillInv
<1>2. FlowInv /\ KillInv /\ [Next]_vars => KillInv'
  BY KillKept
<1>3. KillInv => KillBoundsSends
  BY DEF KillInv, KillBoundsSends
<1> QED
  BY <1>1, <1>2, <1>3, FlowInvariant, PTL DEF Spec

-----------------------------------------------------------------------------
(* Daily limits *)

(* A caller that is not past the kill switch's check has no intent. *)
IntentsFresh ==
  \A c \in Caller : at[c] \in {"idle", "called", "entered"} => intent[c].key = "none"

LEMMA IntentsFreshKept ==
  ASSUME FlowInv, IntentsFresh, [Next]_vars
  PROVE  IntentsFresh'
<1> USE DEF FlowInv, FlowType, IntentsFresh
<1>1. ASSUME NEW c \in Caller, CycleStep(c) PROVE IntentsFresh'
  <2>1. CASE CheckKillSwitch(c) \/ Blocked(c) \/ ChaosBlocks(c) \/ CycleThrows(c)
    BY <2>1 DEF CheckKillSwitch, Blocked, ChaosBlocks, CycleThrows, Goto
  <2>2. CASE \E k \in Key : Risk(c, k)
    BY <2>2 DEF Risk, Goto
  <2>3. CASE Claim(c) \/ Send(c) \/ (\E l \in Loss : TradeSucceeds(c, l)) \/ TradeFails(c) \/ Verify(c)
    BY <2>3 DEF Claim, Send, TradeSucceeds, TradeFails, Verify, Goto
  <2>4. CASE CloseCycle(c)
    BY <2>4 DEF CloseCycle, LeaveCycle, Goto, NoIntent
  <2>5. CASE CloseFailedCycle(c)
    BY <2>5 DEF CloseFailedCycle, ProcessDown, LeaveCycle, Goto, NoIntent
  <2> QED
    BY <1>1, <2>1, <2>2, <2>3, <2>4, <2>5 DEF CycleStep
<1>2. CASE TimerFires \/ ResumeRunsCycle
  BY <1>2 DEF TimerFires, ResumeRunsCycle, EnterCycle, Goto
<1>3. CASE Boot
  <2>1. \A c \in Caller : at[c] \in {"idle", "called"}
    BY <1>3 DEF Boot, DownIsIdle, CycleExclusive, Stage
  <2> QED
    BY <1>3, <2>1 DEF Boot, Goto
<1>4. CASE Crash
  BY <1>4 DEF Crash, ProcessDown, NoIntent
<1>5. CASE Pause \/ Resume \/ Halt \/ EmergencyStop \/ ResetLiveKill
  BY <1>5 DEF Pause, Resume, Halt, Stop, EmergencyStop, ResetLiveKill, Control, Goto
<1>6. CASE TriggerKill \/ Midnight \/ UNCHANGED vars
  BY <1>6 DEF TriggerKill, Midnight, vars, callers
<1> QED
  BY <1>1, <1>2, <1>3, <1>4, <1>5, <1>6 DEF Next

Counters == [day : Nat, trades : Nat, loss : Nat]
Report == [trades : Nat, loss : Nat, last : Nat]

DailyType ==
  /\ daily \in Counters /\ today \in Nat /\ daily.day <= today
  /\ limit \in [trades : Nat \ {0}, loss : Nat]
  /\ tradesToday \in Report

(* The counters of today have every trade that was reported, and counters   *)
(* of an earlier day mean that none was.                                    *)
CountersCover ==
  IF daily.day = today
  THEN tradesToday.trades <= daily.trades /\ tradesToday.loss <= daily.loss
  ELSE tradesToday = NoTrades

(* A caller that the daily limit let through and that has not reported yet. *)
LetThrough(c) ==
  \/ at[c] = "deciding" /\ intent[c].key # "none"
  \/ at[c] \in {"executing", "sent"}

(* As long as such a caller is under way, its day has room for one trade.   *)
RoomLeft ==
  \A c \in Caller : LetThrough(c) /\ daily.day = today =>
    /\ daily.trades < limit.trades
    /\ daily.loss < limit.loss \/ tradesToday.trades = 0

DayLimited == DailyTradeLimit /\ DailyLossLimit

DailyInv == DailyType /\ CountersCover /\ RoomLeft /\ DayLimited

dailyVars == <<daily, today, limit, tradesToday>>

(* A step that leaves the counters alone and lets nobody through *)
LEMMA DailyQuiet ==
  ASSUME DailyInv, UNCHANGED dailyVars, \A c \in Caller : LetThrough(c)' => LetThrough(c)
  PROVE  DailyInv'
BY DEF DailyInv, dailyVars, DailyType, CountersCover, RoomLeft, DayLimited, DailyTradeLimit,
   DailyLossLimit

LEMMA RolledType ==
  ASSUME DailyType
  PROVE  /\ Rolled \in Counters /\ Rolled.day = today
         /\ daily.day = today => Rolled = daily
         /\ daily.day # today => Rolled.trades = 0 /\ Rolled.loss = 0
BY DEF DailyType, Rolled, Counters

(* recordTrade books a trade on the counters of today. *)
LEMMA BookedType ==
  ASSUME DailyType, NEW l \in Nat
  PROVE  /\ Booked(l) \in Counters /\ Booked(l).day = today
         /\ Booked(l).trades = Rolled.trades + 1 /\ Booked(l).loss = Rolled.loss + l
<1>1. /\ Rolled = [day |-> Rolled.day, trades |-> Rolled.trades, loss |-> Rolled.loss]
      /\ Rolled.day = today /\ Rolled.trades \in Nat /\ Rolled.loss \in Nat /\ today \in Nat
  BY DEF DailyType, Rolled, Counters
<1> QED
  BY <1>1 DEF Booked, Counters

(* What the counters have after a booking: the trade on top of what they    *)
(* had today, or the trade alone.                                           *)
LEMMA BookedCovers ==
  ASSUME DailyType, CountersCover, NEW l \in Nat
  PROVE  /\ daily.day = today => Booked(l).trades = daily.trades + 1 /\ Booked(l).loss = daily.loss + l
         /\ tradesToday.trades + 1 <= Booked(l).trades /\ tradesToday.loss + l <= Booked(l).loss
<1>1. CASE daily.day = today
  BY <1>1, BookedType, RolledType DEF DailyType, CountersCover, Report, Counters
<1>2. CASE daily.day # today
  BY <1>2, BookedType, RolledType DEF DailyType, CountersCover, NoTrades
<1> QED
  BY <1>1, <1>2

(* The counters that checkLimit leaves let the caller's trade in. *)
LEMMA RiskKeepsDaily ==
  ASSUME FlowInv, DailyInv, NEW c \in Caller, NEW k \in Key, Risk(c, k)
  PROVE  DailyInv'
<1>1. /\ daily' = Rolled /\ UNCHANGED <<today, limit, tradesToday>>
      /\ at[c] = "deciding"
      /\ \A b \in Caller \ {c} : at'[b] = at[b] /\ intent'[b] = intent[b]
      /\ LimitReached => at'[c] = "closing"
  BY DEF Risk, clock, Goto, FlowInv, FlowType
<1>2. \A b \in Caller \ {c} : ~LetThrough(b)'
  BY <1>1 DEF LetThrough, FlowInv, CycleExclusive, InCycle
<1>3. DailyType' /\ CountersCover' /\ DayLimited'
  BY <1>1, RolledType DEF DailyInv, DailyType, CountersCover, DayLimited, DailyTradeLimit,
     DailyLossLimit, NoTrades, Report
<1>4. LetThrough(c)' => ~LimitReached
  BY <1>1 DEF LetThrough
<1>5. RoomLeft'
  BY <1>1, <1>2, <1>4, RolledType
     DEF DailyInv, DailyType, CountersCover, RoomLeft, LimitReached, NoTrades, Counters, Report
<1> QED
  BY <1>3, <1>5 DEF DailyInv

(* The trade reported as successful had room in its day; nobody else is     *)
(* under way.                                                               *)
LEMMA SuccessKeepsDaily ==
  ASSUME FlowInv, DailyInv, NEW c \in Caller, NEW l \in Loss, TradeSucceeds(c, l)
  PROVE  DailyInv'
<1>1. /\ at[c] = "sent" /\ at'[c] = "reported" /\ \A b \in Caller \ {c} : at'[b] = at[b]
      /\ daily' = Booked(l) /\ UNCHANGED <<today, limit>>
      /\ tradesToday' = [trades |-> tradesToday.trades + 1, loss |-> tradesToday.loss + l, last |-> l]
  BY DEF TradeSucceeds, RecordTrade, clock, Goto, FlowInv, FlowType
<1>2. l \in Nat
  BY LimitsOK
<1>3. \A b \in Caller : ~LetThrough(b)'
  BY <1>1 DEF LetThrough, FlowInv, CycleExclusive, InCycle
<1>4. DailyType'
  BY <1>1, <1>2, BookedType DEF DailyInv, DailyType, Report, Counters
<1>5. CountersCover'
  BY <1>1, <1>2, BookedType, BookedCovers DEF DailyInv, CountersCover
<1>6. daily.day = today =>
        daily.trades < limit.trades /\ (daily.loss < limit.loss \/ tradesToday.trades = 0)
  BY <1>1 DEF DailyInv, RoomLeft, LetThrough
<1>7. DayLimited'
  BY <1>1, <1>2, <1>6 DEF DailyInv, DailyType, CountersCover, DayLimited, DailyTradeLimit,
     DailyLossLimit, NoTrades, Report, Counters
<1> QED
  BY <1>3, <1>4, <1>5, <1>7 DEF DailyInv, RoomLeft

(* The second booking only raises the counters. *)
LEMMA VerifyKeepsDaily ==
  ASSUME FlowInv, DailyInv, NEW c \in Caller, Verify(c)
  PROVE  DailyInv'
<1>1. /\ at[c] = "reported" /\ at'[c] = "closing" /\ \A b \in Caller \ {c} : at'[b] = at[b]
      /\ daily' = Booked(intent[c].loss) \/ UNCHANGED daily
      /\ UNCHANGED <<today, limit, tradesToday>>
  BY DEF Verify, RecordTrade, clock, Goto, FlowInv, FlowType
<1>2. intent[c].loss \in Nat
  BY DEF FlowInv, FlowType
<1>3. \A b \in Caller : ~LetThrough(b)'
  BY <1>1 DEF LetThrough, FlowInv, CycleExclusive, InCycle
<1>4. DailyType'
  BY <1>1, <1>2, BookedType DEF DailyInv, DailyType, Report, Counters
<1>5. ASSUME daily' = Booked(intent[c].loss) PROVE CountersCover'
  BY <1>1, <1>2, <1>5, BookedType, BookedCovers DEF DailyInv, DailyType, CountersCover, Report, Counters
<1>6. ASSUME UNCHANGED daily PROVE CountersCover'
  BY <1>1, <1>6 DEF DailyInv, CountersCover
<1>7. CountersCover'
  BY <1>1, <1>5, <1>6
<1> QED
  BY <1>1, <1>3, <1>4, <1>7 DEF DailyInv, RoomLeft, DayLimited, DailyTradeLimit, DailyLossLimit

LEMMA DailyKept ==
  ASSUME FlowInv, IntentsFresh, DailyInv, [Next]_vars
  PROVE  DailyInv'
<1> USE DEF FlowInv, FlowType, dailyVars, LetThrough
<1>1. ASSUME NEW c \in Caller, CycleStep(c) PROVE DailyInv'
  <2>1. CASE CheckKillSwitch(c)
    BY <2>1, DailyQuiet DEF CheckKillSwitch, IntentsFresh, Goto, files, clock
  <2>2. CASE Blocked(c) \/ ChaosBlocks(c) \/ CycleThrows(c)
    BY <2>2, DailyQuiet DEF Blocked, ChaosBlocks, CycleThrows, Goto, files, clock
  <2>3. CASE \E k \in Key : Risk(c, k)
    BY <2>3, RiskKeepsDaily
  <2>4. CASE Claim(c)
    BY <2>4, DailyQuiet DEF Claim, Goto, clock
  <2>5. CASE Send(c)
    BY <2>5, DailyQuiet DEF Send, Goto, files, clock
  <2>6. CASE \E l \in Loss : TradeSucceeds(c, l)
    BY <2>6, SuccessKeepsDaily
  <2>7. CASE TradeFails(c)
    BY <2>7, DailyQuiet DEF TradeFails, Goto, clock
  <2>8. CASE Verify(c)
    BY <2>8, VerifyKeepsDaily
  <2>9. CASE CloseCycle(c) \/ CloseFailedCycle(c)
    BY <2>9, DailyQuiet DEF CloseCycle, CloseFailedCycle, ProcessDown, LeaveCycle, Goto, files, clock
  <2> QED
    BY <1>1, <2>1, <2>2, <2>3, <2>4, <2>5, <2>6, <2>7, <2>8, <2>9 DEF CycleStep
<1>2. CASE TimerFires \/ ResumeRunsCycle
  BY <1>2, DailyQuiet DEF TimerFires, ResumeRunsCycle, EnterCycle, Goto, files, clock
<1>3. CASE Boot
  BY <1>3, DailyQuiet DEF Boot, Hydrated, Goto, clock
<1>4. CASE Crash
  BY <1>4, DailyQuiet DEF Crash, ProcessDown, files, clock
<1>5. CASE Pause \/ Resume \/ Halt \/ EmergencyStop \/ ResetLiveKill
  BY <1>5, DailyQuiet DEF Pause, Resume, Halt, Stop, EmergencyStop, ResetLiveKill, Control, Goto, clock
<1>6. CASE TriggerKill \/ UNCHANGED vars
  BY <1>6, DailyQuiet DEF TriggerKill, vars, files, callers, clock
<1>7. CASE Midnight
  BY <1>7 DEF Midnight, files, DailyInv, DailyType, CountersCover, RoomLeft, DayLimited,
     DailyTradeLimit, DailyLossLimit, NoTrades, Report, Counters
<1> QED
  BY <1>1, <1>2, <1>3, <1>4, <1>5, <1>6, <1>7 DEF Next

-----------------------------------------------------------------------------
(* The daily count *)

(* An intent is marked as traded by the report of its trade. *)
OkReported == \A c \in Caller : intent[c].ok => at[c] \in {"reported", "closing", "failing"}

(* The count of a day without the booking that a reported trade still has   *)
(* to come is at most twice the number of its trades, and one more with it. *)
CountNear ==
  daily.day = today =>
    /\ daily.trades <= 2 * tradesToday.trades + 1
    /\ \A c \in Caller : at[c] = "reported" /\ intent[c].ok =>
         daily.trades <= 2 * tradesToday.trades

LEMMA OkReportedKept ==
  ASSUME FlowInv, OkReported, [Next]_vars
  PROVE  OkReported'
<1> USE DEF FlowInv, FlowType, OkReported
<1>1. ASSUME NEW c \in Caller, CycleStep(c) PROVE OkReported'
  <2>1. CASE CheckKillSwitch(c) \/ Blocked(c) \/ ChaosBlocks(c) \/ CycleThrows(c)
    BY <2>1 DEF CheckKillSwitch, Blocked, ChaosBlocks, CycleThrows, Goto
  <2>2. CASE \E k \in Key : Risk(c, k)
    BY <2>2 DEF Risk, Goto
  <2>3. CASE Claim(c) \/ Send(c) \/ (\E l \in Loss : TradeSucceeds(c, l)) \/ TradeFails(c) \/ Verify(c)
    BY <2>3 DEF Claim, Send, TradeSucceeds, TradeFails, Verify, Goto
  <2>4. CASE CloseCycle(c)
    BY <2>4 DEF CloseCycle, LeaveCycle, Goto, NoIntent
  <2>5. CASE CloseFailedCycle(c)
    BY <2>5 DEF CloseFailedCycle, ProcessDown, LeaveCycle, Goto, NoIntent
  <2> QED
    BY <1>1, <2>1, <2>2, <2>3, <2>4, <2>5 DEF CycleStep
<1>2. CASE TimerFires \/ ResumeRunsCycle
  BY <1>2 DEF TimerFires, ResumeRunsCycle, EnterCycle, Goto
<1>3. CASE Boot
  <2>1. \A c \in Caller : at[c] \in {"idle", "called"}
    BY <1>3 DEF Boot, DownIsIdle, CycleExclusive, Stage
  <2> QED
    BY <1>3, <2>1 DEF Boot, Goto
<1>4. CASE Crash
  BY <1>4 DEF Crash, ProcessDown, NoIntent
<1>5. CASE Pause \/ Resume \/ Halt \/ EmergencyStop \/ ResetLiveKill
  BY <1>5 DEF Pause, Resume, Halt, Stop, EmergencyStop, ResetLiveKill, Control, Goto
<1>6. CASE TriggerKill \/ Midnight \/ UNCHANGED vars
  BY <1>6 DEF TriggerKill, Midnight, vars, callers
<1> QED
  BY <1>1, <1>2, <1>3, <1>4, <1>5, <1>6 DEF Next

(* A caller that has a booking due. *)
BookingDue(c) == at[c] = "reported" /\ intent[c].ok

(* A step that leaves the counters alone and reports no trade *)
LEMMA NearQuiet ==
  ASSUME CountNear, UNCHANGED dailyVars, \A c \in Caller : BookingDue(c)' => BookingDue(c)
  PROVE  CountNear'
BY DEF CountNear, dailyVars, BookingDue

(* checkLimit's roll keeps the count of today, or starts it anew. *)
LEMMA RiskKeepsNear ==
  ASSUME FlowInv, DailyInv, CountNear, NEW c \in Caller, NEW k \in Key, Risk(c, k)
  PROVE  CountNear'
<1>1. /\ daily' = Rolled /\ UNCHANGED <<today, tradesToday>>
      /\ at[c] = "deciding" /\ at'[c] # "reported"
      /\ \A b \in Caller \ {c} : at'[b] = at[b]
  BY DEF Risk, clock, Goto, FlowInv, FlowType
<1>2. \A b \in Caller : at'[b] # "reported"
  BY <1>1 DEF FlowInv, CycleExclusive, InCycle
<1> QED
  BY <1>1, <1>2, RolledType DEF DailyInv, DailyType, CountNear, Report, Counters

(* The reported trade is in the count once; its second booking is due. *)
LEMMA SuccessKeepsNear ==
  ASSUME FlowInv, DailyInv, CountNear, NEW c \in Caller, NEW l \in Loss, TradeSucceeds(c, l)
  PROVE  CountNear'
<1>1. /\ daily' = Booked(l) /\ UNCHANGED today
      /\ tradesToday'.trades = tradesToday.trades + 1
  BY DEF TradeSucceeds, RecordTrade, clock
<1>2. l \in Nat
  BY LimitsOK
<1>3. tradesToday.trades \in Nat /\ daily.trades \in Nat
  BY DEF DailyInv, DailyType, Report, Counters
<1>4. CASE daily.day = today
  <2>1. Booked(l).trades = daily.trades + 1
    BY <1>2, <1>4, BookedCovers DEF DailyInv
  <2> QED
    BY <1>1, <1>3, <1>4, <2>1 DEF CountNear
<1>5. CASE daily.day # today
  <2>1. Booked(l).trades = 1
    BY <1>2, <1>5, BookedType, RolledType DEF DailyInv
  <2> QED
    BY <1>1, <1>3, <2>1 DEF CountNear
<1> QED
  BY <1>4, <1>5

(* The booking that was due makes the count odd at most; none is due then. *)
LEMMA VerifyKeepsNear ==
  ASSUME FlowInv, DailyInv, CountNear, NEW c \in Caller, Verify(c)
  PROVE  CountNear'
<1>1. /\ at[c] = "reported" /\ at'[c] = "closing" /\ \A b \in Caller \ {c} : at'[b] = at[b]
      /\ (intent[c].ok /\ daily' = Booked(intent[c].loss)) \/ UNCHANGED daily
      /\ UNCHANGED <<today, tradesToday>>
  BY DEF Verify, RecordTrade, clock, Goto, FlowInv, FlowType
<1>2. intent[c].loss \in Nat
  BY DEF FlowInv, FlowType
<1>3. \A b \in Caller : at'[b] # "reported"
  BY <1>1 DEF FlowInv, CycleExclusive, InCycle
<1>4. tradesToday.trades \in Nat /\ daily.trades \in Nat
  BY DEF DailyInv, DailyType, Report, Counters
<1>5. CASE UNCHANGED daily
  BY <1>1, <1>3, <1>5 DEF CountNear
<1>6. CASE intent[c].ok /\ daily' = Booked(intent[c].loss) /\ daily.day = today
  <2>1. Booked(intent[c].loss).trades = daily.trades + 1
    BY <1>2, <1>6, BookedCovers DEF DailyInv
  <2>2. daily.trades <= 2 * tradesToday.trades
    BY <1>1, <1>6 DEF CountNear
  <2> QED
    BY <1>1, <1>3, <1>4, <1>6, <2>1, <2>2 DEF CountNear
<1>7. CASE daily' = Booked(intent[c].loss) /\ daily.day # today
  <2>1. Booked(intent[c].loss).trades = 1
    BY <1>2, <1>7, BookedType, RolledType DEF DailyInv
  <2> QED
    BY <1>1, <1>3, <1>4, <1>7, <2>1 DEF CountNear
<1> QED
  BY <1>1, <1>5, <1>6, <1>7

LEMMA NearKept ==
  ASSUME FlowInv, OkReported, DailyInv, CountNear, [Next]_vars
  PROVE  CountNear'
<1> USE DEF FlowInv, FlowType, dailyVars, BookingDue
<1>1. ASSUME NEW c \in Caller, CycleStep(c) PROVE CountNear'
  <2>1. CASE CheckKillSwitch(c) \/ Blocked(c) \/ ChaosBlocks(c) \/ CycleThrows(c)
    BY <2>1, NearQuiet DEF CheckKillSwitch, Blocked, ChaosBlocks, CycleThrows, Goto, files, clock
  <2>2. CASE \E k \in Key : Risk(c, k)
    BY <2>2, RiskKeepsNear
  <2>3. CASE Claim(c)
    BY <2>3, NearQuiet DEF Claim, OkReported, Goto, clock
  <2>4. CASE Send(c)
    BY <2>4, NearQuiet DEF Send, Goto, files, clock
  <2>5. CASE \E l \in Loss : TradeSucceeds(c, l)
    BY <2>5, SuccessKeepsNear
  <2>6. CASE TradeFails(c)
    BY <2>6, NearQuiet DEF TradeFails, OkReported, Goto, clock
  <2>7. CASE Verify(c)
    BY <2>7, VerifyKeepsNear
  <2>8. CASE CloseCycle(c) \/ CloseFailedCycle(c)
    BY <2>8, NearQuiet DEF CloseCycle, CloseFailedCycle, ProcessDown, LeaveCycle, Goto, files, clock
  <2> QED
    BY <1>1, <2>1, <2>2, <2>3, <2>4, <2>5, <2>6, <2>7, <2>8 DEF CycleStep
<1>2. CASE TimerFires \/ ResumeRunsCycle
  BY <1>2, NearQuiet DEF TimerFires, ResumeRunsCycle, EnterCycle, Goto, files, clock
<1>3. CASE Boot
  BY <1>3, NearQuiet DEF Boot, Hydrated, Goto, clock
<1>4. CASE Crash
  BY <1>4, NearQuiet DEF Crash, ProcessDown, files, clock
<1>5. CASE Pause \/ Resume \/ Halt \/ EmergencyStop \/ ResetLiveKill
  BY <1>5, NearQuiet DEF Pause, Resume, Halt, Stop, EmergencyStop, ResetLiveKill, Control, Goto, clock
<1>6. CASE TriggerKill \/ UNCHANGED vars
  BY <1>6, NearQuiet DEF TriggerKill, vars, files, callers, clock
<1>7. CASE Midnight
  BY <1>7 DEF Midnight, files, DailyInv, DailyType, CountNear, Counters
<1> QED
  BY <1>1, <1>2, <1>3, <1>4, <1>5, <1>6, <1>7 DEF Next

LEMMA DailyStarts == Init => DailyInv /\ CountNear /\ OkReported
<1> SUFFICES ASSUME Init PROVE DailyInv /\ CountNear /\ OkReported
  OBVIOUS
<1>1. /\ daily = [day |-> 0, trades |-> 0, loss |-> 0] /\ today = 0 /\ tradesToday = NoTrades
      /\ limit \in [trades : Nat \ {0}, loss : Nat]
      /\ \A c \in Caller : at[c] = "idle" /\ ~intent[c].ok
  BY LimitsOK DEF Init, NoIntent
<1>2. DailyInv
  BY <1>1 DEF DailyInv, DailyType, CountersCover, RoomLeft, LetThrough, DayLimited,
     DailyTradeLimit, DailyLossLimit, NoTrades, Report, Counters
<1>3. CountNear /\ OkReported
  BY <1>1 DEF CountNear, OkReported, NoTrades
<1> QED
  BY <1>2, <1>3

LEMMA DailyAlways == Spec => []DailyInv
<1>1. FlowInv /\ IntentsFresh /\ DailyInv /\ [Next]_vars => DailyInv'
  BY DailyKept
<1>2. Init => IntentsFresh
  BY DEF Init, IntentsFresh, NoIntent
<1>3. FlowInv /\ IntentsFresh /\ [Next]_vars => IntentsFresh'
  BY IntentsFreshKept
<1> QED
  BY <1>1, <1>2, <1>3, DailyStarts, FlowInvariant, PTL DEF Spec

(* On every day, at most the configured number of trades is reported, and   *)
(* none after the day's losses reached their limit, over crashes between a  *)
(* trade and its booking, restarts, kills and midnight; and the count that  *)
(* the limit rests on has every trade of the day, twice at most, and one    *)
(* from before midnight.                                                    *)
THEOREM DailyLimitsHold == Spec => []DailyLimits
<1>1. FlowInv /\ OkReported /\ DailyInv /\ CountNear /\ [Next]_vars => CountNear'
  BY NearKept
<1>2. FlowInv /\ OkReported /\ [Next]_vars => OkReported'
  BY OkReportedKept
<1>3. DailyInv /\ CountNear => DailyLimits
  BY DEF DailyInv, DayLimited, CountersCover, CountNear, DailyLimits, DailyCountNear
<1> QED
  BY <1>1, <1>2, <1>3, DailyStarts, DailyAlways, FlowInvariant, PTL DEF Spec

-----------------------------------------------------------------------------
(* Every type *)

(* The kill switch and the sends since it was triggered *)
KillTyped == halted \in BOOLEAN /\ sendsSinceKill \in Nat

LEMMA HaltsTyped ==
  ASSUME KillTyped, TriggerKillSwitch \/ Halts
  PROVE  KillTyped'
<1>1. halted' \in BOOLEAN
  BY Zenon DEF KillTyped, TriggerKillSwitch, Halts
<1>2. sendsSinceKill' \in Nat
  BY DEF KillTyped, TriggerKillSwitch, Halts
<1> QED
  BY <1>1, <1>2 DEF KillTyped

LEMMA BookingTyped ==
  ASSUME KillTyped, NEW loss, RecordTrade(loss)
  PROVE  KillTyped'
<1>1. CASE TriggerKillSwitch
  BY <1>1, HaltsTyped
<1>2. CASE UNCHANGED <<halted, sendsSinceKill>>
  BY <1>2 DEF KillTyped
<1> QED
  BY <1>1, <1>2 DEF RecordTrade

LEMMA KillStaysTyped == KillTyped /\ [Next]_vars => KillTyped'
<1> SUFFICES ASSUME KillTyped, [Next]_vars PROVE KillTyped'
  OBVIOUS
<1> DEFINE Same == UNCHANGED <<halted, sendsSinceKill>>
<1>1. Same => KillTyped'
  BY DEF KillTyped
<1>2. ASSUME NEW c \in Caller, CycleStep(c) PROVE KillTyped'
  <2>1. CASE CheckKillSwitch(c) \/ Blocked(c) \/ (\E k \in Key : Risk(c, k)) \/ ChaosBlocks(c)
               \/ Claim(c) \/ TradeFails(c) \/ CycleThrows(c) \/ CloseCycle(c) \/ CloseFailedCycle(c)
    BY <1>1, <2>1 DEF CheckKillSwitch, Blocked, Risk, ChaosBlocks, Claim, TradeFails, CycleThrows,
                      CloseCycle, CloseFailedCycle, files, sent
  <2>2. CASE Send(c)
    <3>1. halted' = halted
      BY <2>2 DEF Send, files
    <3>2. sendsSinceKill' \in Nat
      BY <2>2 DEF Send, KillTyped
    <3> QED
      BY <3>1, <3>2 DEF KillTyped
  <2>3. CASE \E l \in Loss : TradeSucceeds(c, l)
    BY <2>3, BookingTyped DEF TradeSucceeds
  <2>4. CASE Verify(c)
    BY <1>1, <2>4, BookingTyped DEF Verify
  <2> QED
    BY <1>2, <2>1, <2>2, <2>3, <2>4 DEF CycleStep
<1>3. CASE TimerFires \/ ResumeRunsCycle \/ Boot \/ Crash \/ Pause \/ Resume \/ Halt \/ Midnight
             \/ UNCHANGED vars
  BY <1>1, <1>3 DEF TimerFires, ResumeRunsCycle, Boot, Crash, Pause, Resume, Halt, Stop, Midnight,
                    vars, files, sent
<1>4. CASE ResetLiveKill
  <2>1. halted' \in BOOLEAN
    BY <1>4, Zenon DEF ResetLiveKill, KillTyped
  <2> QED
    BY <1>4, <2>1 DEF ResetLiveKill, KillTyped
<1>5. CASE EmergencyStop \/ TriggerKill
  BY <1>5, HaltsTyped DEF EmergencyStop, TriggerKill
<1> QED
  BY <1>2, <1>3, <1>4, <1>5 DEF Next

(* The interval is armed or not. *)
TimerTyped == timer \in BOOLEAN

LEMMA TimerStaysTyped == TimerTyped /\ [Next]_vars => TimerTyped'
<1> SUFFICES ASSUME TimerTyped, [Next]_vars, timer' # timer PROVE timer' \in BOOLEAN
  BY DEF TimerTyped
<1>1. ASSUME NEW c \in Caller, CycleStep(c) PROVE timer' \in BOOLEAN
  <2>1. CloseCycle(c) \/ CloseFailedCycle(c)
    BY <1>1 DEF CycleStep, CheckKillSwitch, Blocked, Risk, ChaosBlocks, Claim, Send, TradeSucceeds,
                TradeFails, Verify, CycleThrows, runtime
  <2> QED
    BY <2>1, Zenon DEF TimerTyped, CloseCycle, CloseFailedCycle, ProcessDown
<1>2. CASE TimerFires \/ ResumeRunsCycle \/ Boot \/ Pause \/ EmergencyStop \/ ResetLiveKill
             \/ TriggerKill \/ Midnight \/ UNCHANGED vars
  BY <1>2 DEF TimerFires, ResumeRunsCycle, Boot, Pause, EmergencyStop, ResetLiveKill, TriggerKill,
              Midnight, vars, runtime
<1>3. CASE Crash \/ Resume \/ Halt
  BY <1>3, Zenon DEF TimerTyped, Crash, ProcessDown, Resume, Halt, Stop
<1> QED
  BY <1>1, <1>2, <1>3 DEF Next

(* The states of the runtime and the round, and what bounds the model *)
RestTyped ==
  /\ round \in {"idle", "preflighted", "running", "stopped", "completed", "failed"}
  /\ status \in {"idle", "running", "paused", "stopped", "error"}
  /\ cycles \in Nat /\ controls \in Nat /\ kills \in Nat /\ crashes \in Nat

LEMMA RestStaysTyped == RestTyped /\ [Next]_vars => RestTyped'
<1> SUFFICES ASSUME RestTyped, [Next]_vars PROVE RestTyped'
  OBVIOUS
<1> USE DEF RestTyped, files, runtime, bounds
<1>1. ASSUME NEW c \in Caller, CycleStep(c) PROVE RestTyped'
  BY <1>1 DEF CycleStep, CheckKillSwitch, Blocked, Risk, ChaosBlocks, Claim, Send, TradeSucceeds,
              TradeFails, Verify, CycleThrows, CloseCycle, CloseFailedCycle, ProcessDown
<1>2. CASE TimerFires \/ ResumeRunsCycle
  BY <1>2 DEF TimerFires, ResumeRunsCycle, EnterCycle
<1>3. CASE Boot \/ Crash
  BY <1>3 DEF Boot, RoundAfterRefusedStart, Crash, ProcessDown
<1>4. CASE Pause \/ Resume \/ Halt
  BY <1>4 DEF Pause, Resume, Halt, Stop, Control
<1>5. CASE EmergencyStop
  BY <1>5 DEF EmergencyStop, Control
<1>6. CASE ResetLiveKill
  BY <1>6 DEF ResetLiveKill, Control, Terminal
<1>7. CASE TriggerKill \/ Midnight \/ UNCHANGED vars
  BY <1>7 DEF TriggerKill, Midnight, vars
<1> QED
  BY <1>1, <1>2, <1>3, <1>4, <1>5, <1>6, <1>7 DEF Next

(* Every variable of the live runtime keeps its type: its status and round, *)
(* the callers and their intents, the records and the daily counters.       *)
THEOREM CycleTypes == Spec => []TypeOK
<1>1. Init => KillTyped /\ TimerTyped /\ RestTyped
  <2>1. Init => halted \in BOOLEAN /\ timer \in BOOLEAN
    BY Zenon DEF Init
  <2>2. Init => sendsSinceKill \in Nat /\ RestTyped
    BY DEF Init, RestTyped
  <2> QED
    BY <2>1, <2>2 DEF KillTyped, TimerTyped
<1>2. FlowInv /\ DailyInv /\ KillTyped /\ TimerTyped /\ RestTyped => TypeOK
  <2> SUFFICES ASSUME FlowInv, DailyInv, KillTyped, TimerTyped, RestTyped PROVE TypeOK
    OBVIOUS
  <2>1. halted \in BOOLEAN /\ timer \in BOOLEAN /\ up \in BOOLEAN /\ cycleInFlight \in BOOLEAN
    BY Zenon DEF FlowInv, FlowType, KillTyped, TimerTyped
  <2>2. /\ daily \in [day : Nat, trades : Nat, loss : Nat]
        /\ limit \in [trades : Nat \ {0}, loss : Nat]
        /\ today \in Nat /\ tradesToday \in [trades : Nat, loss : Nat, last : Nat]
    BY Zenon DEF DailyInv, DailyType, Counters, Report
  <2>3. /\ record \in [Key -> {"none", "pending", "completed", "failed"}]
        /\ at \in [Caller -> {"idle", "called"} \cup InCycle]
        /\ intent \in [Caller -> [key : Key \cup {"none"}, ok : BOOLEAN, loss : Nat]]
        /\ sends \in [Key -> Nat]
    BY Zenon DEF FlowInv, FlowType, Stage
  <2>4. /\ round \in {"idle", "preflighted", "running", "stopped", "completed", "failed"}
        /\ status \in {"idle", "running", "paused", "stopped", "error"}
        /\ sendsSinceKill \in Nat
        /\ cycles \in Nat /\ controls \in Nat /\ kills \in Nat /\ crashes \in Nat
    BY DEF KillTyped, RestTyped
  <2> QED
    BY <2>1, <2>2, <2>3, <2>4, Zenon DEF TypeOK
<1> QED
  BY <1>1, <1>2, KillStaysTyped, TimerStaysTyped, RestStaysTyped, FlowInvariant, DailyAlways, PTL
     DEF Spec
=============================================================================
