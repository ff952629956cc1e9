------------------------- MODULE WorkerRestart_proofs -------------------------
(***************************************************************************)
(* Proofs about WorkerRestart, for any set of operators and keys and any   *)
(* cooldown and timeout.                                                   *)
(***************************************************************************)
EXTENDS WorkerRestart, TLAPS

(* The table is empty or has a latest request. *)
HasLatest ==
  requests = {} \/ \E r \in requests : \A other \in requests : other.stamp <= r.stamp

LEMMA LatestOfTable ==
  ASSUME HasLatest
  PROVE  \/ requests = {} /\ Latest = NoRecord
         \/ Latest \in requests /\ \A other \in requests : other.stamp <= Latest.stamp
BY DEF HasLatest, Latest

LEMMA NoRecordType == NoRecord \in Record /\ NoRecord.stamp = 0 /\ NoRecord.at = 0
BY DEF NoRecord, Record, Status

LEMMA IdleType ==
  /\ Idle \in CallState /\ Idle.pc = "idle" /\ Idle.write = NoRecord /\ Idle.knew = 0
  /\ Answering \in CallState /\ Answering.pc = "observe" /\ Answering.write = NoRecord
  /\ Answering.knew = 0
<1>1. Idle \in CallState
  BY NoRecordType DEF Idle, CallState, Config, NoView
<1> QED
  BY <1>1 DEF Idle, Answering, CallState

LEMMA LatestType ==
  ASSUME TypeOK, HasLatest
  PROVE  Latest \in Record /\ Latest.stamp \in 0..stamp
BY LatestOfTable, NoRecordType DEF TypeOK

(* Reconciliation changes nothing but the status of a record. *)
LEMMA ReconciledType ==
  ASSUME NEW r \in Record
  PROVE  /\ Reconciled(r) \in Record
         /\ Reconciled(r).stamp = r.stamp /\ Reconciled(r).key = r.key /\ Reconciled(r).at = r.at
         /\ Reconciled(r).target = r.target
         /\ Reconciled(r).status = "converged" => r.status = "converged" \/ HasConverged(r)
BY DEF Reconciled, Record, Status

-----------------------------------------------------------------------------
(* The table *)

(* What an insert or an update leaves of the table. *)
LEMMA SavedTable ==
  ASSUME TypeOK, HasLatest, NEW r \in Record, r.stamp \in 1..stamp, Save(r)
  PROVE  /\ requests' \subseteq {s \in Record : s.stamp \in 1..stamp}
         /\ \A s, t \in requests' : s.stamp = t.stamp => s = t
         /\ HasLatest'
<1>1. requests' = {other \in requests : other.stamp # r.stamp} \cup {r}
  BY DEF Save
<1>2. /\ requests' \subseteq {s \in Record : s.stamp \in 1..stamp}
      /\ \A s, t \in requests' : s.stamp = t.stamp => s = t
  BY <1>1 DEF TypeOK
<1>3. CASE requests = {}
  BY <1>1, <1>2, <1>3 DEF HasLatest
<1>4. CASE requests # {}
  <2>1. PICK last \in requests : \A other \in requests : other.stamp <= last.stamp
    BY <1>4 DEF HasLatest
  <2>2. CASE last.stamp <= r.stamp
    <3>1. \A other \in requests' : other.stamp <= r.stamp
      BY <1>1, <1>2, <2>1, <2>2 DEF TypeOK, Record
    <3> QED
      BY <1>1, <1>2, <3>1 DEF HasLatest
  <2>3. CASE ~(last.stamp <= r.stamp)
    <3>1. last \in requests' /\ \A other \in requests' : other.stamp <= last.stamp
      BY <1>1, <1>2, <2>1, <2>3 DEF TypeOK, Record
    <3> QED
      BY <1>2, <3>1 DEF HasLatest
  <2> QED
    BY <2>2, <2>3
<1> QED
  BY <1>3, <1>4

(* A call's record is in the table from its save on; what a call is about   *)
(* to save has been given an id.                                            *)
Stamped ==
  \A c \in Call : At(c, "reconcile") \/ At(c, "decide") \/ At(c, "dispatch") \/ At(c, "answer")
                    => call[c].write.stamp >= 1

TableInv == TypeOK /\ HasLatest /\ Stamped

LEMMA TableInit == Init => TableInv
BY IdleType, NoRecordType, ModelAssumption
   DEF Init, TableInv, TypeOK, HasLatest, Stamped, At, NoView, Config

(* A step that replaces the state of one call and may save a record *)
Replaced(c, new) ==
  /\ call' = [call EXCEPT ![c] = new] /\ new \in CallState
  /\ new.write.stamp <= stamp'
  /\ new.pc \in {"reconcile", "decide", "dispatch", "answer"} => new.write.stamp >= 1
  /\ stamp' = stamp \/ stamp' = stamp + 1
  /\ requests' = requests \/ \E r \in Record : r.stamp \in 1..stamp /\ Save(r)
  /\ hooks' \subseteq Hook
  /\ UNCHANGED <<memory, row, worker, clock>>

LEMMA CallReplaced ==
  ASSUME TableInv, NEW c \in Call, NEW new, Replaced(c, new)
  PROVE  TableInv'
<1> USE DEF Replaced
<1>1. requests' \subseteq {r \in Record : r.stamp \in 1..stamp} /\ HasLatest'
      /\ \A r, s \in requests' : r.stamp = s.stamp => r = s
  BY SavedTable DEF TableInv, TypeOK, HasLatest
<1>2. stamp' \in Nat /\ stamp <= stamp'
  BY DEF TableInv, TypeOK
<1>3. requests' \subseteq {r \in Record : r.stamp \in 1..stamp'}
  BY <1>1, <1>2 DEF TableInv, TypeOK
<1>4. \A b \in Call : call'[b] = IF b = c THEN new ELSE call[b]
  BY DEF TableInv, TypeOK
<1>5. call' \in [Call -> CallState]
  BY DEF TableInv, TypeOK
<1>6. \A b \in Call : call'[b].write.stamp <= stamp'
  BY <1>2, <1>4 DEF TableInv, TypeOK, CallState, Record
<1>7. Stamped'
  BY <1>4 DEF TableInv, Stamped, At
<1> QED
  BY <1>1, <1>2, <1>3, <1>5, <1>6, <1>7 DEF TableInv, TypeOK

(* The record that an operator's call is about to write *)
Drafted(c) ==
  [stamp |-> stamp + 1, key |-> call[c].key, status |-> Verdict(call[c]), at |-> clock,
   target |-> call[c].config.requested]

LEMMA VerdictType ==
  ASSUME NEW local PROVE Verdict(local) \in Refused \cup {"requested"}
BY DEF Verdict, Refused

LEMMA DraftedType ==
  ASSUME TableInv, NEW c \in Call
  PROVE  Drafted(c) \in Record
BY VerdictType DEF Drafted, TableInv, TypeOK, CallState, Config, Record, Status, Pending

(* The state of a call that drafted a record *)
Drafting(c) ==
  [Idle EXCEPT !.pc = "decide", !.asks = TRUE, !.key = call[c].key, !.knew = Latest.stamp,
               !.write = Drafted(c)]

LEMMA DraftingType ==
  ASSUME TableInv, NEW c \in Call
  PROVE  /\ Drafting(c) \in CallState
         /\ Drafting(c).pc = "decide" /\ Drafting(c).key = call[c].key
         /\ Drafting(c).knew = Latest.stamp /\ Drafting(c).write = Drafted(c)
<1>1. Latest.stamp \in Nat /\ call[c].key \in Key \cup {NoKey}
  BY LatestType DEF TableInv, TypeOK, CallState
<1> QED
  BY <1>1, DraftedType, IdleType DEF Drafting, Idle, CallState

Reported(r) == r.status = "converged" => worker.applied >= r.target /\ worker.beat >= r.stamp

(* What identifies a request in each copy of it: the table's, a call's, the *)
(* deploy hook's *)
Identity(r) == [stamp |-> r.stamp, key |-> r.key, at |-> r.at]
Asked(h) == [stamp |-> h.stamp, key |-> h.key, at |-> h.asked]
(* What the deploy hook is called with *)
Fired(c) ==
  [stamp |-> call[c].write.stamp, key |-> call[c].key, asked |-> call[c].write.at, at |-> clock,
   knew |-> call[c].knew]

(* The steps of a call, by what they do to the table, the ids and the hook: *)
(* nothing, ...                                                             *)
Rests(new) == new.pc \in {"idle", "observe", "lookup"}
Quiet(c, new) ==
  /\ Rests(new) /\ new.write \in {NoRecord, call[c].write}
  /\ UNCHANGED <<requests, hooks, stamp>>

(* ... find that the latest request ended, ...                              *)
Ends(c, new) ==
  /\ new.pc = "reconcile" /\ Latest \in requests /\ new.write = Reconciled(Latest)
  /\ UNCHANGED <<requests, hooks, stamp>>

(* ... write over a record, ...                                             *)
Writes(c, new) ==
  /\ At(c, "reconcile") \/ At(c, "answer")
  /\ Rests(new) /\ new.write = NoRecord
  /\ \E r \in Record : /\ Save(r) /\ Identity(r) = Identity(call[c].write)
                       /\ Reported(call[c].write) => Reported(r)
  /\ UNCHANGED <<hooks, stamp>>

(* ... take an id for a new one, ...                                        *)
Drafts(c, new) ==
  /\ At(c, "lookup")
  /\ call[c].key = NoKey \/ \A r \in requests : r.key # call[c].key
  /\ new = Drafting(c)
  /\ stamp' = stamp + 1 /\ UNCHANGED <<requests, hooks>>

(* ... insert it, ...                                                       *)
Inserts(c, new) ==
  /\ At(c, "decide") /\ Save(call[c].write)
  /\ \/ Rests(new) /\ new.write = NoRecord
     \/ /\ new.pc = "dispatch" /\ call[c].write.status \notin Refused
        /\ new.write = call[c].write /\ new.key = call[c].key /\ new.knew = call[c].knew
  /\ UNCHANGED <<hooks, stamp>>

(* ... or call the hook.                                                    *)
Fires(c, new) ==
  /\ At(c, "dispatch")
  /\ new.pc = "answer" /\ new.write = call[c].write
  /\ hooks' = hooks \cup {Fired(c)}
  /\ UNCHANGED <<requests, stamp>>

Effect(c, new) ==
  /\ Replaced(c, new)
  /\ \/ Quiet(c, new) \/ Ends(c, new) \/ Writes(c, new)
     \/ Drafts(c, new) \/ Inserts(c, new) \/ Fires(c, new)

LEMMA ObserveEffect ==
  ASSUME TableInv, NEW c \in Call, Observe(c)
  PROVE  \E new : Effect(c, new)
<1> DEFINE after == Reconciled(Latest)
           seen == [call[c] EXCEPT !.config = memory, !.pending = after.status \in Pending]
<1>1. after \in Record /\ after.stamp = Latest.stamp /\ Latest \in Record /\ Latest.stamp \in 0..stamp
  BY LatestType, ReconciledType DEF TableInv
<1>2. after # Latest => Latest.stamp >= 1
  BY LatestOfTable, NoRecordType DEF TableInv, TypeOK, Reconciled, NoRecord, Pending
<1>3. seen \in CallState /\ seen.write = call[c].write
  <2> DEFINE looked == [call[c] EXCEPT !.config = memory]
             open == after.status \in Pending
  <2>1. looked \in CallState /\ looked.write = call[c].write
    BY DEF TableInv, TypeOK, CallState
  <2>2. seen = [looked EXCEPT !.pending = open] /\ open \in BOOLEAN
    BY DEF looked, open
  <2> HIDE DEF looked, after, seen, open
  <2> QED
    BY <2>1, <2>2 DEF CallState
<1> DEFINE moved == [seen EXCEPT !.pc = "reconcile"]
           ending == [moved EXCEPT !.write = after]
           going == [seen EXCEPT !.pc = "lookup"]
<1>4. ending = [seen EXCEPT !.pc = "reconcile", !.write = after]
  OBVIOUS
<1> HIDE DEF after, seen
<1>5. moved \in CallState /\ moved.pc = "reconcile"
  BY <1>3 DEF CallState
<1>6. going \in CallState /\ going.pc = "lookup" /\ going.write = call[c].write
  BY <1>3 DEF CallState
<1> HIDE DEF moved, going
<1>7. ending \in CallState /\ ending.pc = "reconcile" /\ ending.write = after
  BY <1>1, <1>5 DEF CallState
<1> HIDE DEF ending
<1>8. /\ UNCHANGED <<requests, memory, row, worker, clock, stamp, hooks>>
      /\ stamp \in Nat /\ hooks \subseteq Hook /\ call[c].write.stamp <= stamp
  BY DEF Observe, TableInv, TypeOK
<1>9. CASE after # Latest
  <2>0. call' = [call EXCEPT ![c] = [seen EXCEPT !.pc = "reconcile", !.write = after]]
    BY <1>9 DEF Observe, Step, after, seen
  <2>1. call' = [call EXCEPT ![c] = ending] /\ Latest \in requests
    BY <1>1, <1>2, <1>4, <1>9, <2>0, LatestOfTable, NoRecordType DEF TableInv
  <2>2. Replaced(c, ending)
    BY <1>1, <1>2, <1>7, <1>8, <1>9, <2>1 DEF Replaced
  <2>3. Ends(c, ending)
    BY <1>7, <1>8, <2>1 DEF Ends, after
  <2> QED
    BY <2>2, <2>3 DEF Effect
<1>10. CASE after = Latest
  <2>1. call' = [call EXCEPT ![c] = going] \/ call' = [call EXCEPT ![c] = Idle]
    <3>1. CASE call[c].asks
      BY <1>10, <3>1 DEF Observe, Step, after, seen, going
    <3>2. CASE ~call[c].asks
      BY <1>10, <3>2 DEF Observe, Step, after, seen, going
    <3> QED
      BY <3>1, <3>2
  <2>2. Replaced(c, going) \/ Replaced(c, Idle)
    BY <1>6, <1>8, <2>1, IdleType, NoRecordType DEF Replaced
  <2>3. Quiet(c, going) /\ Quiet(c, Idle)
    BY <1>6, <1>8, IdleType DEF Quiet, Rests
  <2> QED
    BY <2>2, <2>3 DEF Effect
<1> QED
  BY <1>9, <1>10

LEMMA BeginEffect ==
  ASSUME TableInv, NEW c \in Operator, NEW key \in Key \cup {NoKey}, BeginRequest(c, key)
  PROVE  \E new : Effect(c, new)
<1> DEFINE new == [Idle EXCEPT !.pc = "observe", !.asks = TRUE, !.key = key]
<1>1. new \in CallState /\ new.pc = "observe" /\ new.write = NoRecord
  BY IdleType, NoRecordType DEF Idle, CallState, NoView, Config
<1>2. call' = [call EXCEPT ![c] = new]
  BY DEF BeginRequest, Step
<1> HIDE DEF new
<1>3. Replaced(c, new)
  BY <1>1, <1>2, NoRecordType DEF BeginRequest, Replaced, TableInv, TypeOK
<1>4. Quiet(c, new)
  BY <1>1 DEF BeginRequest, Quiet, Rests
<1> QED
  BY <1>3, <1>4 DEF Effect

LEMMA BeginStatusEffect ==
  ASSUME TableInv, BeginStatus
  PROVE  \E new : Effect(Poller, new)
<1>1. Replaced(Poller, Answering)
  BY IdleType, NoRecordType DEF BeginStatus, Step, Replaced, TableInv, TypeOK
<1>2. Quiet(Poller, Answering)
  BY IdleType DEF BeginStatus, Quiet, Rests
<1> QED
  BY <1>1, <1>2 DEF Effect

LEMMA ReconcileEffect ==
  ASSUME TableInv, NEW c \in Call, Reconcile(c)
  PROVE  \E new : Effect(c, new)
<1> DEFINE looked == [call[c] EXCEPT !.pc = "lookup", !.write = NoRecord]
<1>1. looked \in CallState /\ looked.pc = "lookup" /\ looked.write = NoRecord
  <2> DEFINE moved == [call[c] EXCEPT !.pc = "lookup"]
  <2>1. moved \in CallState /\ moved.pc = "lookup"
    BY DEF TableInv, TypeOK, CallState
  <2>2. looked = [moved EXCEPT !.write = NoRecord]
    OBVIOUS
  <2> HIDE DEF moved, looked
  <2> QED
    BY <2>1, <2>2, NoRecordType DEF CallState
<1>2. call[c].write \in Record /\ call[c].write.stamp \in 1..stamp
  BY DEF Reconcile, TableInv, TypeOK, Stamped, At, CallState, Record
<1>3. call' = [call EXCEPT ![c] = looked] \/ call' = [call EXCEPT ![c] = Idle]
  BY DEF Reconcile, Step
<1> HIDE DEF looked
<1>4. Replaced(c, looked) \/ Replaced(c, Idle)
  BY <1>1, <1>2, <1>3, IdleType, NoRecordType DEF Reconcile, Replaced, TableInv, TypeOK
<1>5. Writes(c, looked) /\ Writes(c, Idle)
  BY <1>1, <1>2, IdleType DEF Reconcile, Writes, Rests
<1> QED
  BY <1>4, <1>5 DEF Effect

LEMMA LookupEffect ==
  ASSUME TableInv, NEW c \in Call, Lookup(c)
  PROVE  \E new : Effect(c, new)
<1>1. \/ call' = [call EXCEPT ![c] = Answering] /\ stamp' = stamp
      \/ /\ call' = [call EXCEPT ![c] = Drafting(c)] /\ stamp' = stamp + 1
         /\ call[c].key = NoKey \/ \A r \in requests : r.key # call[c].key
  BY DEF Lookup, Step, Drafting, Drafted
<1>2. Drafted(c).stamp = stamp + 1
  BY DEF Drafted
<1>3. UNCHANGED <<requests, memory, row, worker, clock, hooks>> /\ stamp \in Nat /\ hooks \subseteq Hook
      /\ At(c, "lookup")
  BY DEF Lookup, TableInv, TypeOK
<1>4. CASE call' = [call EXCEPT ![c] = Answering] /\ stamp' = stamp
  <2>1. Replaced(c, Answering) /\ Quiet(c, Answering)
    BY <1>3, <1>4, IdleType, NoRecordType DEF Replaced, Quiet, Rests
  <2> QED
    BY <2>1 DEF Effect
<1>5. CASE call' = [call EXCEPT ![c] = Drafting(c)] /\ stamp' = stamp + 1
  <2>1. Replaced(c, Drafting(c)) /\ Drafts(c, Drafting(c))
    BY <1>1, <1>2, <1>3, <1>5, DraftingType DEF Replaced, Drafts
  <2> QED
    BY <2>1 DEF Effect
<1> QED
  BY <1>1, <1>4, <1>5

LEMMA MovedType ==
  ASSUME NEW s \in CallState
  PROVE  /\ [s EXCEPT !.pc = "dispatch"] \in CallState
         /\ [s EXCEPT !.pc = "dispatch"].pc = "dispatch"
         /\ [s EXCEPT !.pc = "dispatch"].write = s.write
         /\ [s EXCEPT !.pc = "dispatch"].key = s.key
         /\ [s EXCEPT !.pc = "dispatch"].knew = s.knew
BY DEF CallState

LEMMA CalledType ==
  ASSUME NEW s \in CallState, NEW t, t = [s EXCEPT !.pc = "answer", !.knew = 0]
  PROVE  t \in CallState /\ t.pc = "answer" /\ t.write = s.write /\ t.knew = 0 /\ t.key = s.key
<1> DEFINE moved == [s EXCEPT !.pc = "answer"]
<1>1. moved \in CallState /\ moved.pc = "answer" /\ moved.write = s.write /\ moved.key = s.key
  BY DEF CallState
<1>2. t = [moved EXCEPT !.knew = 0]
  OBVIOUS
<1> HIDE DEF moved
<1> QED
  BY <1>1, <1>2 DEF CallState

LEMMA DecideEffect ==
  ASSUME TableInv, NEW c \in Call, Decide(c)
  PROVE  \E new : Effect(c, new)
<1> DEFINE moved == [call[c] EXCEPT !.pc = "dispatch"]
<1>1. /\ call[c] \in CallState /\ call[c].write \in Record /\ call[c].write.stamp \in 1..stamp
      /\ At(c, "decide") /\ UNCHANGED <<memory, row, worker, clock, stamp, hooks>>
      /\ stamp \in Nat /\ hooks \subseteq Hook
  BY DEF Decide, TableInv, TypeOK, Stamped, At, CallState, Record
<1>2. /\ moved \in CallState /\ moved.pc = "dispatch" /\ moved.write = call[c].write
      /\ moved.key = call[c].key /\ moved.knew = call[c].knew
  BY <1>1, MovedType
<1>3. \/ /\ Save(call[c].write)
         /\ \/ call' = [call EXCEPT ![c] = Answering]
            \/ call' = [call EXCEPT ![c] = moved] /\ call[c].write.status \notin Refused
      \/ call' = [call EXCEPT ![c] = Idle] /\ requests' = requests
  BY DEF Decide, Step
<1> HIDE DEF moved
<1>4. CASE Save(call[c].write) /\ call' = [call EXCEPT ![c] = Answering]
  <2>1. Replaced(c, Answering) /\ Inserts(c, Answering)
    BY <1>1, <1>4, IdleType, NoRecordType DEF Replaced, Inserts, Rests
  <2> QED
    BY <2>1 DEF Effect
<1>5. CASE /\ Save(call[c].write) /\ call' = [call EXCEPT ![c] = moved]
           /\ call[c].write.status \notin Refused
  <2>1. Replaced(c, moved) /\ Inserts(c, moved)
    BY <1>1, <1>2, <1>5 DEF Replaced, Inserts
  <2> QED
    BY <2>1 DEF Effect
<1>6. CASE call' = [call EXCEPT ![c] = Idle] /\ requests' = requests
  <2>1. Replaced(c, Idle) /\ Quiet(c, Idle)
    BY <1>1, <1>6, IdleType, NoRecordType DEF Replaced, Quiet, Rests
  <2> QED
    BY <2>1 DEF Effect
<1> QED
  BY <1>3, <1>4, <1>5, <1>6

LEMMA DispatchEffect ==
  ASSUME TableInv, NEW c \in Call, Dispatch(c)
  PROVE  \E new : Effect(c, new)
<1>1. /\ call[c] \in CallState /\ call[c].write \in Record /\ call[c].write.stamp \in 1..stamp
  BY DEF Dispatch, TableInv, TypeOK, Stamped, At, CallState, Record
<1>2. Fired(c) \in Hook
  BY <1>1 DEF Fired, Hook, CallState, Record, TableInv, TypeOK
<1>3. hooks' = hooks \cup {Fired(c)} /\ At(c, "dispatch")
  BY DEF Dispatch, Fired
<1>4. hooks' \subseteq Hook
  BY <1>2, <1>3 DEF TableInv, TypeOK
<1>5. PICK new : new = [call[c] EXCEPT !.pc = "answer", !.knew = 0]
  OBVIOUS
<1>6. call' = [call EXCEPT ![c] = new] /\ UNCHANGED <<requests, memory, row, worker, clock, stamp>>
  BY <1>5 DEF Dispatch, Step
<1>7. new \in CallState /\ new.pc = "answer" /\ new.write = call[c].write
  BY <1>1, <1>5, CalledType
<1>8. Replaced(c, new)
  BY <1>1, <1>4, <1>6, <1>7 DEF Replaced, TableInv, TypeOK
<1>9. Fires(c, new)
  BY <1>3, <1>6, <1>7 DEF Fires
<1> QED
  BY <1>8, <1>9 DEF Effect

LEMMA AnswersEffect ==
  ASSUME TableInv, NEW c \in Call, HookAnswers(c)
  PROVE  \E new : Effect(c, new)
<1>1. /\ call[c].write \in Record /\ call[c].write.stamp \in 1..stamp
      /\ stamp \in Nat /\ hooks \subseteq Hook
  BY DEF HookAnswers, TableInv, TypeOK, Stamped, At, CallState, Record
<1>2. PICK status \in {"dispatched", "failed"} : Save([call[c].write EXCEPT !.status = status])
  BY DEF HookAnswers
<1>3. PICK r : r = [call[c].write EXCEPT !.status = status]
  OBVIOUS
<1>4. /\ r \in Record /\ r.stamp \in 1..stamp /\ Save(r)
      /\ Identity(r) = Identity(call[c].write) /\ Reported(r)
  BY <1>1, <1>2, <1>3 DEF Record, Status, Pending, Identity, Reported
<1>5. /\ call' = [call EXCEPT ![c] = Answering] /\ At(c, "answer")
      /\ UNCHANGED <<memory, row, worker, clock, stamp, hooks>>
  BY DEF HookAnswers, Step
<1>6. Replaced(c, Answering)
  BY <1>1, <1>4, <1>5, IdleType, NoRecordType DEF Replaced
<1>7. Writes(c, Answering)
  BY <1>4, <1>5, IdleType DEF Writes, Rests
<1> QED
  BY <1>6, <1>7 DEF Effect

(* The configuration, the worker, the clock and a start of the service *)
Surroundings == Change \/ Overlay \/ BootWorker \/ Heartbeat \/ BootControl \/ Tick

LEMMA SurroundingsTable ==
  ASSUME TableInv, Surroundings
  PROVE  TableInv'
<1> USE DEF TableInv, TypeOK, HasLatest, Stamped, At
<1>1. CASE Change
  <2> DEFINE raised == [memory EXCEPT !.requires = TRUE]
  <2>1. raised \in Config /\ memory' = [raised EXCEPT !.requested = raised.requested + 1]
    BY <1>1 DEF Change, Config
  <2> HIDE DEF raised
  <2> QED
    BY <1>1, <2>1 DEF Change, Config
<1>2. CASE Overlay
  BY <1>2 DEF Overlay, Config
<1>3. CASE BootWorker
  BY <1>3 DEF BootWorker, Config
<1>4. CASE Heartbeat
  BY <1>4 DEF Heartbeat
<1>5. CASE BootControl
  BY <1>5, IdleType, NoRecordType DEF BootControl
<1>6. CASE Tick
  BY <1>6 DEF Tick
<1> QED
  BY <1>1, <1>2, <1>3, <1>4, <1>5, <1>6 DEF Surroundings

observed == <<requests, memory, row, worker, call, clock, stamp, hooks>>

(* Every step is a step of a call, or one of its surroundings. *)
LEMMA Steps ==
  ASSUME TableInv, [Next]_vars
  PROVE  UNCHANGED observed \/ Surroundings \/ \E c \in Call : \E new : Effect(c, new)
<1>1. CASE UNCHANGED vars
  BY <1>1 DEF vars, observed
<1>2. CASE BeginStatus
  BY <1>2, BeginStatusEffect DEF Call
<1>3. ASSUME NEW c \in Operator, NEW key \in Key \cup {NoKey}, BeginRequest(c, key)
      PROVE  \E b \in Call : \E new : Effect(b, new)
  BY <1>3, BeginEffect DEF Call
<1>4. ASSUME NEW c \in Call, SnapshotStep(c) PROVE \E new : Effect(c, new)
  BY <1>4, ObserveEffect, ReconcileEffect DEF SnapshotStep
<1>5. ASSUME NEW c \in Operator, RequestStep(c) PROVE c \in Call /\ \E new : Effect(c, new)
  BY <1>5, LookupEffect, DecideEffect, DispatchEffect, AnswersEffect DEF RequestStep, Call
<1> QED
  BY <1>1, <1>2, <1>3, <1>4, <1>5 DEF Next, Surroundings

LEMMA TableKept ==
  ASSUME TableInv, [Next]_vars
  PROVE  TableInv'
<1>1. CASE UNCHANGED observed
  BY <1>1 DEF observed, TableInv, TypeOK, HasLatest, Stamped, At
<1>2. ASSUME NEW c \in Call, NEW new, Effect(c, new) PROVE TableInv'
  BY <1>2, CallReplaced DEF Effect
<1> QED
  BY <1>1, <1>2, Steps, SurroundingsTable

(* The variables keep their types, and the table one record per id and a    *)
(* latest request.                                                          *)
THEOREM RestartTypes == Spec => []TypeOK
<1>1. TableInv => TypeOK
  BY DEF TableInv
<1> QED
  BY <1>1, TableInit, TableKept, PTL DEF Spec

-----------------------------------------------------------------------------
(* Converged requests *)

(* The worker reports no version that was not requested, and what it has    *)
(* reported covers every record that was converged, in the table or in a    *)
(* call that is about to write it.                                          *)
ReportInv ==
  /\ memory.requested = row.requested /\ worker.applied <= row.requested
  /\ worker.beat <= stamp
  /\ \A r \in requests : Reported(r)
  /\ \A c \in Call : Reported(call[c].write)

LEMMA ReportInit == Init => ReportInv
BY IdleType DEF Init, ReportInv, Reported, NoView, NoRecord

(* The record that a call may take to the table was reported. *)
LEMMA EffectReports ==
  ASSUME TableInv, ReportInv, NEW c \in Call, NEW new, Effect(c, new)
  PROVE  ReportInv'
<1>1. /\ UNCHANGED <<worker, memory, row>> /\ stamp <= stamp'
      /\ \A b \in Call : call'[b] = IF b = c THEN new ELSE call[b]
      /\ call[c].write \in Record
  BY DEF Effect, Replaced, TableInv, TypeOK, CallState
<1>2. Reported(NoRecord) /\ Reported(call[c].write)
  BY DEF ReportInv, Reported, NoRecord
<1>3. ASSUME NEW r, Save(r), Reported(r) PROVE \A s \in requests' : Reported(s)
  BY <1>3 DEF Save, ReportInv
<1>4. Reported(new.write) /\ \A s \in requests' : Reported(s)
  <2>1. CASE Quiet(c, new)
    BY <1>2, <2>1 DEF Quiet, ReportInv
  <2>2. CASE Ends(c, new)
    <3>1. Latest \in requests /\ Latest \in Record /\ Reported(Latest)
      BY <2>2 DEF Ends, TableInv, TypeOK, ReportInv
    <3>2. HasConverged(Latest) => worker.applied >= Latest.target /\ worker.beat >= Latest.stamp
      BY <3>1 DEF HasConverged, TableInv, TypeOK, Record
    <3>3. Reported(Reconciled(Latest))
      BY <3>1, <3>2, ReconciledType DEF Reported
    <3> QED
      BY <2>2, <3>3 DEF Ends, ReportInv
  <2>3. CASE Writes(c, new)
    BY <1>2, <1>3, <2>3 DEF Writes
  <2>4. CASE Drafts(c, new)
    <3>1. Drafted(c).status # "converged"
      BY VerdictType DEF Drafted, Refused
    <3>2. new.write = Drafted(c) /\ requests' = requests
      BY <2>4, DraftingType DEF Drafts
    <3> QED
      BY <3>1, <3>2 DEF Reported, ReportInv
  <2>5. CASE Inserts(c, new)
    BY <1>2, <1>3, <2>5 DEF Inserts
  <2>6. CASE Fires(c, new)
    BY <1>2, <2>6 DEF Fires, ReportInv
  <2> QED
    BY <2>1, <2>2, <2>3, <2>4, <2>5, <2>6 DEF Effect
<1>5. \A b \in Call : Reported(call'[b].write)
  BY <1>1, <1>4 DEF ReportInv
<1>6. worker'.beat <= stamp'
  BY <1>1 DEF ReportInv, Effect, Replaced, TableInv, TypeOK
<1> QED
  BY <1>1, <1>4, <1>5, <1>6 DEF ReportInv, Reported

(* A worker that boots applies the record's version, which only grows. *)
LEMMA SurroundingsReport ==
  ASSUME TableInv, ReportInv, Surroundings
  PROVE  ReportInv'
<1> USE DEF TableInv, TypeOK, ReportInv
<1>1. ASSUME worker'.applied >= worker.applied, worker'.beat >= worker.beat,
             worker' \in [applied : Nat, beat : Nat], NEW r \in Record, Reported(r)
      PROVE  r.status = "converged" => worker'.applied >= r.target /\ worker'.beat >= r.stamp
  BY <1>1 DEF Reported, Record
<1>2. CASE Change
  <2> DEFINE raised == [memory EXCEPT !.requires = TRUE]
  <2>1. raised \in Config /\ raised.requested = memory.requested
        /\ memory' = [raised EXCEPT !.requested = raised.requested + 1] /\ row' = memory'
    BY <1>2 DEF Change, Config
  <2> HIDE DEF raised
  <2>2. memory'.requested = memory.requested + 1 /\ row'.requested = memory'.requested
    BY <2>1 DEF Config
  <2>3. UNCHANGED <<requests, worker, call, stamp>>
    BY <1>2 DEF Change
  <2> QED
    BY <2>2, <2>3 DEF Reported, Config
<1>3. CASE Overlay
  BY <1>3 DEF Overlay, Config, Reported
<1>4. CASE BootWorker
  <2>1. /\ worker'.applied = row.requested /\ worker'.beat = stamp /\ row'.requested = row.requested
        /\ worker' \in [applied : Nat, beat : Nat]
        /\ worker'.applied >= worker.applied /\ worker'.beat >= worker.beat
        /\ UNCHANGED <<requests, memory, call, stamp>>
    BY <1>4 DEF BootWorker, Config
  <2> QED
    BY <1>1, <2>1 DEF Reported, CallState
<1>5. CASE Heartbeat
  <2>1. /\ worker' \in [applied : Nat, beat : Nat]
        /\ worker'.applied >= worker.applied /\ worker'.beat >= worker.beat
        /\ worker'.applied = worker.applied /\ worker'.beat = stamp
        /\ UNCHANGED <<requests, memory, row, call, stamp>>
    BY <1>5 DEF Heartbeat
  <2> QED
    BY <1>1, <2>1 DEF Reported, CallState
<1>6. CASE BootControl
  <2>1. Reported(NoRecord)'
    BY DEF Reported, NoRecord
  <2> QED
    BY <1>6, <2>1, IdleType DEF BootControl, Reported
<1>7. CASE Tick
  BY <1>7 DEF Tick, Reported
<1> QED
  BY <1>2, <1>3, <1>4, <1>5, <1>6, <1>7 DEF Surroundings

(* A request recorded as converged was reported by the worker, whatever     *)
(* version of the record the calls of a late hook or a slow poll write.     *)
THEOREM ConvergedReported == Spec => []ConvergedIsReported
<1>1. TableInv /\ ReportInv /\ [Next]_vars => ReportInv'
  <2>1. ASSUME ReportInv, UNCHANGED observed PROVE ReportInv'
    BY <2>1 DEF observed, ReportInv, Reported
  <2> QED
    BY <2>1, Steps, EffectReports, SurroundingsReport
<1>2. ReportInv => ConvergedIsReported
  BY DEF ReportInv, Reported, ConvergedIsReported
<1> QED
  BY <1>1, <1>2, TableInit, TableKept, ReportInit, PTL DEF Spec

-----------------------------------------------------------------------------
(* The deploy hook *)

Identities ==
  {Identity(r) : r \in requests} \cup {Identity(call[c].write) : c \in Call}
    \cup {Asked(h) : h \in hooks} \cup {Identity(NoRecord)}

(* All copies of an id agree, and ids were given in the order of time. *)
Ordered ==
  \A x, y \in Identities :
    /\ x.stamp <= stamp /\ x.at <= clock
    /\ x.stamp <= y.stamp => x.at <= y.at
    /\ x.stamp = y.stamp => x = y

Recorded(id) == \E r \in requests : r.stamp = id

KeysUnique ==
  \A r, s \in requests : r.key = s.key /\ r.key # NoKey => r.stamp = s.stamp

(* The table has the record of a call from its save on, and not before; two *)
(* calls never bring the same one.                                          *)
Bringing ==
  /\ \A c \in Call :
       /\ At(c, "reconcile") \/ At(c, "dispatch") \/ At(c, "answer") => Recorded(call[c].write.stamp)
       /\ At(c, "decide") => ~Recorded(call[c].write.stamp)
       /\ At(c, "decide") \/ At(c, "dispatch") => call[c].key = call[c].write.key
       /\ At(c, "dispatch") => call[c].write.status \notin Refused
  /\ \A b, c \in Call, pc \in {"decide", "dispatch"} :
       At(b, pc) /\ At(c, pc) /\ call[b].write.stamp = call[c].write.stamp => b = c

(* The hook was called once for an id, and only with its record saved. *)
Hooked ==
  /\ \A h \in hooks : Recorded(h.stamp)
  /\ \A h, g \in hooks : h.stamp = g.stamp => h = g
  /\ \A c \in Call, h \in hooks : At(c, "dispatch") => h.stamp # call[c].write.stamp

Apart(knew, asked) ==
  /\ knew <= stamp
  /\ \A x \in Identities : 1 <= x.stamp /\ x.stamp <= knew => x.at + Cooldown <= asked

(* Who dispatches is a cooldown away from the requests that it knew of. *)
Spaced ==
  /\ \A c \in Call :
       (At(c, "decide") \/ At(c, "dispatch")) /\ call[c].write.status \notin Refused
         => Apart(call[c].knew, call[c].write.at)
  /\ \A g \in hooks : Apart(g.knew, g.asked) /\ g.asked <= g.at

HookInv == Ordered /\ KeysUnique /\ Bringing /\ Hooked /\ Spaced

LEMMA HookInit == Init => HookInv
<1> SUFFICES ASSUME Init PROVE HookInv
  OBVIOUS
<1>1. Identities = {Identity(NoRecord)}
  BY IdleType DEF Init, Identities
<1>2. Identity(NoRecord).stamp = 0 /\ Identity(NoRecord).at = 0
  BY NoRecordType DEF Identity
<1>3. Ordered
  BY <1>1, <1>2 DEF Init, Ordered
<1> QED
  BY <1>3, IdleType DEF Init, HookInv, KeysUnique, Bringing, Hooked, Spaced, At

(* What the table knows after a save *)
LEMMA SavedIds ==
  ASSUME NEW r, Save(r)
  PROVE  /\ \A s \in requests' : s = r \/ s \in requests
         /\ \A id : Recorded(id)' <=> Recorded(id) \/ id = r.stamp
         /\ KeysUnique => KeysUnique'
<1>1. \A s : s \in requests' <=> s = r \/ (s \in requests /\ s.stamp # r.stamp)
  BY DEF Save
<1>2. \A s \in requests : s.stamp # r.stamp /\ s.key = r.key => r.key = NoKey
  BY DEF Save, KeyTaken
<1> QED
  BY <1>1, <1>2 DEF Recorded, KeysUnique

LEMMA IdentityType ==
  ASSUME TableInv
  PROVE  /\ Identities \subseteq [stamp : Nat, key : Key \cup {NoKey}, at : Nat]
         /\ \A r \in requests : Identity(r) \in Identities
         /\ \A c \in Call : Identity(call[c].write) \in Identities
         /\ \A h \in hooks : Asked(h) \in Identities
         /\ Identity(NoRecord) \in Identities
<1>1. \A r \in Record : Identity(r) \in [stamp : Nat, key : Key \cup {NoKey}, at : Nat]
  BY DEF Identity, Record
<1>2. \A h \in Hook : Asked(h) \in [stamp : Nat, key : Key \cup {NoKey}, at : Nat]
  BY DEF Asked, Hook
<1>3. requests \subseteq Record /\ hooks \subseteq Hook /\ \A c \in Call : call[c].write \in Record
  BY DEF TableInv, TypeOK, CallState
<1> QED
  BY <1>1, <1>2, <1>3, NoRecordType DEF Identities

LEMMA IdentityFields ==
  /\ \A r : Identity(r).stamp = r.stamp /\ Identity(r).key = r.key /\ Identity(r).at = r.at
  /\ \A h : Asked(h).stamp = h.stamp /\ Asked(h).key = h.key /\ Asked(h).at = h.asked
BY DEF Identity, Asked

(* Only a call that takes an id adds an identity. *)
LEMMA EffectIdentities ==
  ASSUME TableInv, Bringing, NEW c \in Call, NEW new, Effect(c, new), NEW x \in Identities'
  PROVE  x \in Identities \/ (Drafts(c, new) /\ x = Identity(Drafted(c)))
<1>1. \A b \in Call : call'[b] = IF b = c THEN new ELSE call[b]
  BY DEF Effect, Replaced, TableInv, TypeOK
<1>2. /\ \A r \in requests : Identity(r) \in Identities
      /\ \A b \in Call : Identity(call[b].write) \in Identities
      /\ \A h \in hooks : Asked(h) \in Identities
      /\ Identity(NoRecord) \in Identities
  BY IdentityType
<1>3. \/ \E r \in requests' : x = Identity(r)
      \/ \E b \in Call : x = Identity(call'[b].write)
      \/ \E h \in hooks' : x = Asked(h)
      \/ x = Identity(NoRecord)
  BY DEF Identities, Identity, Asked
<1>4. CASE \E r \in requests' : x = Identity(r)
  <2>1. PICK r \in requests' : x = Identity(r)
    BY <1>4
  <2>2. r \in requests \/ Identity(r) = Identity(call[c].write)
    <3>1. CASE Writes(c, new)
      BY <2>1, <3>1, SavedIds DEF Writes
    <3>2. CASE Inserts(c, new)
      BY <2>1, <3>2, SavedIds DEF Inserts
    <3>3. CASE ~Writes(c, new) /\ ~Inserts(c, new)
      BY <2>1, <3>3 DEF Effect, Quiet, Ends, Drafts, Fires
    <3> QED
      BY <3>1, <3>2, <3>3
  <2> QED
    BY <1>2, <2>1, <2>2
<1>5. CASE \E b \in Call : x = Identity(call'[b].write)
  <2>1. PICK b \in Call : x = Identity(call'[b].write)
    BY <1>5
  <2>2. CASE b # c
    BY <1>1, <1>2, <2>1, <2>2
  <2>3. CASE b = c
    <3>1. x = Identity(new.write)
      BY <1>1, <2>1, <2>3
    <3>2. CASE Drafts(c, new)
      BY <3>1, <3>2, DraftingType DEF Drafts
    <3>3. CASE Ends(c, new)
      <4>1. Latest \in requests /\ Latest \in Record /\ new.write = Reconciled(Latest)
        BY <3>3 DEF Ends, TableInv, TypeOK
      <4> QED
        BY <1>2, <3>1, <4>1, ReconciledType DEF Identity
    <3>4. CASE ~Drafts(c, new) /\ ~Ends(c, new)
      BY <1>2, <3>1, <3>4 DEF Effect, Quiet, Writes, Inserts, Fires
    <3> QED
      BY <3>2, <3>3, <3>4
  <2> QED
    BY <2>2, <2>3
<1>6. CASE \E h \in hooks' : x = Asked(h)
  <2>1. PICK h \in hooks' : x = Asked(h)
    BY <1>6
  <2> QED
    <3>1. CASE Fires(c, new)
      <4>1. h \in hooks \/ h = Fired(c)
        BY <3>1 DEF Fires
      <4>2. call[c].key = call[c].write.key
        BY <3>1 DEF Fires, Bringing
      <4>3. Asked(Fired(c)) = Identity(call[c].write)
        BY <4>2 DEF Asked, Fired, Identity
      <4> QED
        BY <1>2, <2>1, <4>1, <4>3
    <3>2. CASE ~Fires(c, new)
      BY <1>2, <2>1, <3>2 DEF Effect, Quiet, Ends, Writes, Drafts, Inserts
    <3> QED
      BY <3>1, <3>2
<1> QED
  BY <1>2, <1>3, <1>4, <1>5, <1>6

LEMMA DraftedIdentity ==
  ASSUME TableInv, NEW c \in Call
  PROVE  /\ Identity(Drafted(c)).stamp = stamp + 1 /\ Identity(Drafted(c)).at = clock
         /\ Drafted(c).stamp = stamp + 1 /\ Drafted(c).at = clock /\ Drafted(c).key = call[c].key
BY DEF Identity, Drafted

LEMMA EffectOrdered ==
  ASSUME TableInv, HookInv, NEW c \in Call, NEW new, Effect(c, new)
  PROVE  Ordered'
<1>1. /\ stamp \in Nat /\ clock \in Nat /\ clock' = clock /\ stamp' \in Nat /\ stamp <= stamp'
      /\ Drafts(c, new) => stamp' = stamp + 1
  BY DEF Effect, Replaced, TableInv, TypeOK, Drafts
<1>2. \A x \in Identities : x.stamp \in Nat /\ x.at \in Nat /\ x.stamp <= stamp /\ x.at <= clock
  BY IdentityType DEF HookInv, Ordered
<1>3. \A x \in Identities' : x \in Identities \/ (Drafts(c, new) /\ x = Identity(Drafted(c)))
  BY EffectIdentities DEF HookInv
<1>4. Identity(Drafted(c)).stamp = stamp + 1 /\ Identity(Drafted(c)).at = clock
  BY DraftedIdentity
<1> QED
  BY <1>1, <1>2, <1>3, <1>4 DEF HookInv, Ordered

(* The calls, their ids and the table *)
LEMMA EffectBrings ==
  ASSUME TableInv, HookInv, NEW c \in Call, NEW new, Effect(c, new)
  PROVE  KeysUnique' /\ Bringing'
<1> USE DEF HookInv, At
<1>1. \A b \in Call : call'[b] = IF b = c THEN new ELSE call[b]
  BY DEF Effect, Replaced, TableInv, TypeOK
<1>2. /\ stamp \in Nat /\ \A r \in requests : r.stamp \in Nat /\ r.stamp <= stamp
      /\ \A b \in Call : call[b].write.stamp \in Nat /\ call[b].write.stamp <= stamp
  BY DEF TableInv, TypeOK, CallState, Record
<1>3. CASE Quiet(c, new)
  BY <1>1, <1>3 DEF Quiet, Rests, KeysUnique, Bringing, Recorded
<1>4. CASE Ends(c, new)
  <2>1. Recorded(new.write.stamp)
    <3>1. Latest \in requests /\ Latest \in Record /\ new.write = Reconciled(Latest)
      BY <1>4 DEF Ends, TableInv, TypeOK
    <3> QED
      BY <3>1, ReconciledType DEF Recorded
  <2> QED
    BY <1>1, <1>4, <2>1 DEF Ends, KeysUnique, Bringing, Recorded
<1>5. CASE Writes(c, new)
  <2>1. PICK r \in Record : Save(r) /\ Identity(r) = Identity(call[c].write)
    BY <1>5 DEF Writes
  <2>2. r.stamp = call[c].write.stamp
    BY <2>1, IdentityFields
  <2>3. KeysUnique' /\ \A id : Recorded(id)' <=> Recorded(id)
    BY <1>5, <2>1, <2>2, SavedIds DEF Writes, Bringing
  <2> QED
    BY <1>1, <1>5, <2>3 DEF Writes, Rests, Bringing
<1>6. CASE Drafts(c, new)
  <2>1. /\ new.pc = "decide" /\ new.key = call[c].key /\ new.write.key = call[c].key
        /\ new.write.stamp = stamp + 1
    BY <1>6, DraftingType, DraftedIdentity DEF Drafts
  <2>2. ~Recorded(stamp + 1)
    BY <1>2 DEF Recorded
  <2>3. \A b \in Call : call[b].write.stamp # stamp + 1
    BY <1>2
  <2> QED
    BY <1>1, <1>6, <2>1, <2>2, <2>3 DEF Drafts, KeysUnique, Bringing, Recorded
<1>7. CASE Inserts(c, new)
  <2>1. KeysUnique' /\ \A id : Recorded(id)' <=> Recorded(id) \/ id = call[c].write.stamp
    BY <1>7, SavedIds DEF Inserts
  <2>2. \A b \in Call : b # c /\ (At(b, "decide") \/ At(b, "dispatch"))
                         => call[b].write.stamp # call[c].write.stamp
    BY <1>7 DEF Inserts, Bringing
  <2>3. \/ Rests(new)
        \/ /\ new.pc = "dispatch" /\ new.write = call[c].write /\ new.key = call[c].write.key
           /\ call[c].write.status \notin Refused
    BY <1>7 DEF Inserts, Bringing
  <2> QED
    BY <1>1, <2>1, <2>2, <2>3 DEF Rests, Bringing
<1>8. CASE Fires(c, new)
  <2>1. new.pc = "answer" /\ Recorded(new.write.stamp)
    BY <1>8 DEF Fires, Bringing
  <2> QED
    BY <1>1, <1>8, <2>1 DEF Fires, KeysUnique, Bringing, Recorded
<1> QED
  BY <1>3, <1>4, <1>5, <1>6, <1>7, <1>8 DEF Effect

(* The records stay in the table. *)
LEMMA EffectRecords ==
  ASSUME TableInv, NEW c \in Call, NEW new, Effect(c, new), NEW id, Recorded(id)
  PROVE  Recorded(id)'
<1>1. ASSUME NEW r, Save(r) PROVE Recorded(id)'
  BY <1>1, SavedIds
<1> QED
  BY <1>1 DEF Effect, Quiet, Ends, Writes, Drafts, Inserts, Fires, Recorded

LEMMA EffectHooked ==
  ASSUME TableInv, HookInv, NEW c \in Call, NEW new, Effect(c, new)
  PROVE  Hooked'
<1> USE DEF HookInv, At
<1>1. \A b \in Call : call'[b] = IF b = c THEN new ELSE call[b]
  BY DEF Effect, Replaced, TableInv, TypeOK
<1>2. \A h \in hooks : Recorded(h.stamp)'
  BY EffectRecords DEF Hooked
<1>3. CASE Fires(c, new)
  <2>1. hooks' = hooks \cup {Fired(c)} /\ new.pc = "answer" /\ Fired(c).stamp = call[c].write.stamp
    BY <1>3 DEF Fires, Fired
  <2>2. PICK fired : fired = Fired(c)
    OBVIOUS
  <2>3. Recorded(fired.stamp)'
    BY <1>3, <2>1, <2>2, EffectRecords DEF Fires, Bringing
  <2>4. \A h \in hooks : h.stamp # Fired(c).stamp
    BY <1>3, <2>1 DEF Fires, Hooked
  <2>5. \A b \in Call : b # c /\ At(b, "dispatch") => call[b].write.stamp # Fired(c).stamp
    BY <1>3, <2>1 DEF Fires, Bringing
  <2> QED
    BY <1>1, <1>2, <2>1, <2>2, <2>3, <2>4, <2>5 DEF Hooked
<1>4. CASE Inserts(c, new)
  <2>1. hooks' = hooks /\ ~Recorded(call[c].write.stamp)
    BY <1>4 DEF Inserts, Bringing
  <2>2. \A h \in hooks : h.stamp # call[c].write.stamp
    BY <2>1 DEF Hooked
  <2>3. new.pc = "dispatch" => new.write = call[c].write
    BY <1>4 DEF Inserts, Rests
  <2> QED
    BY <1>1, <1>2, <2>1, <2>2, <2>3 DEF Hooked
<1>5. CASE ~Fires(c, new) /\ ~Inserts(c, new)
  <2>1. hooks' = hooks /\ new.pc # "dispatch"
    BY <1>5, DraftingType DEF Effect, Quiet, Ends, Writes, Drafts, Rests
  <2> QED
    BY <1>1, <1>2, <2>1 DEF Hooked
<1> QED
  BY <1>3, <1>4, <1>5

ApartNext(knew, asked) ==
  /\ knew <= stamp'
  /\ \A x \in Identities' : 1 <= x.stamp /\ x.stamp <= knew => x.at + Cooldown <= asked

(* What was apart stays apart: a new id is later than all that was known. *)
LEMMA EffectApart ==
  ASSUME TableInv, HookInv, NEW c \in Call, NEW new, Effect(c, new),
         NEW knew \in Nat, NEW asked, Apart(knew, asked)
  PROVE  ApartNext(knew, asked)
<1>1. stamp \in Nat /\ stamp' \in Nat /\ stamp <= stamp'
  BY DEF Effect, Replaced, TableInv, TypeOK
<1>2. \A x \in Identities' : x \in Identities \/ x.stamp = stamp + 1
  BY EffectIdentities, DraftedIdentity DEF HookInv
<1> QED
  BY <1>1, <1>2 DEF Apart, ApartNext

(* A call that is to dispatch left a cooldown after the latest request. *)
LEMMA DraftedApart ==
  ASSUME TableInv, HookInv, NEW c \in Call, NEW new, Drafts(c, new),
         Drafted(c).status \notin Refused
  PROVE  Apart(Latest.stamp, clock)
<1>1. Latest.stamp \in 0..stamp /\ stamp \in Nat /\ clock \in Nat
  BY LatestType DEF TableInv, TypeOK
<1>2. CASE requests = {}
  <2>1. Latest.stamp = 0
    BY <1>2, LatestOfTable, NoRecordType DEF TableInv
  <2> QED
    BY <1>1, <2>1, IdentityType DEF Apart
<1>3. CASE requests # {}
  <2>1. Latest \in requests /\ Latest.at \in Nat /\ Latest # NoRecord
    BY <1>3, LatestOfTable, NoRecordType DEF TableInv, TypeOK, Record
  <2>2. call[c].key = NoKey \/ Latest.key # call[c].key
    BY <2>1 DEF Drafts
  <2>3. Verdict(call[c]) \notin Refused
    BY DEF Drafted
  <2>4. ~(clock < Latest.at + Cooldown)
    BY <2>1, <2>2, <2>3 DEF Verdict, Refused
  <2>5. \A x \in Identities : x.stamp <= Latest.stamp => x.at <= Latest.at
    BY <2>1, IdentityType, IdentityFields DEF HookInv, Ordered
  <2> QED
    BY <1>1, <2>1, <2>4, <2>5, IdentityType, ModelAssumption DEF Apart
<1> QED
  BY <1>2, <1>3

LEMMA EffectSpaced ==
  ASSUME TableInv, HookInv, NEW c \in Call, NEW new, Effect(c, new)
  PROVE  Spaced'
<1> USE DEF At
<1>1. \A b \in Call : call'[b] = IF b = c THEN new ELSE call[b]
  BY DEF Effect, Replaced, TableInv, TypeOK
<1>2. /\ \A b \in Call : call[b].knew \in Nat
      /\ \A h \in hooks : h.knew \in Nat
      /\ Latest.stamp \in Nat
  BY LatestType DEF TableInv, TypeOK, CallState, Hook
<1>3. \A b \in Call : (At(b, "decide") \/ At(b, "dispatch")) /\ call[b].write.status \notin Refused
                        => ApartNext(call[b].knew, call[b].write.at)
  BY <1>2, EffectApart DEF HookInv, Spaced
<1>4. (new.pc = "decide" \/ new.pc = "dispatch") /\ new.write.status \notin Refused
        => ApartNext(new.knew, new.write.at)
  <2>1. CASE Drafts(c, new)
    <3>1. new.knew = Latest.stamp /\ new.write = Drafted(c) /\ Drafted(c).at = clock
      BY <2>1, DraftingType, DraftedIdentity DEF Drafts
    <3>2. Drafted(c).status \notin Refused => Apart(Latest.stamp, clock)
      BY <2>1, DraftedApart
    <3> QED
      BY <1>2, <3>1, <3>2, EffectApart
  <2>2. CASE Inserts(c, new)
    BY <1>3, <2>2 DEF Inserts, Rests
  <2>3. CASE ~Drafts(c, new) /\ ~Inserts(c, new)
    BY <2>3 DEF Effect, Quiet, Ends, Writes, Fires, Rests
  <2> QED
    BY <2>1, <2>2, <2>3
<1>5. \A b \in Call : (At(b, "decide")' \/ At(b, "dispatch")') /\ call'[b].write.status \notin Refused
                        => ApartNext(call'[b].knew, call'[b].write.at)
  BY <1>1, <1>3, <1>4
<1>6. \A h \in hooks' : ApartNext(h.knew, h.asked) /\ h.asked <= h.at
  <2>1. \A h \in hooks : ApartNext(h.knew, h.asked) /\ h.asked <= h.at
    BY <1>2, EffectApart DEF HookInv, Spaced
  <2>2. CASE Fires(c, new)
    <3>1. ApartNext(Fired(c).knew, Fired(c).asked)
      BY <1>3, <2>2 DEF Fires, Fired, HookInv, Bringing
    <3>2. Fired(c).asked <= Fired(c).at
      BY IdentityType, IdentityFields DEF Fired, HookInv, Ordered
    <3> QED
      BY <2>1, <2>2, <3>1, <3>2 DEF Fires
  <2>3. CASE ~Fires(c, new)
    BY <2>1, <2>3 DEF Effect, Quiet, Ends, Writes, Drafts, Inserts
  <2> QED
    BY <2>2, <2>3
<1> QED
  BY <1>5, <1>6 DEF Spaced, Apart, ApartNext, At

(* The surroundings end calls and let time pass, and leave the rest alone. *)
LEMMA SurroundingsHooks ==
  ASSUME TableInv, HookInv, Surroundings \/ UNCHANGED observed
  PROVE  HookInv'
<1>1. /\ UNCHANGED <<requests, stamp, hooks>> /\ clock <= clock' /\ clock \in Nat /\ clock' \in Nat
      /\ call' = call \/ call' = [c \in Call |-> Idle]
  BY DEF Surroundings, Change, Overlay, BootWorker, Heartbeat, BootControl, Tick, observed,
     TableInv, TypeOK
<1>2. \A c \in Call : call'[c] = call[c] \/ call'[c] = Idle
  BY <1>1
<1>3. Identities' \subseteq Identities
  BY <1>1, <1>2, IdleType DEF Identities, Identity, Asked
<1>4. Ordered'
  BY <1>1, <1>3, IdentityType DEF HookInv, Ordered
<1>5. \A knew, asked : Apart(knew, asked) => Apart(knew, asked)'
  BY <1>1, <1>3 DEF Apart
<1>6. \A id : Recorded(id)' <=> Recorded(id)
  BY <1>1 DEF Recorded
<1>7. KeysUnique' /\ Bringing' /\ Hooked'
  BY <1>1, <1>2, <1>6, IdleType DEF HookInv, KeysUnique, Bringing, Hooked, At
<1>8. Spaced'
  BY <1>1, <1>2, <1>5, IdleType DEF HookInv, Spaced, At
<1> QED
  BY <1>4, <1>7, <1>8 DEF HookInv

(* However requests are repeated, delayed and interleaved, and whenever the *)
(* control service restarts among them: one hook for a key, and a cooldown  *)
(* between a hook and the requests that its call knew of.                   *)
THEOREM HooksAreDisciplined == Spec => []HooksDisciplined
<1>1. TableInv /\ HookInv /\ [Next]_vars => HookInv'
  <2>1. ASSUME TableInv, HookInv, NEW c \in Call, NEW new, Effect(c, new) PROVE HookInv'
    BY <2>1, EffectOrdered, EffectBrings, EffectHooked, EffectSpaced DEF HookInv
  <2> QED
    BY <2>1, Steps, SurroundingsHooks
<1>2. TableInv /\ HookInv => HooksDisciplined
  <2> SUFFICES ASSUME TableInv, HookInv PROVE HooksDisciplined
    OBVIOUS
  <2>1. OneHookPerKey
    <3> SUFFICES ASSUME NEW h \in hooks, NEW g \in hooks, h.key = g.key, h.key # NoKey
                 PROVE  h = g
      BY DEF OneHookPerKey
    <3>1. PICK r, s \in requests : r.stamp = h.stamp /\ s.stamp = g.stamp
      BY DEF HookInv, Hooked, Recorded
    <3>2. r.key = h.key /\ s.key = g.key
      BY <3>1, IdentityType, IdentityFields DEF HookInv, Ordered
    <3> QED
      BY <3>1, <3>2 DEF HookInv, KeysUnique, Hooked
  <2>2. HooksSpaced
    <3> SUFFICES ASSUME NEW h \in hooks, NEW g \in hooks, h.stamp < g.stamp, h.stamp <= g.knew
                 PROVE  g.at >= h.asked + Cooldown
      BY DEF HooksSpaced
    <3>1. h.stamp >= 1 /\ h \in Hook /\ g \in Hook
      BY DEF HookInv, Hooked, Recorded, TableInv, TypeOK
    <3>2. h.asked + Cooldown <= g.asked /\ g.asked <= g.at
      BY <3>1, IdentityType, IdentityFields DEF HookInv, Spaced, Apart
    <3> QED
      BY <3>1, <3>2, ModelAssumption DEF Hook
  <2> QED
    BY <2>1, <2>2 DEF HooksDisciplined
<1> QED
  BY <1>1, <1>2, TableInit, TableKept, HookInit, PTL DEF Spec
=============================================================================
