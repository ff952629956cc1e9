---------------------------- MODULE WorkerJournal ----------------------------
(***************************************************************************)
(* How an evaluation of the event gate is journaled, entry by entry, and   *)
(* read back (bot/src/runtime/worker-event-gate/journal.ts and             *)
(* bot/src/replay/end-to-end-replay.ts).  A crash between two entries      *)
(* leaves a prefix.  Of an entry's output only what the replay tells apart *)
(* is kept.                                                                *)
(***************************************************************************)
EXTENDS EventGate

GateStages == StageOrder \o LaterStages
IsBlocked(ev) == ev.stage # "none"

GateEntry(ev, stage) == [record |-> "gate", stage |-> stage, blocked |-> ev.stage = stage]
GateEntries(ev) == [i \in DOMAIN GateStages |-> GateEntry(ev, GateStages[i])]

SuppressionEntries(ev) ==
  IF IsBlocked(ev) THEN <<[record |-> "suppression", stage |-> ev.stage]>> ELSE <<>>

ResultEntries(ev) ==
  <<[record |-> "routing", route |-> ev.route], [record |-> "model_result", route |-> ev.route],
    [record |-> "write_effect", effect |-> ev.effect]>>

EventEntry(ev) == <<[record |-> "event", event |-> ev.event, at |-> ev.at]>>

(* Mutant: the results are journaled before the stages. *)
EntriesResultsFirst(ev) ==
  EventEntry(ev) \o ResultEntries(ev) \o GateEntries(ev) \o SuppressionEntries(ev)

(* buildWorkerEventGateJournalEntries, in the order they are appended *)
Entries(ev) ==
  EventEntry(ev) \o GateEntries(ev) \o SuppressionEntries(ev) \o ResultEntries(ev)

-----------------------------------------------------------------------------
(* A journal is read in an order of its entries, given by a number for      *)
(* each: as they were appended, or sorted by compareJournalEntries, which   *)
(* within one trace and timestamp goes by the text of the stage name, and   *)
(* leaves entries of one name in their order.                               *)
NameOrder ==
  <<"event", "batch_debounce", "convergence_relevance", "cooldown", "dedupe", "integrity",
    "model_promotion", "post_model_routing", "validity", "model_result", "routing",
    "suppression", "write_effect">>
NameOf(entry) == IF entry.record = "gate" THEN entry.stage ELSE entry.record
NameRank(entry) == CHOOSE n \in DOMAIN NameOrder : NameOrder[n] = NameOf(entry)

AsAppended(entries) == [i \in DOMAIN entries |-> i]
ByName(entries) == [i \in DOMAIN entries |-> NameRank(entries[i]) * Len(entries) + i]

-----------------------------------------------------------------------------
Blocking(entry) ==
  \/ entry.record = "gate" /\ entry.blocked
  \/ entry.record = "suppression"

LastRead(S, order) == CHOOSE i \in S : \A j \in S : order[j] <= order[i]

(* reconstructWorkerEventGateReplay: a later entry overrides an earlier one *)
Replay(entries, order) ==
  LET gates == {i \in DOMAIN entries : entries[i].record = "gate"}
      blocks == {i \in DOMAIN entries : Blocking(entries[i])}
      writes == {i \in DOMAIN entries : entries[i].record = "write_effect"}
  IN  [blocked |-> blocks # {},
       stage   |-> IF blocks = {} THEN "none" ELSE entries[LastRead(blocks, order)].stage,
       path    |-> {entries[i].stage : i \in gates},
       effect  |-> IF writes = {} THEN "unknown" ELSE entries[LastRead(writes, order)].effect]

(* A journal torn after any entry, as appended and as the end-to-end replay *)
(* sorts it.                                                                *)
TornReplays(ev) ==
  LET entries == Entries(ev)
      torn == {SubSeq(entries, 1, n) : n \in 0..Len(entries)}
  IN  {Replay(journal, AsAppended(journal)) : journal \in torn}
        \cup {Replay(journal, ByName(journal)) : journal \in torn}
=============================================================================
