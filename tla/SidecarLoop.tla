----------------------------- MODULE SidecarLoop -----------------------------
(***************************************************************************)
(* The worker's sidecar loop (runtime/sidecar/worker-loop.ts): a discovery *)
(* tick asks an external worker for tokens and keeps the accepted ones in  *)
(* a registry, a monitor tick observes the registry's active candidates,   *)
(* and both append what they find to one journal file, through one         *)
(* FileSystemJournalWriter (journal-writer/writer.ts).                     *)
(*                                                                         *)
(* A step runs from one await to the next.  The ticks are exclusive each   *)
(* on its own but interleave with each other at the awaits of append: the  *)
(* directory is made if it is missing, then whatever the buffer holds is   *)
(* taken out of it and written.                                            *)
(***************************************************************************)
EXTENDS Integers, Sequences, FiniteSets, Functions

CONSTANTS
  Tokens,               \* sequence of the tokens, as they sort
  Answers,              \* what the discovery worker may answer: sequences of RawCandidate
  MaxTime, MaxTicks, MaxFaults   \* bounds of the model

(* The worker's candidate: `level` is its observationCompleteness in        *)
(* percent.                                                                 *)
RawCandidate ==
  [token : Range(Tokens), level : 0..100, recommendation : {"monitor", "ignore", "defer"}, ttl : Nat \ {0}]

VARIABLES
  loop,                 \* the journal writer and the two ticks: see Loop
  file,                 \* the journal's entries, in the order they were written
  registry,             \* token -> candidate, of the tokens it holds
  starting,             \* the discovery tick is the one of tickAll
  stopped, clock,
  ticks, faults,        \* how many ticks began; how many appends or processes failed
  early,                \* history: the entries appended while the directory was missing
  reported, lost        \* history: entries whose append succeeded; entries never written

vars == <<loop, file, registry, starting, stopped, clock, ticks, faults, early, reported, lost>>

(* A tick asks its worker, makes the directory for its current entry, or    *)
(* writes `lines`; `todo` are the candidates it has still to handle, and    *)
(* `since` is the time it took them.                                        *)
Worker == {"discovery", "monitor"}
Idle == [at |-> "idle", current |-> 0, lines |-> <<>>, todo |-> <<>>, since |-> 0]
Asking == [Idle EXCEPT !.at = "asking"]
Loop(directory, entries) ==
  [directory |-> directory, buffer |-> <<>>, entries |-> entries,
   task |-> [w \in Worker |-> IF w = "discovery" THEN Asking ELSE Idle]]

At(w, at) == loop.task[w].at = at
Ended(s, w) == [s EXCEPT !.task[w] = Idle]

(* Array.filter: the members of s that are in T *)
Kept(s, T) ==
  LET kept[n \in 0 .. Len(s)] ==
        IF n = 0 THEN <<>>
        ELSE IF s[n] \in T THEN Append(kept[n - 1], s[n]) ELSE kept[n - 1]
  IN  kept[Len(s)]

-----------------------------------------------------------------------------
(* WatchCandidateRegistry.  The evidence references and the time of         *)
(* creation are left out.                                                   *)

(* upsertCandidate: the expiry never moves back. *)
Upserted(c) ==
  IF c.token \in DOMAIN registry /\ registry[c.token].expires > c.expires
  THEN [c EXCEPT !.expires = registry[c.token].expires] ELSE c

Stored(c) == [t \in DOMAIN registry \cup {c.token} |-> IF t = c.token THEN Upserted(c) ELSE registry[t]]

Pruned(reg) == [t \in {u \in DOMAIN reg : reg[u].expires > clock} |-> reg[t]]

(* getActiveCandidates, sorted by token *)
Active(reg) ==
  LET tokens == Kept(Tokens, DOMAIN Pruned(reg))
  IN  [i \in DOMAIN tokens |-> reg[tokens[i]]]

(* parseDowntrendWatchWorkerOutput, and the candidates the tick accepts *)
Parsed(raw) ==
  [token |-> raw.token, level |-> raw.level, monitored |-> raw.recommendation = "monitor",
   updatedAt |-> clock, expires |-> clock + raw.ttl]
Accepted(c) == c.monitored /\ c.level >= 70
Accepting(answer) ==
  LET parsed == [i \in DOMAIN answer |-> Parsed(answer[i])]
  IN  Kept(parsed, {c \in Range(parsed) : Accepted(c)})

(* deriveState without a data quality, which the worker has not *)
DeriveState(c) ==
  IF c.level < 70 THEN "invalidated"
  ELSE IF c.level < 80 THEN "weak_reclaim"
  ELSE IF c.level < 90 THEN "reclaim_attempt" ELSE "structure_shift_possible"

Ingestion(c, id) ==
  [id |-> id, kind |-> "candidate", token |-> c.token, time |-> c.updatedAt, state |-> "none",
   active |-> TRUE]
Observation(c, since, id) ==
  [id |-> id, kind |-> "observation", token |-> c.token, time |-> clock, state |-> DeriveState(c),
   active |-> c.expires > since]

-----------------------------------------------------------------------------
(* append: the entry is pushed and, if the directory exists, the whole      *)
(* buffer is taken out and given to appendFile, whoever pushed it.          *)

(* Mutant: flush empties the buffer only once its lines are written. *)
FlushedKept(s, lines) == [s EXCEPT !.buffer = lines]

Flushed(s, lines) == [s EXCEPT !.buffer = <<>>]

Push(s, w, entry, todo, since) ==
  LET lines == Append(s.buffer, entry)
      waiting == [at |-> "directory", current |-> entry.id, lines |-> <<>>,
                  todo |-> todo, since |-> since]
      counted == [s EXCEPT !.entries = @ + 1]
  IN  IF s.directory
      THEN Flushed([counted EXCEPT !.task[w] = [waiting EXCEPT !.at = "writing", !.lines = lines]], lines)
      ELSE [counted EXCEPT !.buffer = lines, !.task[w] = waiting]

(* runOnce of the monitor over the candidates it took *)
Observing(s, todo, since) ==
  IF todo = <<>> THEN Ended(s, "monitor")
  ELSE Push(s, "monitor", Observation(Head(todo), since, s.entries + 1), Tail(todo), since)

(* The discovery tick over its accepted candidates *)
Ingesting(s, todo) ==
  Push(s, "discovery", Ingestion(Upserted(Head(todo)), s.entries + 1), Tail(todo), 0)

(* A discovery tick has ended.  tickAll goes on: it prunes, and begins a    *)
(* monitor tick.                                                            *)
AfterDiscovery(s, reg) ==
  /\ starting' = FALSE
  /\ IF ~starting THEN registry' = reg /\ loop' = s
     ELSE /\ registry' = Pruned(reg)
          /\ loop' = IF stopped \/ s.task["monitor"] # Idle THEN s
                     ELSE Observing(s, Active(reg), clock)

(* What a discovery tick does with the candidates it has left *)
Ingest(s, todo) ==
  IF todo = <<>> THEN AfterDiscovery(Ended(s, "discovery"), Pruned(registry))
  ELSE registry' = Stored(Head(todo)) /\ loop' = Ingesting(s, todo) /\ UNCHANGED starting

Continue(w, s) ==
  IF w = "discovery" THEN Ingest(s, s.task[w].todo)
  ELSE /\ loop' = Observing(s, s.task[w].todo, s.task[w].since)
       /\ UNCHANGED <<registry, starting>>

Abort(w, s) ==
  IF w = "discovery" THEN AfterDiscovery(Ended(s, w), registry)
  ELSE loop' = Ended(s, w) /\ UNCHANGED <<registry, starting>>

Early == early' = early \cup (IF loop.directory THEN {} ELSE loop.entries + 1 .. loop'.entries)

-----------------------------------------------------------------------------
(* The timers.  A tick that is in progress makes its timer's call return.   *)
DiscoveryTimer ==
  /\ ~stopped /\ ticks < MaxTicks /\ At("discovery", "idle")
  /\ ticks' = ticks + 1
  /\ loop' = [loop EXCEPT !.task["discovery"] = Asking]
  /\ UNCHANGED <<file, registry, starting, stopped, clock, faults, early, reported, lost>>

MonitorTimer ==
  /\ ~stopped /\ ticks < MaxTicks /\ At("monitor", "idle")
  /\ ticks' = ticks + 1
  /\ registry' = Pruned(registry)
  /\ loop' = Observing(loop, Active(registry), clock)
  /\ Early
  /\ UNCHANGED <<file, starting, stopped, clock, faults, reported, lost>>

(* The worker answers in time, with candidates or with nonsense; or it      *)
(* fails, or the timeout abandons it: a later answer goes nowhere.          *)
DiscoveryAnswers ==
  /\ At("discovery", "asking")
  /\ \E answer \in Answers : Ingest(loop, Accepting(answer))
  /\ Early
  /\ UNCHANGED <<file, stopped, clock, ticks, faults, reported, lost>>

DiscoveryFails ==
  /\ At("discovery", "asking")
  /\ Abort("discovery", loop)
  /\ Early
  /\ UNCHANGED <<file, stopped, clock, ticks, faults, reported, lost>>

DirectoryMade(w) ==
  /\ At(w, "directory")
  /\ loop' = Flushed([loop EXCEPT !.directory = TRUE, !.task[w].at = "writing",
                                  !.task[w].lines = loop.buffer], loop.buffer)
  /\ UNCHANGED <<file, registry, starting, stopped, clock, ticks, faults, early, reported, lost>>

LinesWritten(w) ==
  /\ At(w, "writing")
  /\ file' = file \o loop.task[w].lines
  /\ reported' = reported \cup {loop.task[w].current}
  /\ Continue(w, loop)
  /\ Early
  /\ UNCHANGED <<stopped, clock, ticks, faults, lost>>

Ids(lines) == {e.id : e \in Range(lines)}

(* The directory cannot be made, and the entry stays in the buffer; or      *)
(* appendFile fails, and its lines are gone.                                *)
AppendFails(w) ==
  /\ loop.task[w].at \in {"directory", "writing"} /\ faults < MaxFaults
  /\ faults' = faults + 1
  /\ lost' = lost \cup Ids(loop.task[w].lines)
  /\ Abort(w, loop)
  /\ Early
  /\ UNCHANGED <<file, stopped, clock, ticks, reported>>

Stop ==
  /\ ~stopped
  /\ stopped' = TRUE
  /\ UNCHANGED <<loop, file, registry, starting, clock, ticks, faults, early, reported, lost>>

(* The process ends, by itself or after stop(), and the next one begins:    *)
(* what was being written is on file or lost, the registry is empty.        *)
Restart ==
  /\ faults < MaxFaults
  /\ faults' = faults + 1
  /\ file' \in LET discovered == loop.task["discovery"].lines
                   observed == loop.task["monitor"].lines
               IN  {file, file \o discovered, file \o observed,
                    file \o discovered \o observed, file \o observed \o discovered}
  /\ lost' = (1 .. loop.entries) \ Ids(file')
  /\ loop' = Loop(loop.directory, loop.entries)
  /\ registry' = <<>> /\ starting' = TRUE /\ stopped' = FALSE
  /\ UNCHANGED <<clock, ticks, early, reported>>

Tick ==
  /\ clock < MaxTime
  /\ clock' = clock + 1
  /\ UNCHANGED <<loop, file, registry, starting, stopped, ticks, faults, early, reported, lost>>

Init ==
  /\ loop \in {Loop(directory, 0) : directory \in BOOLEAN}
  /\ file = <<>> /\ registry = <<>>
  /\ starting = TRUE /\ stopped = FALSE /\ clock = 0
  /\ ticks = 0 /\ faults = 0
  /\ early = {} /\ reported = {} /\ lost = {}

Next ==
  \/ DiscoveryTimer \/ MonitorTimer \/ DiscoveryAnswers \/ DiscoveryFails
  \/ \E w \in Worker : DirectoryMade(w) \/ LinesWritten(w) \/ AppendFails(w)
  \/ Stop \/ Restart \/ Tick

Spec == Init /\ [][Next]_vars

-----------------------------------------------------------------------------
(* Every entry is in one place: the buffer, one write, the file, or lost.   *)
EachOnce ==
  LET places == loop.buffer \o file \o loop.task["discovery"].lines \o loop.task["monitor"].lines
  IN  \A id \in 1 .. loop.entries :
        Cardinality({i \in DOMAIN places : places[i].id = id}) + (IF id \in lost THEN 1 ELSE 0) = 1

(* The journal of the sidecar is true to its ticks, however they interleave *)
(* at their appends and fail or restart there.  An entry is written once or *)
(* lost; one whose append succeeded is on file, and the entries of a kind   *)
(* are in the order of their times, if the directory existed when they were *)
(* appended; and what is observed was accepted, and active when the monitor *)
(* took it, though discovery replaces and drops candidates meanwhile.       *)
SidecarJournalTrue ==
  /\ EachOnce
  /\ reported \subseteq Ids(file) \cup early
  /\ \A i, j \in DOMAIN file :
       i < j /\ file[i].kind = file[j].kind /\ {file[i].id, file[j].id} \cap early = {}
         => file[i].time <= file[j].time
  /\ \A i \in DOMAIN file : file[i].active /\ file[i].state # "invalidated"
=============================================================================
