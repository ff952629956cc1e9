--------------------------- MODULE ControlPlaneBackup ---------------------------
(***************************************************************************)
(* Backup and restore of the control plane's tables                        *)
(* (bot/src/recovery/control-plane-backup.ts) by the scripts under          *)
(* bot/src/scripts, while the services go on writing.  A backup reads the   *)
(* nine tables one after the other, in no transaction; a restore replaces   *)
(* the rows of its environment in one transaction and may then be           *)
(* validated by a second backup.                                           *)
(*                                                                         *)
(* Of a row only its unique key, its revision and the row it refers to     *)
(* matter.  One script runs at a time, and one job of the services.        *)
(***************************************************************************)
EXTENDS Naturals, Sequences, FiniteSets, SequencesExt

CONSTANTS MaxWrites, MaxFaults \* bounds of the model

VARIABLES
  db,        \* the committed rows, by table
  schema,    \* what inspectSchemaStatus says of it
  job,       \* what a service is doing
  mem,       \* the version the control service takes for active
  writes,    \* rows written by services: the next key and revision
  op,        \* the script that runs
  file,      \* the backup
  outcome,   \* of the restore
  faults,
  torn, raced \* history: a service wrote while the backup was taken; since
              \* the restore began

vars == <<db, schema, job, mem, writes, op, file, outcome, faults, torn, raced>>

-----------------------------------------------------------------------------
(* The tables, in the order in which they are read and inserted *)
CaptureOrder == <<"versions", "active", "log", "visibility", "requests", "alerts", "events",
                  "audits", "promotions">>

(* Mutant: the events are inserted before their alerts. *)
RestoreOrderEventsFirst == <<"versions", "active", "log", "visibility", "requests", "events", "alerts",
                             "audits", "promotions">>
RestoreOrder == CaptureOrder
DeleteOrder == <<"audits", "promotions", "events", "alerts", "requests", "visibility", "log",
                 "active", "versions">>
Table == ToSet(CaptureOrder)

NoRows == [t \in Table |-> {}]
First == [key |-> 1, rev |-> 0, ref |-> 1]
NoFile == [rows |-> NoRows, schema |-> "none"]
NoJob == [name |-> "none", at |-> 1, made |-> 0]
NoScript == [pc |-> "idle", at |-> 1, rows |-> NoRows, schema |-> "none", gone |-> NoRows, put |-> NoRows]

Keys(rows) == {row.key : row \in rows}

Init ==
  /\ db = [t \in Table |-> IF t \in {"audits", "promotions"} THEN {} ELSE {First}]
  /\ schema \in {"ready", "migration_required"}
  /\ job = NoJob /\ mem = 1 /\ writes = 1
  /\ op = NoScript /\ file = NoFile /\ outcome = "none" /\ faults = 0
  /\ torn = FALSE /\ raced = FALSE

-----------------------------------------------------------------------------
(* The services write table after table: a patch, a mutation of the overlay *)
(* from the version in memory, a heartbeat, a restart request, an alert     *)
(* with its event, a promotion with its audit.                              *)
Jobs ==
  [patch |-> <<"versions", "active", "log">>, overlay |-> <<"active", "log">>,
   heartbeat |-> <<"visibility">>, restart |-> <<"requests", "requests", "audits">>,
   alert |-> <<"alerts", "events">>, promotion |-> <<"promotions", "audits">>]

BeginJob(name) ==
  /\ job = NoJob /\ writes + Len(Jobs[name]) <= MaxWrites + 1
  /\ job' = [name |-> name, at |-> 1, made |-> 0]
  /\ UNCHANGED <<db, schema, mem, writes, op, file, outcome, faults, torn, raced>>

(* What the job writes next; its first row is what the others refer to.  An *)
(* alert may be one that exists.                                            *)
NextTable == Jobs[job.name][job.at]
KeysToWrite ==
  CASE NextTable \in {"active", "visibility"} -> {1}
    [] NextTable = "alerts" -> {1, writes + 1}
    [] NextTable = "requests" /\ job.at = 2 -> {job.made}
    [] OTHER -> {writes + 1}
RowOf(key) ==
  [key |-> key, rev |-> writes,
   ref |-> CASE NextTable = "active" /\ job.name = "overlay" -> mem
             [] NextTable \in {"active", "events"} /\ job.name # "overlay" -> job.made
             [] OTHER -> 1]

(* A write waits for the transaction that deleted or inserted its row, or   *)
(* deleted the alert it refers to.                                          *)
Waits(row) ==
  \/ row.key \in Keys(op.gone[NextTable] \cup op.put[NextTable])
  \/ NextTable = "events" /\ row.ref \in Keys(op.gone["alerts"])

(* The foreign key of the events *)
Refers(row) == NextTable = "events" => row.ref \in Keys(db["alerts"])

Write(key) ==
  LET row == RowOf(key)
  IN  /\ job # NoJob /\ ~Waits(row) /\ Refers(row)
      /\ db' = [db EXCEPT ![NextTable] = {r \in @ : r.key # key} \cup {row}]
      /\ writes' = writes + 1
      /\ mem' = IF NextTable = "active" THEN row.ref ELSE mem
      /\ job' = IF job.at = Len(Jobs[job.name]) THEN NoJob
                ELSE [job EXCEPT !.at = @ + 1, !.made = IF job.at = 1 THEN key ELSE @]
      /\ torn' = (torn \/ op.pc = "capturing")
      /\ raced' = (raced \/ op.pc \in {"deleting", "inserting"} \/ outcome # "none")
      /\ UNCHANGED <<schema, op, file, outcome, faults>>

(* A write fails, by the foreign key or otherwise, and the job with it. *)
WriteFails ==
  /\ job # NoJob
  /\ \/ \E key \in KeysToWrite : ~Waits(RowOf(key)) /\ ~Refers(RowOf(key)) /\ UNCHANGED faults
     \/ faults < MaxFaults /\ faults' = faults + 1
  /\ job' = NoJob
  /\ UNCHANGED <<db, schema, mem, writes, op, file, outcome, torn, raced>>

(* A deployment brings migrations, or they are applied. *)
SchemaChanges ==
  /\ faults < MaxFaults /\ faults' = faults + 1
  /\ schema' = IF schema = "ready" THEN "migration_required" ELSE "ready"
  /\ UNCHANGED <<db, job, mem, writes, op, file, outcome, torn, raced>>

-----------------------------------------------------------------------------
(* captureControlPlaneBackup: the schema's status, which may be any, then   *)
(* one table after the other                                               *)
BeginCapture ==
  /\ op.pc = "idle" /\ file = NoFile
  /\ op' = [NoScript EXCEPT !.pc = "capturing", !.schema = schema]
  /\ torn' = FALSE
  /\ UNCHANGED <<db, schema, job, mem, writes, file, outcome, faults, raced>>

CaptureTable ==
  /\ op.pc \in {"capturing", "recapturing"} /\ op.at <= Len(CaptureOrder)
  /\ LET t == CaptureOrder[op.at]
     IN  op' = [op EXCEPT !.at = @ + 1, !.rows[t] = db[t]]
  /\ UNCHANGED <<db, schema, job, mem, writes, file, outcome, faults, torn, raced>>

SaveFile ==
  /\ op.pc = "capturing" /\ op.at > Len(CaptureOrder)
  /\ file' = [rows |-> op.rows, schema |-> op.schema]
  /\ op' = NoScript
  /\ UNCHANGED <<db, schema, job, mem, writes, outcome, faults, torn, raced>>

-----------------------------------------------------------------------------
(* restoreControlPlaneBackup: with the schema ready, a transaction deletes  *)
(* the tables' rows and inserts the backup's.                               *)
BeginRestore ==
  /\ op.pc = "idle" /\ file # NoFile /\ outcome = "none"
  /\ IF schema = "ready" THEN op' = [NoScript EXCEPT !.pc = "deleting"] /\ UNCHANGED outcome
     ELSE outcome' = "not_ready" /\ UNCHANGED op
  /\ UNCHANGED <<db, schema, job, mem, writes, file, faults, torn, raced>>

(* deleteEnvironmentRows; an alert's events go with it. *)
GoneWith(t, u) ==
  IF u = t THEN db[u]
  ELSE {row \in db[u] : t = "alerts" /\ u = "events" /\ row.ref \in Keys(db["alerts"])}

DeleteTable ==
  /\ op.pc = "deleting"
  /\ LET last == op.at = Len(DeleteOrder)
     IN  op' = [op EXCEPT
           !.gone = [u \in Table |-> op.gone[u] \cup GoneWith(DeleteOrder[op.at], u)],
           !.pc = IF last THEN "inserting" ELSE @, !.at = IF last THEN 1 ELSE @ + 1]
  /\ UNCHANGED <<db, schema, job, mem, writes, file, outcome, faults, torn, raced>>

(* Rows of the transaction's own view; `others` are what services inserted  *)
(* since the table was deleted.                                             *)
Others(t) == db[t] \ op.gone[t]
Clashes(t) == Others(t) # {}
Orphans(t) ==
  /\ t = "events"
  /\ \E e \in file.rows["events"] : e.ref \notin Keys(op.put["alerts"] \cup Others("alerts"))

InsertTable ==
  /\ op.pc = "inserting" /\ op.at <= Len(RestoreOrder)
  /\ LET t == RestoreOrder[op.at]
     IN  /\ Keys(file.rows[t]) \cap Keys(Others(t)) = {} /\ ~Orphans(t)
         /\ op' = [op EXCEPT !.put[t] = file.rows[t], !.at = @ + 1]
  /\ UNCHANGED <<db, schema, job, mem, writes, file, outcome, faults, torn, raced>>

(* ROLLBACK when the database refuses a row: an event without its alert, or *)
(* a row some of whose unique values a service took in the meantime.        *)
Refused ==
  /\ op.pc = "inserting" /\ op.at <= Len(RestoreOrder)
  /\ LET t == RestoreOrder[op.at] IN Orphans(t) \/ (file.rows[t] # {} /\ Clashes(t))
  /\ op' = NoScript /\ outcome' = "refused"
  /\ UNCHANGED <<db, schema, job, mem, writes, file, faults, torn, raced>>

(* COMMIT; the script ends, or validateControlPlaneBackupRoundTrip reads    *)
(* the tables again.                                                        *)
Commit(validated) ==
  /\ op.pc = "inserting" /\ op.at > Len(RestoreOrder)
  /\ db' = [t \in Table |-> (db[t] \ op.gone[t]) \cup op.put[t]]
  /\ op' = IF validated THEN [NoScript EXCEPT !.pc = "recapturing", !.schema = schema] ELSE NoScript
  /\ outcome' = "restored"
  /\ UNCHANGED <<schema, job, mem, writes, file, faults, torn, raced>>

(* A script's call fails, or the script dies: there is no backup, and the   *)
(* transaction is rolled back.                                              *)
ScriptFails ==
  /\ op.pc # "idle" /\ faults < MaxFaults
  /\ faults' = faults + 1
  /\ op' = NoScript
  /\ outcome' = IF op.pc \in {"deleting", "inserting"} THEN "failed" ELSE outcome
  /\ UNCHANGED <<db, schema, job, mem, writes, file, torn, raced>>

-----------------------------------------------------------------------------
(* summarizeControlPlaneBackup and the comparison: counts and schema, then  *)
(* contents                                                                 *)
Statuses == {"exact_match", "content_mismatch", "count_or_metadata_mismatch"}
Counts(rows) == [t \in Table |-> Cardinality(rows[t])]
Status(before, after) ==
  IF Counts(before.rows) # Counts(after.rows) \/ before.schema # after.schema
  THEN "count_or_metadata_mismatch"
  ELSE IF before.rows = after.rows THEN "exact_match" ELSE "content_mismatch"

Judge ==
  /\ op.pc = "recapturing" /\ op.at > Len(CaptureOrder)
  /\ outcome' = Status(file, [rows |-> op.rows, schema |-> op.schema])
  /\ op' = NoScript
  /\ UNCHANGED <<db, schema, job, mem, writes, file, faults, torn, raced>>

-----------------------------------------------------------------------------
Services ==
  \/ \E name \in DOMAIN Jobs : BeginJob(name)
  \/ job # NoJob /\ \E key \in KeysToWrite : Write(key)
  \/ WriteFails \/ SchemaChanges

Next ==
  \/ Services
  \/ BeginCapture \/ CaptureTable \/ SaveFile
  \/ BeginRestore \/ DeleteTable \/ InsertTable \/ Refused
  \/ \E validated \in BOOLEAN : Commit(validated)
  \/ Judge \/ ScriptFails

Spec == Init /\ [][Next]_vars

-----------------------------------------------------------------------------
(* The configuration in force is one of the versions, and events have their *)
(* alerts.                                                                  *)
Sound(rows) ==
  /\ \A row \in rows["active"] : row.ref \in Keys(rows["versions"])
  /\ \A row \in rows["events"] : row.ref \in Keys(rows["alerts"])

(* Unless a service writes after the restore has begun, a backup taken     *)
(* while no service wrote is never refused; the tables are then the         *)
(* backup's, all of them, and sound if no service wrote while it was taken; *)
(* and the validation says exact_match unless the schema's status differs.  *)
(* Before a restore commits the tables are sound, whether it is refused,    *)
(* fails or dies; and events always have their alerts.                      *)
RestoreFaithful ==
  /\ outcome = "refused" => torn \/ raced
  /\ outcome \in {"restored"} \cup Statuses /\ ~raced =>
       /\ db = file.rows
       /\ Sound(db) \/ torn
       /\ outcome # "content_mismatch"
       /\ outcome = "count_or_metadata_mismatch" => file.schema # "ready" \/ faults > 0
  /\ outcome \in {"none", "not_ready", "refused", "failed"} => Sound(db)
  /\ \A row \in db["events"] : row.ref \in Keys(db["alerts"])
=============================================================================
