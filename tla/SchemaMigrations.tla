---------------------------- MODULE SchemaMigrations ----------------------------
(***************************************************************************)
(* Schema migrations (bot/src/persistence/schema-migrations.ts).  Each of   *)
(* the services migrates before its deployment (preDeployCommand of         *)
(* render.yaml), all at the same time and not all from the same release,    *)
(* and refuses to start unless the schema is ready for it.                  *)
(***************************************************************************)
EXTENDS Naturals, Sequences

CONSTANTS
  Services,
  Files,        \* the migration files' names, in their order
  Releases,     \* each: file name -> checksum of the file's content
  MaxDeploys, MaxFaults  \* bounds of the model

VARIABLES
  present,      \* the table schema_migrations exists
  applied,      \* its rows, in the order in which they were committed
  lock,         \* the service that holds the advisory lock, or "none"
  deploy,       \* each service's deployment
  running,      \* the release each service runs, NoRelease if it is down
  deploys, faults,
  conflict      \* history: a migration was refused for being applied already

vars == <<present, applied, lock, deploy, running, deploys, faults, conflict>>

-----------------------------------------------------------------------------
Row(release, file) == [version |-> file, checksum |-> release[file]]
NoRelease == <<>>
NoDeploy == [pc |-> "idle", release |-> NoRelease, todo |-> {}, done |-> <<>>]

Init ==
  /\ present = FALSE /\ applied = <<>> /\ lock = "none"
  /\ deploy = [s \in Services |-> NoDeploy]
  /\ running = [s \in Services |-> NoRelease]
  /\ deploys = 0 /\ faults = 0 /\ conflict = FALSE

(* loadMigrationFiles: a release's files.  They are applied by name. *)
Available(release) == {Files[i] : i \in DOMAIN Files} \cap DOMAIN release
First(todo) == {Files[i] : i \in {k \in DOMAIN Files :
                                   Files[k] \in todo /\ \A j \in 1 .. k - 1 : Files[j] \notin todo}}

Rows(rows) == {rows[i] : i \in DOMAIN rows}
Versions(rows) == {rows[i].version : i \in DOMAIN rows}

(* buildStatus *)
Status(release, rows, tablePresent) ==
  LET mismatched == \E row \in Rows(rows) :
                      row.version \in DOMAIN release /\ row # Row(release, row.version)
      unknown == ~(Versions(rows) \subseteq DOMAIN release)
      pending == ~(DOMAIN release \subseteq Versions(rows))
  IN  CASE DOMAIN release = {} -> "unrecoverable"
        [] DOMAIN release # {} /\ ~tablePresent -> "missing_but_migratable"
        [] OTHER -> IF mismatched \/ unknown THEN "unrecoverable"
                    ELSE IF pending THEN "migration_required" ELSE "ready"

-----------------------------------------------------------------------------
Moves(s, to) == deploy' = [deploy EXCEPT ![s] = to]

(* A service is deployed with a release, possibly an earlier one. *)
Deploy(s, release) ==
  /\ deploy[s].pc = "idle" /\ deploys < MaxDeploys
  /\ deploys' = deploys + 1
  /\ Moves(s, [NoDeploy EXCEPT !.pc = "begun", !.release = release])
  /\ UNCHANGED <<present, applied, lock, running, faults, conflict>>

(* Mutant: the advisory lock is not waited for. *)
LockFreeAlways == TRUE

(* migrateSchema: BEGIN, and the advisory lock until the transaction ends *)
LockFree == lock = "none"

Lock(s) ==
  /\ deploy[s].pc = "begun" /\ LockFree
  /\ lock' = s
  /\ Moves(s, [deploy[s] EXCEPT !.pc = "locked"])
  /\ UNCHANGED <<present, applied, running, deploys, faults, conflict>>

Released(s) == lock' = IF lock = s THEN "none" ELSE lock

(* With the table ensured it reads what is applied, and throws if that does *)
(* not match the files.                                                     *)
Read(s) ==
  /\ deploy[s].pc = "locked"
  /\ LET release == deploy[s].release
         pending == Available(release) \ Versions(applied)
     IN  IF Status(release, applied, TRUE) = "unrecoverable"
         THEN Moves(s, NoDeploy) /\ Released(s)
         ELSE Moves(s, [deploy[s] EXCEPT !.pc = "applying", !.todo = pending]) /\ UNCHANGED lock
  /\ UNCHANGED <<present, applied, running, deploys, faults, conflict>>

(* The file's statements and its row; a row that is there already ends the  *)
(* transaction.                                                             *)
Apply(s) ==
  /\ deploy[s].pc = "applying"
  /\ \E file \in First(deploy[s].todo) :
       LET taken == file \in Versions(applied)
       IN  /\ IF taken THEN Moves(s, NoDeploy) /\ Released(s)
              ELSE /\ Moves(s, [deploy[s] EXCEPT !.todo = @ \ {file},
                                 !.done = Append(@, Row(deploy[s].release, file))])
                   /\ UNCHANGED lock
           /\ conflict' = (conflict \/ taken)
  /\ UNCHANGED <<present, applied, running, deploys, faults>>

(* Rows that another transaction committed in the meantime refuse the       *)
(* inserts, at the latest here.                                             *)
Commit(s) ==
  /\ deploy[s].pc = "applying" /\ deploy[s].todo = {}
  /\ LET taken == Versions(deploy[s].done) \cap Versions(applied) # {}
     IN  /\ IF taken THEN Moves(s, NoDeploy) /\ UNCHANGED <<present, applied>>
            ELSE /\ present' = TRUE /\ applied' = applied \o deploy[s].done
                 /\ Moves(s, [deploy[s] EXCEPT !.pc = "migrated", !.done = <<>>])
         /\ conflict' = (conflict \/ taken)
  /\ Released(s)
  /\ UNCHANGED <<running, deploys, faults>>

(* ROLLBACK, by a failing statement or a lost connection *)
MigrationFails(s) ==
  /\ deploy[s].pc \in {"begun", "locked", "applying"} /\ faults < MaxFaults
  /\ faults' = faults + 1
  /\ Moves(s, NoDeploy) /\ Released(s)
  /\ UNCHANGED <<present, applied, running, deploys, conflict>>

-----------------------------------------------------------------------------
(* assertSchemaReady, at the start of a service *)
MayRun(release) == Status(release, applied, present) = "ready"

(* The new instance takes the place of the old one, if it starts. *)
Start(s) ==
  /\ deploy[s].pc = "migrated"
  /\ running' = IF MayRun(deploy[s].release) THEN [running EXCEPT ![s] = deploy[s].release] ELSE running
  /\ Moves(s, NoDeploy)
  /\ UNCHANGED <<present, applied, lock, deploys, faults, conflict>>

(* A service that crashed starts again, if it may. *)
Reboot(s) ==
  /\ running[s] # NoRelease /\ faults < MaxFaults
  /\ faults' = faults + 1
  /\ running' = IF MayRun(running[s]) THEN running ELSE [running EXCEPT ![s] = NoRelease]
  /\ UNCHANGED <<present, applied, lock, deploy, deploys, conflict>>

Next == \E s \in Services :
  \/ \E release \in Releases : Deploy(s, release)
  \/ Lock(s) \/ Read(s) \/ Apply(s) \/ Commit(s) \/ MigrationFails(s)
  \/ Start(s) \/ Reboot(s)

Spec == Init /\ [][Next]_vars

-----------------------------------------------------------------------------
(* Whatever releases are deployed together, and whatever fails: no two      *)
(* migrations collide, a file is applied at most once, and a running        *)
(* service has all of its files applied, with the contents it was built     *)
(* with.                                                                    *)
SchemaSound ==
  /\ ~conflict
  /\ \A i, j \in DOMAIN applied : i # j => applied[i].version # applied[j].version
  /\ \A s \in Services : \A file \in DOMAIN running[s] : Row(running[s], file) \in Rows(applied)
=============================================================================
