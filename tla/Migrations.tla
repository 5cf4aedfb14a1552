----------------------------- MODULE Migrations -----------------------------
(***************************************************************************)
(* runMigrations (src/src/storage/migrations.ts) as it is called by every  *)
(* process that opens the database: the daemon and each command of the     *)
(* CLI.  A process reads its migrations directory and schema_migrations    *)
(* once, and then applies what it found to be pending, one transaction per *)
(* file; other processes, with perhaps a newer directory, do the same in   *)
(* between.                                                                *)
(***************************************************************************)
EXTENDS Naturals

CONSTANTS
  Process,
  Checksum,
  Directory     \* the contents that the migrations directory may have

(* A file has the number at the front of its name and the checksum of its SQL. *)
File == [id : Nat, checksum : Checksum]

ASSUME DirectoryAssumption ==
  /\ Directory \subseteq SUBSET File
  /\ \A d \in Directory : \A f, g \in d : f.id = g.id => f = g

VARIABLES
  effects,   \* effects[f]: how often the SQL of f took effect
  records,   \* schema_migrations
  stage,     \* stage[p]: "off", "migrating", "ready" for its work, or "closed"
  files,     \* files[p]: the directory that p read
  plan       \* plan[p]: what p found pending and has not applied yet

migrationVars == <<effects, records, stage, files, plan>>

Stage == {"off", "migrating", "ready", "closed"}

AllFiles == UNION Directory

(* The file may have been brought to any state before. *)
MigrationInit ==
  /\ records \in {{}} \cup Directory
  /\ effects = [f \in AllFiles |-> IF f \in records THEN 1 ELSE 0]
  /\ stage = [p \in Process |-> "off"]
  /\ files = [p \in Process |-> {}]
  /\ plan = [p \in Process |-> {}]

Recorded(id) == \E r \in records : r.id = id

Mismatch(d) == \E f \in d, r \in records : f.id = r.id /\ f.checksum # r.checksum

(* getMigrationStatus.  With a mismatch runMigrations throws, and the process has done   *)
(* nothing.                                                                              *)
ReadStatus(p) ==
  /\ stage[p] = "off"
  /\ \E d \in Directory :
       /\ ~Mismatch(d)
       /\ files' = [files EXCEPT ![p] = d]
       /\ plan' = [plan EXCEPT ![p] = {f \in d : ~Recorded(f.id)}]
  /\ stage' = [stage EXCEPT ![p] = "migrating"]
  /\ UNCHANGED <<effects, records>>

(* The files are applied in the order of their names. *)
IsNext(p, f) == f \in plan[p] /\ \A g \in plan[p] : f.id <= g.id

(* Mutant: INSERT OR REPLACE, the last process to apply a file wins. *)
ApplyMigration_Replace(p) ==
  /\ stage[p] = "migrating"
  /\ \E f \in plan[p] :
       /\ IsNext(p, f)
       /\ effects' = [effects EXCEPT ![f] = @ + 1]
       /\ records' = {r \in records : r.id # f.id} \cup {f}
       /\ plan' = [plan EXCEPT ![p] = @ \ {f}]
  /\ UNCHANGED <<stage, files>>

(* Mutant: a file that another process recorded meanwhile is passed over. *)
ApplyMigration_Ignore(p) ==
  /\ stage[p] = "migrating"
  /\ \E f \in plan[p] :
       /\ IsNext(p, f)
       /\ IF Recorded(f.id)
            THEN UNCHANGED <<effects, records>>
            ELSE /\ effects' = [effects EXCEPT ![f] = @ + 1]
                 /\ records' = records \cup {f}
       /\ plan' = [plan EXCEPT ![p] = @ \ {f}]
  /\ UNCHANGED <<stage, files>>

(* BEGIN, the SQL, the record, COMMIT: the primary key of the record lets it through     *)
(* only once.                                                                            *)
ApplyMigration(p) ==
  /\ stage[p] = "migrating"
  /\ \E f \in plan[p] :
       /\ IsNext(p, f)
       /\ ~Recorded(f.id)
       /\ effects' = [effects EXCEPT ![f] = @ + 1]
       /\ records' = records \cup {f}
       /\ plan' = [plan EXCEPT ![p] = @ \ {f}]
  /\ UNCHANGED <<stage, files>>

(* The process is gone: it exits, or dies, with what it had in memory. *)
Leave(p) ==
  /\ stage' = [stage EXCEPT ![p] = "off"]
  /\ files' = [files EXCEPT ![p] = {}]
  /\ plan' = [plan EXCEPT ![p] = {}]
  /\ UNCHANGED <<effects, records>>

(* ROLLBACK and MIGRATION_FAILED: another process has recorded the file since. *)
MigrationFails(p) ==
  /\ stage[p] = "migrating"
  /\ \E f \in plan[p] : IsNext(p, f) /\ Recorded(f.id)
  /\ Leave(p)

(* runMigrations returns. *)
Migrated(p) ==
  /\ stage[p] = "migrating"
  /\ plan[p] = {}
  /\ stage' = [stage EXCEPT ![p] = "ready"]
  /\ UNCHANGED <<effects, records, files, plan>>

(* db.close, in the finally block of the caller. *)
CloseDatabase(p) ==
  /\ stage[p] = "ready"
  /\ stage' = [stage EXCEPT ![p] = "closed"]
  /\ UNCHANGED <<effects, records, files, plan>>

MigrationNext ==
  \E p \in Process :
    \/ ReadStatus(p) \/ ApplyMigration(p) \/ MigrationFails(p) \/ Migrated(p)
    \/ CloseDatabase(p) \/ Leave(p)

MigrationSpec == MigrationInit /\ [][MigrationNext]_migrationVars

-----------------------------------------------------------------------------
(* Properties *)

MigrationTypeOK ==
  /\ effects \in [AllFiles -> Nat]
  /\ records \subseteq AllFiles
  /\ stage \in [Process -> Stage]
  /\ files \in [Process -> {{}} \cup Directory]
  /\ plan \in [Process -> SUBSET AllFiles]

(* However many processes read the status before one of them applied a file, the SQL of  *)
(* a recorded file took effect once and that of any other never, and no number has two   *)
(* files.                                                                                *)
EachMigrationOnce ==
  /\ \A f \in AllFiles : effects[f] = IF f \in records THEN 1 ELSE 0
  /\ \A r, s \in records : r.id = s.id => r = s

(* A process that has got past its migrations works on a schema that has every file of   *)
(* the directory that it read, with its very content.                                    *)
ReadyHasItsSchema ==
  \A p \in Process : stage[p] = "ready" => files[p] \subseteq records
=============================================================================
