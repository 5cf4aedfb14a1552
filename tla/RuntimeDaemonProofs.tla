------------------------ MODULE RuntimeDaemonProofs ------------------------
(***************************************************************************)
(* Proofs about Migrations for any processes and any contents of the       *)
(* directory, and about RuntimeDaemon for any loops, messages and bounds.  *)
(* What Migrations promises rests on one inductive invariant: what a       *)
(* process has read and does not plan to apply is recorded.  The processes *)
(* of RuntimeDaemon do nothing to the schema but what Migrations allows,   *)
(* so that its theorems hold of them; and every claim of a delivery but    *)
(* the last is paid for by a fault of its own.                             *)
(***************************************************************************)
EXTENDS RuntimeDaemon, FiniteSetTheorems, TLAPS

-----------------------------------------------------------------------------
(* Migrations *)

(* A process is done with a file of its directory when the file is recorded. *)
PlanCoversTheRest ==
  \A p \in Process :
    /\ plan[p] \subseteq files[p]
    /\ files[p] \subseteq plan[p] \cup records
    /\ stage[p] = "off" => files[p] = {}
    /\ stage[p] \in {"ready", "closed"} => plan[p] = {}

MigrationInv == MigrationTypeOK /\ EachMigrationOnce /\ PlanCoversTheRest

(* A file is what its number and its checksum are, and is in AllFiles when a directory   *)
(* has it.                                                                               *)
LEMMA FileIdentity ==
  /\ \A f, g \in AllFiles : f.id = g.id /\ f.checksum = g.checksum => f = g
  /\ \A d \in Directory : d \subseteq AllFiles
BY DirectoryAssumption DEF AllFiles, File

LEMMA MigrationInvInit == MigrationInit => MigrationInv
<1> SUFFICES ASSUME MigrationInit PROVE MigrationInv
  OBVIOUS
<1> USE DEF MigrationInit
<1>1. MigrationTypeOK
  BY FileIdentity DEF MigrationTypeOK, Stage
<1>2. EachMigrationOnce
  BY DirectoryAssumption DEF EachMigrationOnce
<1>3. PlanCoversTheRest
  BY DEF PlanCoversTheRest
<1> QED BY <1>1, <1>2, <1>3 DEF MigrationInv

LEMMA ReadStatusStep ==
  ASSUME MigrationInv, NEW p \in Process, ReadStatus(p)
  PROVE  MigrationInv'
<1>1. PICK d \in Directory :
        /\ ~Mismatch(d)
        /\ files' = [files EXCEPT ![p] = d]
        /\ plan' = [plan EXCEPT ![p] = {f \in d : ~Recorded(f.id)}]
  BY DEF ReadStatus
<1>2. /\ stage' = [stage EXCEPT ![p] = "migrating"]
      /\ UNCHANGED <<effects, records>>
  BY DEF ReadStatus
<1>3. MigrationTypeOK'
  BY <1>1, <1>2, FileIdentity DEF MigrationInv, MigrationTypeOK, Stage
<1>4. EachMigrationOnce'
  BY <1>2 DEF MigrationInv, EachMigrationOnce
<1>5. ASSUME NEW f \in d, Recorded(f.id)
      PROVE  f \in records
  BY <1>1, <1>5, FileIdentity DEF Recorded, Mismatch, MigrationInv, MigrationTypeOK
<1>6. PlanCoversTheRest'
  BY <1>1, <1>2, <1>5 DEF MigrationInv, MigrationTypeOK, PlanCoversTheRest
<1> QED BY <1>3, <1>4, <1>6 DEF MigrationInv

LEMMA ApplyMigrationStep ==
  ASSUME MigrationInv, NEW p \in Process, ApplyMigration(p)
  PROVE  MigrationInv'
<1>1. PICK f \in plan[p] :
        /\ ~Recorded(f.id)
        /\ effects' = [effects EXCEPT ![f] = @ + 1]
        /\ records' = records \cup {f}
        /\ plan' = [plan EXCEPT ![p] = @ \ {f}]
  BY DEF ApplyMigration
<1>2. stage[p] = "migrating" /\ UNCHANGED <<stage, files>>
  BY DEF ApplyMigration
<1>3. f \in AllFiles /\ f \notin records
  BY <1>1 DEF MigrationInv, MigrationTypeOK, Recorded
<1>4. MigrationTypeOK'
  BY <1>1, <1>2, <1>3 DEF MigrationInv, MigrationTypeOK
<1>5. EachMigrationOnce'
  <2>1. \A g \in AllFiles : effects'[g] = IF g \in records' THEN 1 ELSE 0
    BY <1>1, <1>3 DEF MigrationInv, MigrationTypeOK, EachMigrationOnce
  <2>2. \A r, s \in records' : r.id = s.id => r = s
    BY <1>1 DEF MigrationInv, EachMigrationOnce, Recorded
  <2> QED BY <2>1, <2>2 DEF EachMigrationOnce
<1>6. PlanCoversTheRest'
  BY <1>1, <1>2 DEF MigrationInv, MigrationTypeOK, PlanCoversTheRest
<1> QED BY <1>4, <1>5, <1>6 DEF MigrationInv

LEMMA LeaveStep ==
  ASSUME MigrationInv, NEW p \in Process, Leave(p)
  PROVE  MigrationInv'
BY DEF Leave, MigrationInv, MigrationTypeOK, Stage, EachMigrationOnce, PlanCoversTheRest

LEMMA MigratedStep ==
  ASSUME MigrationInv, NEW p \in Process, Migrated(p)
  PROVE  MigrationInv'
BY DEF Migrated, MigrationInv, MigrationTypeOK, Stage, EachMigrationOnce, PlanCoversTheRest

LEMMA CloseDatabaseStep ==
  ASSUME MigrationInv, NEW p \in Process, CloseDatabase(p)
  PROVE  MigrationInv'
BY DEF CloseDatabase, MigrationInv, MigrationTypeOK, Stage, EachMigrationOnce, PlanCoversTheRest

LEMMA MigrationInvNext == MigrationInv /\ [MigrationNext]_migrationVars => MigrationInv'
<1> SUFFICES ASSUME MigrationInv, [MigrationNext]_migrationVars PROVE MigrationInv'
  OBVIOUS
<1>1. CASE UNCHANGED migrationVars
  BY <1>1 DEF migrationVars, MigrationInv, MigrationTypeOK, EachMigrationOnce, PlanCoversTheRest
<1>2. ASSUME NEW p \in Process,
             \/ ReadStatus(p) \/ ApplyMigration(p) \/ MigrationFails(p) \/ Migrated(p)
             \/ CloseDatabase(p) \/ Leave(p)
      PROVE  MigrationInv'
  BY <1>2, ReadStatusStep, ApplyMigrationStep, LeaveStep, MigratedStep, CloseDatabaseStep
     DEF MigrationFails
<1> QED BY <1>1, <1>2 DEF MigrationNext

LEMMA MigrationInvHolds == MigrationSpec => []MigrationInv
<1>1. MigrationInit => MigrationInv
  BY MigrationInvInit
<1>2. MigrationInv /\ [MigrationNext]_migrationVars => MigrationInv'
  BY MigrationInvNext
<1> QED BY <1>1, <1>2, PTL DEF MigrationSpec

(* However many processes migrate the same file at the same time, and wherever they die, *)
(* the SQL of each migration takes effect exactly once.                                  *)
THEOREM MigrationsTakeEffectOnce == MigrationSpec => []EachMigrationOnce
<1>1. MigrationInv => EachMigrationOnce
  BY DEF MigrationInv
<1> QED BY <1>1, MigrationInvHolds, PTL

(* A process that has returned from runMigrations has every file of its own directory in *)
(* the schema, unchanged, for as long as it works on the database.                       *)
THEOREM MigratedMeansSchema == MigrationSpec => []ReadyHasItsSchema
<1>1. MigrationInv => ReadyHasItsSchema
  BY DEF MigrationInv, PlanCoversTheRest, ReadyHasItsSchema
<1> QED BY <1>1, MigrationInvHolds, PTL

-----------------------------------------------------------------------------
(* The daemon and the commands *)

LEMMA StepMigratesOrStutters == [Next]_vars => [MigrationNext]_migrationVars
<1> SUFFICES ASSUME [Next]_vars PROVE [MigrationNext]_migrationVars
  OBVIOUS
<1>1. CASE UNCHANGED vars
  BY <1>1 DEF vars, migrationVars
<1>2. CASE DaemonStep \/ Signal \/ Crash
  <2>1. CASE DaemonMigrates \/ StartComponents
    BY <2>1, DaemonAssumption DEF DaemonMigrates, StartComponents, MigrationNext
  <2>2. CASE DatabaseCloses \/ Exit \/ Crash
    BY <2>2, DaemonAssumption DEF DatabaseCloses, Exit, Crash, LeaveDaemon, MigrationNext
  <2>3. CASE Signal
    BY <2>3 DEF Signal
  <2> QED BY <1>2, <2>1, <2>2, <2>3 DEF DaemonStep
<1>3. CASE ReceiverStep \/ \E c \in Component : ComponentThrows(c)
  BY <1>3 DEF ReceiverStep, ReceiverStarts, ComponentEnds, ComponentThrows
<1>4. ASSUME NEW l \in Loop, LoopStep(l) \/ Fail(l)
      PROVE  UNCHANGED migrationVars
  BY <1>4 DEF LoopStep, ComponentEnds, CutOff, Claim, Perform, Ack, Fail, Settle
<1>5. ASSUME NEW p \in Command,
             CliMigrates(p) \/ CliEnds(p) \/ \E m \in Message : CliSends(p, m)
      PROVE  MigrationNext
  BY <1>5 DEF Command, CliMigrates, CliEnds, CliSends, MigrationNext
<1> QED BY <1>1, <1>2, <1>3, <1>4, <1>5 DEF Next

(* The daemon and the commands of the CLI, with all their starts, stops and crashes, use *)
(* the schema as Migrations describes it.                                                *)
THEOREM ProcessesOnlyMigrate == Spec => MigrationSpec
<1>1. Init => MigrationInit
  BY DEF Init
<1>2. [Next]_vars => [MigrationNext]_migrationVars
  BY StepMigratesOrStutters
<1> QED BY <1>1, <1>2, PTL DEF Spec, MigrationSpec

-----------------------------------------------------------------------------
(* Faults pay for claims *)

Counts ==
  /\ attempts \in [Delivery -> Nat]
  /\ performed \in [Delivery -> Nat]
  /\ faults \in Nat
  /\ row \in [Delivery -> {"unsent", "pending", "running", "acked", "dead_letter"}]

(* Where the parts of the daemon can be, together. *)
Phases ==
  /\ stage \in [Process -> Stage]
  /\ comp \in [Component -> {"off", "starting", "running", "ended"}]
  /\ held \in [Loop -> SUBSET Delivery]
  /\ handled \in [Loop -> SUBSET Delivery]
  /\ aborted \in BOOLEAN
  /\ rejected \in BOOLEAN
  /\ rejected => aborted
  /\ stage[Daemon] = "closed" => rejected \/ AllEnded
  /\ \A l \in Loop :
       /\ handled[l] \subseteq held[l]
       /\ \A d \in held[l] : d[2] = l /\ row[d] = "running"
       /\ \A d, e \in handled[l] : d = e
       /\ held[l] # {} => comp[l] = "running" /\ stage[Daemon] \in {"ready", "closed"}

Held(d) == d \in held[d[2]]

(* What a claim has cost already: a delivery that nobody has claimed, or that was cut off, *)
(* or that failed, has had a fault for each of its claims.  When a component has failed,   *)
(* the fault that will cut off the others has happened.                                    *)
Paid ==
  \A d \in Delivery :
    /\ performed[d] <= attempts[d]
    /\ Held(d) /\ d \notin handled[d[2]] => performed[d] < attempts[d]
    /\ attempts[d] <= faults + 1
    /\ Held(d) /\ rejected => attempts[d] <= faults
    /\ ~Held(d) /\ row[d] # "acked" => attempts[d] <= faults
    /\ row[d] = "dead_letter" => faults >= MaxAttempts

DaemonInv == Counts /\ Phases /\ Paid

LEMMA DeliveryLoop == \A d \in Delivery : d[2] \in Loop
BY DEF Delivery

LEMMA DaemonInvInit == Init => DaemonInv
<1> SUFFICES ASSUME Init PROVE DaemonInv
  OBVIOUS
<1>1. Counts
  BY DEF Init, Counts
<1>2. Phases
  BY DaemonAssumption DEF Init, MigrationInit, Phases, Stage, Component
<1>3. Paid
  BY DeliveryLoop DEF Init, Paid, Held
<1> QED BY <1>1, <1>2, <1>3 DEF DaemonInv

(* What a command does to the stages does not touch the daemon. *)
LEMMA CommandStep ==
  ASSUME DaemonInv, NEW p \in Command, CliMigrates(p) \/ CliEnds(p)
  PROVE  DaemonInv'
<1>1. /\ stage' \in [Process -> Stage]
      /\ stage'[Daemon] = stage[Daemon]
  BY DaemonAssumption DEF DaemonInv, Phases, Command, Stage, CliMigrates, CliEnds,
     ReadStatus, ApplyMigration, MigrationFails, Migrated, Leave
<1>2. UNCHANGED <<deliveries, components, bounds>>
  BY DEF CliMigrates, CliEnds
<1>3. Counts' /\ Paid'
  BY <1>2 DEF DaemonInv, Counts, Paid, Held, deliveries, components, bounds
<1>4. Phases'
  BY <1>1, <1>2 DEF DaemonInv, Phases, AllEnded, deliveries, components
<1> QED BY <1>3, <1>4 DEF DaemonInv

LEMMA SendStep ==
  ASSUME DaemonInv, NEW p \in Command, NEW m \in Message, CliSends(p, m)
  PROVE  DaemonInv'
<1>1. /\ stage' \in [Process -> Stage]
      /\ stage'[Daemon] = stage[Daemon]
  BY DaemonAssumption DEF DaemonInv, Phases, Command, Stage, CliSends, CloseDatabase
<1>2. UNCHANGED <<attempts, performed, components, bounds>>
  BY DEF CliSends
<1>3. /\ row' \in [Delivery -> {"unsent", "pending", "running", "acked", "dead_letter"}]
      /\ \A d \in Delivery :
           \/ row'[d] = row[d]
           \/ row[d] = "unsent" /\ row'[d] = "pending"
  BY DEF CliSends, DaemonInv, Counts, Delivery
<1>4. Counts'
  BY <1>2, <1>3 DEF DaemonInv, Counts, bounds
<1>5. Phases'
  BY <1>1, <1>2, <1>3 DEF DaemonInv, Phases, AllEnded, components
<1>6. Paid'
  BY <1>2, <1>3 DEF DaemonInv, Paid, Held, components, bounds
<1> QED BY <1>4, <1>5, <1>6 DEF DaemonInv

-----------------------------------------------------------------------------
(* The daemon's process *)

LEMMA DaemonMigratesStep ==
  ASSUME DaemonInv, DaemonMigrates
  PROVE  DaemonInv'
<1>1. /\ stage' \in [Process -> Stage]
      /\ stage[Daemon] \in {"off", "migrating"}
      /\ stage'[Daemon] \in {"off", "migrating"}
  BY DaemonAssumption DEF DaemonInv, Phases, Stage, DaemonMigrates, ReadStatus,
     ApplyMigration, MigrationFails, Leave
<1>2. UNCHANGED <<deliveries, components, bounds>>
  BY DEF DaemonMigrates
<1>3. Counts' /\ Paid'
  BY <1>2 DEF DaemonInv, Counts, Paid, Held, deliveries, components, bounds
<1>4. Phases'
  BY <1>1, <1>2 DEF DaemonInv, Phases, AllEnded, deliveries, components
<1> QED BY <1>3, <1>4 DEF DaemonInv

LEMMA StartComponentsStep ==
  ASSUME DaemonInv, StartComponents
  PROVE  DaemonInv'
<1>1. /\ stage' \in [Process -> Stage]
      /\ stage[Daemon] = "migrating"
      /\ stage'[Daemon] = "ready"
  BY DaemonAssumption DEF DaemonInv, Phases, Stage, StartComponents, Migrated
<1>2. /\ comp' \in [Component -> {"off", "starting", "running", "ended"}]
      /\ UNCHANGED <<held, handled, aborted, rejected, deliveries, bounds>>
  BY DEF StartComponents
<1>3. Counts' /\ Paid'
  BY <1>2 DEF DaemonInv, Counts, Paid, Held, deliveries, bounds
<1>4. Phases'
  BY <1>1, <1>2 DEF DaemonInv, Phases, deliveries
<1> QED BY <1>3, <1>4 DEF DaemonInv

LEMMA SignalStep ==
  ASSUME DaemonInv, Signal
  PROVE  DaemonInv'
BY DEF DaemonInv, Signal, Counts, Paid, Held, Phases, AllEnded, deliveries, migrationVars

LEMMA DatabaseClosesStep ==
  ASSUME DaemonInv, DatabaseCloses
  PROVE  DaemonInv'
<1>1. /\ stage' \in [Process -> Stage]
      /\ stage[Daemon] = "ready"
      /\ stage'[Daemon] = "closed"
      /\ rejected \/ AllEnded
      /\ UNCHANGED <<deliveries, components, bounds>>
  BY DaemonAssumption DEF DaemonInv, Phases, Stage, DatabaseCloses, CloseDatabase
<1>2. Counts' /\ Paid'
  BY <1>1 DEF DaemonInv, Counts, Paid, Held, deliveries, components, bounds
<1>3. Phases'
  BY <1>1 DEF DaemonInv, Phases, AllEnded, deliveries, components
<1> QED BY <1>2, <1>3 DEF DaemonInv

(* Whatever a process that has gone held was claimed no more often than there were faults. *)
LEMMA LeaveDaemonStep ==
  ASSUME DaemonInv, LeaveDaemon, UNCHANGED deliveries, faults' \in Nat, faults' >= faults,
         \A d \in Delivery : Held(d) => attempts[d] <= faults'
  PROVE  DaemonInv'
<1>1. /\ stage' \in [Process -> Stage]
      /\ stage'[Daemon] = "off"
  BY DaemonAssumption DEF DaemonInv, Phases, Stage, LeaveDaemon, Leave
<1>2. Counts'
  BY DEF DaemonInv, Counts, deliveries
<1>3. Phases'
  BY <1>1 DEF Phases, LeaveDaemon, deliveries
<1>4. Paid'
  <2> SUFFICES ASSUME NEW d \in Delivery
               PROVE  /\ performed[d] <= attempts[d]
                      /\ attempts[d] <= faults' + 1
                      /\ row[d] # "acked" => attempts[d] <= faults'
                      /\ row[d] = "dead_letter" => faults' >= MaxAttempts
    BY DeliveryLoop DEF Paid, Held, LeaveDaemon, deliveries
  <2>1. attempts[d] \in Nat /\ performed[d] \in Nat /\ faults \in Nat /\ MaxAttempts \in Nat
    BY DaemonAssumption DEF DaemonInv, Counts
  <2> QED BY <2>1 DEF DaemonInv, Paid
<1> QED BY <1>2, <1>3, <1>4 DEF DaemonInv

LEMMA ExitStep ==
  ASSUME DaemonInv, Exit
  PROVE  DaemonInv'
<1>1. \A d \in Delivery : ~Held(d)
  BY DeliveryLoop DEF Exit, AllEnded, Held, DaemonInv, Phases, Component
<1> QED BY <1>1, LeaveDaemonStep DEF Exit, DaemonInv, Counts, bounds

LEMMA CrashStep ==
  ASSUME DaemonInv, Crash
  PROVE  DaemonInv'
<1>1. faults' = faults + 1 /\ faults \in Nat
  BY DEF Crash, Fault, DaemonInv, Counts
<1>2. \A d \in Delivery : attempts[d] <= faults'
  BY <1>1 DEF DaemonInv, Paid
<1> QED BY <1>1, <1>2, LeaveDaemonStep DEF Crash

-----------------------------------------------------------------------------
(* The components *)

LEMMA ReceiverStartsStep ==
  ASSUME DaemonInv, ReceiverStarts
  PROVE  DaemonInv'
<1>1. /\ stage' = stage /\ UNCHANGED <<held, handled, aborted, rejected, deliveries, bounds>>
      /\ comp[Receiver] = "starting"
      /\ comp' = [comp EXCEPT ![Receiver] = "running"]
  BY DEF ReceiverStarts, migrationVars
<1>2. ~AllEnded
  BY <1>1 DEF AllEnded, Component
<1>3. Counts' /\ Paid'
  BY <1>1 DEF DaemonInv, Counts, Paid, Held, deliveries, bounds
<1>4. Phases'
  BY <1>1, <1>2, DaemonAssumption DEF DaemonInv, Phases, Component, deliveries
<1> QED BY <1>3, <1>4 DEF DaemonInv

(* A component that ends takes what it held out of reach, and nothing else changes hands. *)
LEMMA EndsPhases ==
  ASSUME DaemonInv, NEW c \in Component, Ends(c), stage' = stage, UNCHANGED deliveries,
         aborted' \in BOOLEAN, rejected' \in BOOLEAN, rejected' => aborted',
         rejected => rejected'
  PROVE  /\ Phases'
         /\ \A d \in Delivery : Held(d)' <=> Held(d) /\ d[2] # c
         /\ \A d \in Delivery : Held(d)' => handled'[d[2]] = handled[d[2]]
<1>1. Phases'
  <2>1. /\ comp' \in [Component -> {"off", "starting", "running", "ended"}]
        /\ \A b \in Component : comp'[b] = IF b = c THEN "ended" ELSE comp[b]
    BY DEF Ends, DaemonInv, Phases
  <2>2. /\ held' \in [Loop -> SUBSET Delivery]
        /\ handled' \in [Loop -> SUBSET Delivery]
        /\ \A l \in Loop : held'[l] = (IF l = c THEN {} ELSE held[l])
                            /\ handled'[l] = (IF l = c THEN {} ELSE handled[l])
    BY DEF Ends, DaemonInv, Phases
  <2>3. AllEnded => AllEnded'
    BY <2>1 DEF AllEnded
  <2>4. \A l \in Loop : l \in Component
    BY DEF Component
  <2> QED BY <2>1, <2>2, <2>3, <2>4 DEF DaemonInv, Phases, deliveries
<1>2. \A d \in Delivery : Held(d)' <=> Held(d) /\ d[2] # c
  BY DeliveryLoop DEF Ends, Held
<1>3. \A d \in Delivery : Held(d)' => handled'[d[2]] = handled[d[2]]
  BY DeliveryLoop DEF Ends, Held
<1> QED BY <1>1, <1>2, <1>3

LEMMA ComponentEndsStep ==
  ASSUME DaemonInv, NEW c \in Component, ComponentEnds(c)
  PROVE  DaemonInv'
<1>1. /\ Ends(c) /\ stage' = stage
      /\ UNCHANGED <<aborted, rejected, deliveries, bounds>>
      /\ c \in Loop => held[c] = {}
  BY DEF ComponentEnds, migrationVars
<1>2. /\ Phases'
      /\ \A d \in Delivery : Held(d)' <=> Held(d) /\ d[2] # c
      /\ \A d \in Delivery : Held(d)' => handled'[d[2]] = handled[d[2]]
  BY <1>1, EndsPhases DEF DaemonInv, Phases
<1>3. \A d \in Delivery : Held(d)' <=> Held(d)
  BY <1>1, <1>2, DeliveryLoop DEF Held
<1>4. Counts'
  BY <1>1 DEF DaemonInv, Counts, deliveries, bounds
<1>5. Paid'
  <2> SUFFICES ASSUME NEW d \in Delivery
               PROVE  /\ performed[d] <= attempts[d]
                      /\ Held(d)' /\ d \notin handled'[d[2]] => performed[d] < attempts[d]
                      /\ attempts[d] <= faults + 1
                      /\ Held(d)' /\ rejected => attempts[d] <= faults
                      /\ ~Held(d)' /\ row[d] # "acked" => attempts[d] <= faults
                      /\ row[d] = "dead_letter" => faults >= MaxAttempts
    BY <1>1 DEF Paid, Held, deliveries, bounds
  <2> QED BY <1>2, <1>3 DEF DaemonInv, Paid
<1> QED BY <1>2, <1>4, <1>5 DEF DaemonInv

LEMMA ComponentThrowsStep ==
  ASSUME DaemonInv, NEW c \in Component, ComponentThrows(c)
  PROVE  DaemonInv'
<1>1. /\ Ends(c) /\ stage' = stage /\ UNCHANGED deliveries
      /\ rejected' = (rejected \/ ~aborted)
      /\ aborted' = TRUE
      /\ faults' = faults + 1
  BY DEF ComponentThrows, migrationVars, Fault
<1>2. /\ Phases'
      /\ \A d \in Delivery : Held(d)' <=> Held(d) /\ d[2] # c
      /\ \A d \in Delivery : Held(d)' => handled'[d[2]] = handled[d[2]]
  BY <1>1, EndsPhases DEF DaemonInv, Phases
<1>3. Counts'
  BY <1>1 DEF DaemonInv, Counts, deliveries
<1>4. Paid'
  <2>1. /\ row' = row /\ attempts' = attempts /\ performed' = performed
        /\ faults \in Nat /\ MaxAttempts \in Nat
        /\ \A d \in Delivery : attempts[d] \in Nat /\ performed[d] \in Nat
    BY <1>1, DaemonAssumption DEF DaemonInv, Counts, deliveries
  <2>2. ASSUME NEW d \in Delivery
        PROVE  /\ performed[d] <= attempts[d]
               /\ Held(d)' /\ d \notin handled'[d[2]] => performed[d] < attempts[d]
               /\ attempts[d] <= faults + 1
               /\ row[d] = "dead_letter" => faults + 1 >= MaxAttempts
    <3>1. /\ performed[d] <= attempts[d]
          /\ attempts[d] <= faults + 1
      BY DEF DaemonInv, Paid
    <3>2. Held(d)' /\ d \notin handled'[d[2]] => performed[d] < attempts[d]
      BY <1>2 DEF DaemonInv, Paid
    <3>3. row[d] = "dead_letter" => faults >= MaxAttempts
      BY DEF DaemonInv, Paid
    <3> QED BY <2>1, <3>1, <3>2, <3>3
  <2>3. ASSUME NEW d \in Delivery
        PROVE  /\ performed'[d] <= attempts'[d]
               /\ Held(d)' /\ d \notin handled'[d[2]] => performed'[d] < attempts'[d]
               /\ attempts'[d] <= faults' + 1
               /\ Held(d)' /\ rejected' => attempts'[d] <= faults'
               /\ ~Held(d)' /\ row'[d] # "acked" => attempts'[d] <= faults'
               /\ row'[d] = "dead_letter" => faults' >= MaxAttempts
    <3>1. attempts[d] <= faults' + 1
      BY <1>1, <2>1, <2>2
    <3> QED BY <1>1, <2>1, <2>2, <3>1
  <2> QED BY <2>3 DEF Paid, Held
<1> QED BY <1>2, <1>3, <1>4 DEF DaemonInv

(* The failure that closed the database pays for what is cut off by it. *)
LEMMA CutOffStep ==
  ASSUME DaemonInv, NEW l \in Loop, CutOff(l)
  PROVE  DaemonInv'
<1>1. /\ Ends(l) /\ stage' = stage
      /\ UNCHANGED <<aborted, rejected, deliveries, bounds>>
      /\ stage[Daemon] = "closed" /\ held[l] # {}
  BY DEF CutOff, migrationVars
<1>2. l \in Component
  BY DEF Component
<1>3. rejected
  BY <1>1, <1>2 DEF DaemonInv, Phases, AllEnded
<1>4. /\ Phases'
      /\ \A d \in Delivery : Held(d)' <=> Held(d) /\ d[2] # l
      /\ \A d \in Delivery : Held(d)' => handled'[d[2]] = handled[d[2]]
  BY <1>1, <1>2, EndsPhases DEF DaemonInv, Phases
<1>5. Counts'
  BY <1>1 DEF DaemonInv, Counts, deliveries, bounds
<1>6. Paid'
  <2> SUFFICES ASSUME NEW d \in Delivery
               PROVE  /\ performed[d] <= attempts[d]
                      /\ Held(d)' /\ d \notin handled'[d[2]] => performed[d] < attempts[d]
                      /\ attempts[d] <= faults + 1
                      /\ Held(d)' /\ rejected => attempts[d] <= faults
                      /\ ~Held(d)' /\ row[d] # "acked" => attempts[d] <= faults
                      /\ row[d] = "dead_letter" => faults >= MaxAttempts
    BY <1>1 DEF Paid, Held, deliveries, bounds
  <2> QED BY <1>3, <1>4 DEF DaemonInv, Paid
<1> QED BY <1>4, <1>5, <1>6 DEF DaemonInv

LEMMA ClaimStep ==
  ASSUME DaemonInv, NEW l \in Loop, Claim(l)
  PROVE  DaemonInv'
<1>1. PICK D \in SUBSET {d \in RowsOf(l) : row[d] \in {"pending", "running"}} :
        /\ held' = [held EXCEPT ![l] = D]
        /\ row' = [d \in Delivery |-> IF d \in D THEN "running" ELSE row[d]]
        /\ attempts' = [d \in Delivery |-> IF d \in D THEN attempts[d] + 1 ELSE attempts[d]]
  BY DEF Claim
<1>2. /\ stage' = stage /\ UNCHANGED <<performed, comp, handled, aborted, rejected, bounds>>
      /\ stage[Daemon] = "ready" /\ comp[l] = "running" /\ ~aborted /\ held[l] = {}
  BY DEF Claim, migrationVars
<1>3. ~rejected /\ \A d \in D : d \in Delivery /\ d[2] = l /\ ~Held(d) /\ row[d] # "acked"
                                /\ row[d] # "dead_letter"
  BY <1>1, <1>2 DEF RowsOf, Held, DaemonInv, Phases
<1>4. Counts'
  BY <1>1, <1>2 DEF DaemonInv, Counts, bounds
<1>5. Phases'
  BY <1>1, <1>2, <1>3 DEF DaemonInv, Phases, AllEnded
<1>6. Paid'
  <2> SUFFICES ASSUME NEW d \in Delivery
               PROVE  /\ performed[d] <= attempts'[d]
                      /\ Held(d)' /\ d \notin handled[d[2]] => performed[d] < attempts'[d]
                      /\ attempts'[d] <= faults + 1
                      /\ ~Held(d)' /\ row'[d] # "acked" => attempts'[d] <= faults
                      /\ row'[d] = "dead_letter" => faults >= MaxAttempts
    BY <1>2, <1>3 DEF Paid, Held, bounds
  <2>1. attempts[d] \in Nat /\ performed[d] \in Nat /\ faults \in Nat
    BY DEF DaemonInv, Counts
  <2>2. CASE d \in D
    <3>1. attempts'[d] = attempts[d] + 1 /\ row'[d] = "running" /\ Held(d)'
      BY <1>1, <1>3, <2>2 DEF Held, DaemonInv, Phases
    <3> QED BY <1>3, <2>1, <2>2, <3>1 DEF DaemonInv, Paid
  <2>3. CASE d \notin D
    <3>1. attempts'[d] = attempts[d] /\ row'[d] = row[d]
      BY <1>1, <2>3
    <3>2. Held(d)' <=> Held(d)
      BY <1>1, <1>2, <2>3, DeliveryLoop DEF Held, DaemonInv, Phases
    <3> QED BY <3>1, <3>2 DEF DaemonInv, Paid
  <2> QED BY <2>2, <2>3
<1> QED BY <1>4, <1>5, <1>6 DEF DaemonInv

LEMMA PerformStep ==
  ASSUME DaemonInv, NEW l \in Loop, Perform(l)
  PROVE  DaemonInv'
<1>1. PICK e \in held[l] :
        /\ handled' = [handled EXCEPT ![l] = {e}]
        /\ performed' = [performed EXCEPT ![e] = @ + 1]
  BY DEF Perform
<1>2. /\ stage' = stage /\ UNCHANGED <<row, attempts, comp, held, aborted, rejected, bounds>>
      /\ handled[l] = {}
  BY DEF Perform, migrationVars
<1>3. e \in Delivery /\ e[2] = l /\ Held(e) /\ row[e] = "running"
  BY DEF DaemonInv, Phases, Held
<1>4. Counts'
  BY <1>1, <1>2, <1>3 DEF DaemonInv, Counts, bounds
<1>5. Phases'
  BY <1>1, <1>2 DEF DaemonInv, Phases, AllEnded
<1>6. Paid'
  <2> SUFFICES ASSUME NEW d \in Delivery
               PROVE  /\ performed'[d] <= attempts[d]
                      /\ Held(d) /\ d \notin handled'[d[2]] => performed'[d] < attempts[d]
    BY <1>2 DEF DaemonInv, Paid, Held, bounds
  <2>1. attempts[d] \in Nat /\ performed[d] \in Nat
    BY DEF DaemonInv, Counts
  <2>2. CASE d = e
    <3>1. performed'[d] = performed[d] + 1 /\ d \in handled'[d[2]]
      BY <1>1, <1>3, <2>2 DEF DaemonInv, Counts, Phases
    <3>2. performed[d] < attempts[d]
      BY <1>2, <1>3, <2>2 DEF DaemonInv, Paid
    <3> QED BY <2>1, <3>1, <3>2
  <2>3. CASE d # e
    <3>1. performed'[d] = performed[d]
      BY <1>1, <2>3 DEF DaemonInv, Counts
    <3>2. d \in handled[d[2]] => d \in handled'[d[2]]
      BY <1>1, <1>2, DeliveryLoop DEF DaemonInv, Phases
    <3> QED BY <3>1, <3>2 DEF DaemonInv, Paid
  <2> QED BY <2>2, <2>3
<1> QED BY <1>4, <1>5, <1>6 DEF DaemonInv

(* A delivery leaves the batch: it is acked, given up at its last attempt, or put back. *)
LEMMA SettleStep ==
  ASSUME DaemonInv, NEW l \in Loop, NEW e \in held[l], handled[l] \subseteq {e},
         NEW s \in {"acked", "dead_letter", "pending"}, Settle(l, e, s), faults' \in Nat,
         s = "acked" => faults' = faults,
         s # "acked" => faults' = faults + 1,
         s = "dead_letter" => attempts[e] >= MaxAttempts
  PROVE  DaemonInv'
<1>1. /\ row' = [row EXCEPT ![e] = s]
      /\ held' = [held EXCEPT ![l] = @ \ {e}]
      /\ handled' = [handled EXCEPT ![l] = {}]
      /\ stage' = stage /\ UNCHANGED <<attempts, performed, comp, aborted, rejected>>
  BY DEF Settle, migrationVars
<1>2. e \in Delivery /\ e[2] = l /\ Held(e)
  BY DEF DaemonInv, Phases, Held
<1>3. \A k \in Loop : /\ held'[k] = (IF k = l THEN held[k] \ {e} ELSE held[k])
                      /\ handled'[k] = (IF k = l THEN {} ELSE handled[k])
  <2>1. DOMAIN held = Loop /\ DOMAIN handled = Loop
    BY DEF DaemonInv, Phases
  <2> QED BY <1>1, <2>1
<1>4. Counts'
  BY <1>1, <1>2 DEF DaemonInv, Counts
<1>5. Phases'
  <2>1. row'[e] = s /\ \A d \in Delivery : d # e => row'[d] = row[d]
    BY <1>1, <1>2 DEF DaemonInv, Counts
  <2>2. held' \in [Loop -> SUBSET Delivery] /\ handled' \in [Loop -> SUBSET Delivery]
    BY <1>1 DEF DaemonInv, Phases
  <2>3. AllEnded' <=> AllEnded
    BY <1>1 DEF AllEnded
  <2>4. ASSUME NEW k \in Loop
        PROVE  \A d \in held'[k] : d \in held[k] /\ d \in Delivery /\ d # e
    <3>1. \A d \in held[k] : d \in Delivery /\ d[2] = k
      BY DEF DaemonInv, Phases
    <3> QED BY <1>2, <1>3, <3>1
  <2> QED BY <1>1, <1>3, <2>1, <2>2, <2>3, <2>4 DEF DaemonInv, Phases
<1>6. Paid'
  <2>1. \A d \in Delivery : attempts[d] \in Nat /\ performed[d] \in Nat
    BY DEF DaemonInv, Counts
  <2>2. faults \in Nat /\ faults' >= faults /\ MaxAttempts \in Nat
    BY DaemonAssumption DEF DaemonInv, Counts
  <2>3. ASSUME NEW d \in Delivery, d # e
        PROVE  /\ row'[d] = row[d]
               /\ Held(d)' <=> Held(d)
               /\ Held(d) /\ d \notin handled'[d[2]] => d \notin handled[d[2]]
    <3>1. d[2] \in Loop /\ d \notin handled[l]
      BY <2>3, DeliveryLoop
    <3>2. row'[d] = row[d]
      BY <1>1, <2>3 DEF DaemonInv, Counts
    <3>3. /\ held'[d[2]] = (IF d[2] = l THEN held[d[2]] \ {e} ELSE held[d[2]])
          /\ handled'[d[2]] = (IF d[2] = l THEN {} ELSE handled[d[2]])
      BY <1>3, <3>1
    <3> QED BY <2>3, <3>1, <3>2, <3>3 DEF Held
  <2>4. row'[e] = s /\ ~Held(e)'
    BY <1>1, <1>2 DEF Held, DaemonInv, Counts, Phases
  <2>5. ASSUME NEW d \in Delivery
        PROVE  /\ performed[d] <= attempts[d]
               /\ Held(d)' /\ d \notin handled'[d[2]] => performed[d] < attempts[d]
               /\ attempts[d] <= faults' + 1
               /\ Held(d)' /\ rejected => attempts[d] <= faults'
               /\ ~Held(d)' /\ row'[d] # "acked" => attempts[d] <= faults'
               /\ row'[d] = "dead_letter" => faults' >= MaxAttempts
    <3>1. CASE d = e
      BY <1>2, <2>1, <2>2, <2>4, <3>1 DEF DaemonInv, Paid
    <3>2. CASE d # e
      BY <2>1, <2>2, <2>3, <3>2 DEF DaemonInv, Paid
    <3> QED BY <3>1, <3>2
  <2> QED BY <1>1, <2>5 DEF Paid, Held
<1> QED BY <1>4, <1>5, <1>6 DEF DaemonInv

LEMMA AckStep ==
  ASSUME DaemonInv, NEW l \in Loop, Ack(l)
  PROVE  DaemonInv'
<1>1. PICK e \in handled[l] : Settle(l, e, "acked")
  BY DEF Ack
<1>2. e \in held[l] /\ handled[l] \subseteq {e}
  BY DEF DaemonInv, Phases
<1>3. faults' = faults /\ faults' \in Nat
  BY DEF Ack, NoFault, bounds, DaemonInv, Counts
<1> QED BY <1>1, <1>2, <1>3, SettleStep

LEMMA FailStep ==
  ASSUME DaemonInv, NEW l \in Loop, Fail(l)
  PROVE  DaemonInv'
<1>1. PICK e \in held[l] :
        /\ handled[l] \subseteq {e}
        /\ Settle(l, e, IF attempts[e] >= MaxAttempts THEN "dead_letter" ELSE "pending")
  BY DEF Fail
<1>2. faults' = faults + 1 /\ faults' \in Nat
  BY DEF Fail, Fault, DaemonInv, Counts
<1>3. CASE attempts[e] >= MaxAttempts
  BY <1>1, <1>2, <1>3, SettleStep
<1>4. CASE ~(attempts[e] >= MaxAttempts)
  BY <1>1, <1>2, <1>4, SettleStep
<1> QED BY <1>3, <1>4

-----------------------------------------------------------------------------

LEMMA DaemonInvNext == DaemonInv /\ [Next]_vars => DaemonInv'
<1> SUFFICES ASSUME DaemonInv, [Next]_vars PROVE DaemonInv'
  OBVIOUS
<1>1. CASE UNCHANGED vars
  BY <1>1 DEF vars, migrationVars, deliveries, components, bounds, DaemonInv, Counts, Phases,
     Paid, Held, AllEnded
<1>2. CASE DaemonStep \/ Signal \/ Crash
  BY <1>2, DaemonMigratesStep, StartComponentsStep, DatabaseClosesStep, ExitStep, SignalStep,
     CrashStep DEF DaemonStep
<1>3. CASE ReceiverStep
  BY <1>3, ReceiverStartsStep, ComponentEndsStep DEF ReceiverStep, Component
<1>4. ASSUME NEW c \in Component, ComponentThrows(c)
      PROVE  DaemonInv'
  BY <1>4, ComponentThrowsStep
<1>5. ASSUME NEW l \in Loop, LoopStep(l) \/ Fail(l)
      PROVE  DaemonInv'
  BY <1>5, ComponentEndsStep, CutOffStep, ClaimStep, PerformStep, AckStep, FailStep
     DEF LoopStep, Component
<1>6. ASSUME NEW p \in Command,
             CliMigrates(p) \/ CliEnds(p) \/ \E m \in Message : CliSends(p, m)
      PROVE  DaemonInv'
  BY <1>6, CommandStep, SendStep
<1> QED BY <1>1, <1>2, <1>3, <1>4, <1>5, <1>6 DEF Next

(* However many loops there are and however the daemon is stopped, restarted and killed, *)
(* a delivery is handled again only after a fault of its own, and is never given up      *)
(* before there were as many faults as it had attempts.                                  *)
THEOREM RepeatedWorkIsPaidFor == Spec => []WorkRepeatsNeedFaults
<1>1. Init => DaemonInv
  BY DaemonInvInit
<1>2. DaemonInv /\ [Next]_vars => DaemonInv'
  BY DaemonInvNext
<1>3. DaemonInv => WorkRepeatsNeedFaults
  <2> SUFFICES ASSUME DaemonInv, NEW d \in Delivery
               PROVE  /\ performed[d] <= 1 + faults
                      /\ row[d] = "dead_letter" => faults >= MaxAttempts
    BY DEF WorkRepeatsNeedFaults
  <2>1. attempts[d] \in Nat /\ performed[d] \in Nat /\ faults \in Nat
    BY DEF DaemonInv, Counts
  <2> QED BY <2>1 DEF DaemonInv, Paid
<1> QED BY <1>1, <1>2, <1>3, PTL DEF Spec

Bounded == faults \in 0 .. MaxFaults /\ stops \in 0 .. MaxStops

LEMMA BoundedNext == Bounded /\ [Next]_vars => Bounded'
<1> SUFFICES ASSUME Bounded, [Next]_vars PROVE Bounded'
  OBVIOUS
<1>1. MaxFaults \in Nat /\ MaxStops \in Nat
  BY DaemonAssumption
<1>2. ASSUME UNCHANGED bounds PROVE Bounded'
  BY <1>2 DEF bounds, Bounded
<1>3. ASSUME Fault PROVE Bounded'
  BY <1>1, <1>3 DEF Fault, Bounded
<1>4. CASE UNCHANGED vars
  BY <1>2, <1>4 DEF vars
<1>5. CASE DaemonStep \/ ReceiverStep
  BY <1>2, <1>5 DEF DaemonStep, DaemonMigrates, StartComponents, DatabaseCloses, Exit,
     ReceiverStep, ReceiverStarts, ComponentEnds
<1>6. CASE Signal
  BY <1>1, <1>6 DEF Signal, Bounded
<1>7. CASE Crash \/ \E c \in Component : ComponentThrows(c)
  BY <1>3, <1>7 DEF Crash, ComponentThrows
<1>8. ASSUME NEW l \in Loop, LoopStep(l) \/ Fail(l)
      PROVE  Bounded'
  BY <1>2, <1>3, <1>8 DEF LoopStep, ComponentEnds, CutOff, Claim, Perform, Ack, NoFault, Fail
<1>9. ASSUME NEW p \in Command,
             CliMigrates(p) \/ CliEnds(p) \/ \E m \in Message : CliSends(p, m)
      PROVE  Bounded'
  BY <1>2, <1>9 DEF CliMigrates, CliEnds, CliSends
<1> QED BY <1>4, <1>5, <1>6, <1>7, <1>8, <1>9 DEF Next

(* The handlers of a loop run one after the other, and every part of the state keeps its *)
(* type.                                                                                 *)
THEOREM DaemonTypes == Spec => []TypeOK
<1>1. Init => DaemonInv /\ Bounded
  BY DaemonInvInit, DaemonAssumption DEF Init, Bounded
<1>2. DaemonInv /\ Bounded /\ [Next]_vars => (DaemonInv /\ Bounded)'
  BY DaemonInvNext, BoundedNext
<1>3. ASSUME DaemonInv, NEW l \in Loop
      PROVE  Cardinality(handled[l]) <= 1
  <2>1. CASE handled[l] = {}
    BY <2>1, FS_EmptySet
  <2>2. CASE handled[l] # {}
    <3>1. PICK d \in handled[l] : handled[l] = {d}
      BY <1>3, <2>2 DEF DaemonInv, Phases
    <3> QED BY <3>1, FS_Singleton
  <2> QED BY <2>1, <2>2
<1>4. DaemonInv /\ Bounded /\ MigrationInv => TypeOK
  BY <1>3 DEF TypeOK, DaemonInv, Counts, Phases, Bounded, MigrationInv
<1> QED BY <1>1, <1>2, <1>4, ProcessesOnlyMigrate, MigrationInvHolds, PTL DEF Spec

(* In the system as a whole every migration takes effect once ... *)
THEOREM SystemMigratesOnce == Spec => []EachMigrationOnce
BY ProcessesOnlyMigrate, MigrationsTakeEffectOnce, PTL

(* ... and the daemon and the commands find the schema that their own directory asks for. *)
THEOREM SystemHasItsSchema == Spec => []ReadyHasItsSchema
BY ProcessesOnlyMigrate, MigratedMeansSchema, PTL
============================================================================
