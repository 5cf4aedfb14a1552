--------------------------- MODULE RuntimeDaemon ---------------------------
(***************************************************************************)
(* The processes of the system and how they start and stop: the daemon     *)
(* (main.ts, daemon.ts, component.ts, consumer-runner.ts), which launchd   *)
(* starts again whenever it has exited, and the commands of the CLI.  All  *)
(* of them bring the schema up to date first, as in Migrations.            *)
(*                                                                         *)
(* The daemon runs a loop per consumer group and the WeChat receiver.  The *)
(* scheduler counts as a loop that nothing is delivered to.  What handlers *)
(* do is one effect, which a claimed delivery has once per handling; which *)
(* deliveries a claim takes, and when a lease or a delay is over, is left  *)
(* open here (HubBox and EventHub say which and when).                     *)
(***************************************************************************)
EXTENDS Migrations, FiniteSets

CONSTANTS
  Daemon, Receiver,
  Loop,
  Message,
  Reads,         \* Reads[m]: the loops that message m, sent by a command, is delivered to
  BatchSize, MaxAttempts,
  MaxFaults,     \* bound: what throws or dies in the daemon
  MaxStops       \* bound: signals to the daemon

ASSUME DaemonAssumption ==
  /\ Daemon \in Process
  /\ Receiver \notin Loop
  /\ Reads \in [Message -> SUBSET Loop]
  /\ BatchSize \in [Loop -> Nat \ {0}]
  /\ {MaxAttempts, MaxFaults, MaxStops} \subseteq Nat

VARIABLES
  row,         \* row[d]: event_deliveries.status
  attempts,    \* attempts[d]: event_deliveries.attempts
  performed,   \* ghost: how often the effect of d's handler took place
  comp,        \* comp[c]: where component c is
  held,        \* held[l]: the claimed deliveries that l has not settled
  handled,     \* handled[l]: the one among them whose handler has had its effect, if any
  aborted,     \* the signal of the AbortController that the components share
  rejected,    \* Promise.all has rejected
  faults, stops

components == <<comp, held, handled, aborted, rejected>>
deliveries == <<row, attempts, performed>>
bounds == <<faults, stops>>
vars == <<migrationVars, deliveries, components, bounds>>

Command == Process \ {Daemon}
Delivery == {d \in Message \X Loop : d[2] \in Reads[d[1]]}
RowsOf(l) == {d \in Delivery : d[2] = l}
Component == Loop \cup {Receiver}

Init ==
  /\ MigrationInit
  /\ row = [d \in Delivery |-> "unsent"]
  /\ attempts = [d \in Delivery |-> 0]
  /\ performed = [d \in Delivery |-> 0]
  /\ comp = [c \in Component |-> "off"]
  /\ held = [l \in Loop |-> {}]
  /\ handled = [l \in Loop |-> {}]
  /\ aborted = FALSE
  /\ rejected = FALSE
  /\ faults = 0
  /\ stops = 0

Fault == faults < MaxFaults /\ faults' = faults + 1 /\ UNCHANGED stops

NoFault == UNCHANGED bounds

AllEnded == \A c \in Component : comp[c] = "ended"

-----------------------------------------------------------------------------
(* The CLI: main.ts, commands.ts *)

(* Whatever a command does, it migrates first. *)
CliMigrates(p) ==
  /\ ReadStatus(p) \/ ApplyMigration(p) \/ MigrationFails(p) \/ Migrated(p)
  /\ UNCHANGED <<deliveries, components, bounds>>

(* cli send: one message, and the process has done its work. *)
CliSends(p, m) ==
  /\ CloseDatabase(p)
  /\ \A l \in Reads[m] : row[<<m, l>>] = "unsent"
  /\ row' = [d \in Delivery |-> IF d[1] = m THEN "pending" ELSE row[d]]
  /\ UNCHANGED <<attempts, performed, components, bounds>>

(* It exits, with or without having sent a message, or is killed. *)
CliEnds(p) ==
  /\ stage[p] # "off"
  /\ Leave(p)
  /\ UNCHANGED <<deliveries, components, bounds>>

-----------------------------------------------------------------------------
(* The daemon's process *)

DaemonMigrates ==
  /\ ReadStatus(Daemon) \/ ApplyMigration(Daemon) \/ MigrationFails(Daemon)
  /\ UNCHANGED <<deliveries, components, bounds>>

(* runRuntimeComponents: the loops run up to their first claim and beyond before the     *)
(* receiver has an account or has failed.                                                *)
StartComponents ==
  /\ Migrated(Daemon)
  /\ comp' = [c \in Component |-> IF c = Receiver THEN "starting" ELSE "running"]
  /\ UNCHANGED <<held, handled, aborted, rejected, deliveries, bounds>>

(* SIGINT or SIGTERM.  The next one kills: it is a Crash. *)
Signal ==
  /\ stage[Daemon] = "ready"
  /\ ~aborted
  /\ stops < MaxStops
  /\ stops' = stops + 1
  /\ aborted' = TRUE
  /\ UNCHANGED <<comp, held, handled, rejected, deliveries, migrationVars, faults>>

(* Mutant: a stop closes the database without waiting for the components. *)
DatabaseCloses_AtOnce ==
  /\ aborted
  /\ CloseDatabase(Daemon)
  /\ UNCHANGED <<deliveries, components, bounds>>

(* The finally block of runRuntimeDaemon: Promise.all has resolved, or the first         *)
(* component has failed, whatever the others are doing.                                  *)
DatabaseCloses ==
  /\ rejected \/ AllEnded
  /\ CloseDatabase(Daemon)
  /\ UNCHANGED <<deliveries, components, bounds>>

(* The process is gone. *)
LeaveDaemon ==
  /\ Leave(Daemon)
  /\ comp' = [c \in Component |-> "off"]
  /\ held' = [l \in Loop |-> {}]
  /\ handled' = [l \in Loop |-> {}]
  /\ aborted' = FALSE
  /\ rejected' = FALSE

(* Nothing calls process.exit: the process ends when nothing is left for it to wait for. *)
Exit ==
  /\ stage[Daemon] = "closed"
  /\ AllEnded
  /\ LeaveDaemon
  /\ UNCHANGED <<deliveries, bounds>>

Crash ==
  /\ stage[Daemon] # "off"
  /\ Fault
  /\ LeaveDaemon
  /\ UNCHANGED deliveries

-----------------------------------------------------------------------------
(* The components *)

Ends(c) ==
  /\ comp' = [comp EXCEPT ![c] = "ended"]
  /\ held' = [l \in Loop |-> IF l = c THEN {} ELSE held[l]]
  /\ handled' = [l \in Loop |-> IF l = c THEN {} ELSE handled[l]]

ReceiverStarts ==
  /\ comp[Receiver] = "starting"
  /\ comp' = [comp EXCEPT ![Receiver] = "running"]
  /\ UNCHANGED <<held, handled, aborted, rejected, deliveries, migrationVars, bounds>>

(* A poll is cut short by the abort; a loop looks at it before each claim only. *)
ComponentEnds(c) ==
  /\ aborted
  /\ comp[c] = "running"
  /\ c \in Loop => held[c] = {}
  /\ Ends(c)
  /\ UNCHANGED <<aborted, rejected, deliveries, migrationVars, bounds>>

(* Mutant: a component that fails does not stop the others. *)
ComponentThrows_Alone(c) ==
  /\ stage[Daemon] = "ready"
  /\ comp[c] = (IF c = Receiver THEN "starting" ELSE "running")
  /\ Fault
  /\ Ends(c)
  /\ rejected' = (rejected \/ ~aborted)
  /\ UNCHANGED <<aborted, deliveries, migrationVars>>

(* The claim of a loop throws, or failDelivery does, and what it held stays as it is; or *)
(* the receiver finds no account.  After an abort the error is only logged.              *)
ComponentThrows(c) ==
  /\ stage[Daemon] = "ready"
  /\ comp[c] = (IF c = Receiver THEN "starting" ELSE "running")
  /\ Fault
  /\ Ends(c)
  /\ rejected' = (rejected \/ ~aborted)
  /\ aborted' = TRUE
  /\ UNCHANGED <<deliveries, migrationVars>>

(* A handler returns when the database is closed: neither ack nor failDelivery can tell. *)
CutOff(l) ==
  /\ stage[Daemon] = "closed"
  /\ held[l] # {}
  /\ Ends(l)
  /\ UNCHANGED <<aborted, rejected, deliveries, migrationVars, bounds>>

(* claimReadyDeliveries.  A row that is running is held by nobody here: its lease ends.  *)
Claim(l) ==
  /\ stage[Daemon] = "ready"
  /\ comp[l] = "running"
  /\ ~aborted
  /\ held[l] = {}
  /\ \E D \in SUBSET {d \in RowsOf(l) : row[d] \in {"pending", "running"}} :
       /\ Cardinality(D) \in 1 .. BatchSize[l]
       /\ held' = [held EXCEPT ![l] = D]
       /\ row' = [d \in Delivery |-> IF d \in D THEN "running" ELSE row[d]]
       /\ attempts' = [d \in Delivery |-> IF d \in D THEN attempts[d] + 1 ELSE attempts[d]]
  /\ UNCHANGED <<performed, comp, handled, aborted, rejected, migrationVars, bounds>>

(* Mutant: the handlers of a batch are not awaited one by one. *)
Perform_Together(l) ==
  /\ \E d \in held[l] \ handled[l] :
       /\ handled' = [handled EXCEPT ![l] = @ \cup {d}]
       /\ performed' = [performed EXCEPT ![d] = @ + 1]
  /\ UNCHANGED <<row, attempts, comp, held, aborted, rejected, migrationVars, bounds>>

(* Codex and WeChat do not need the database. *)
Perform(l) ==
  /\ handled[l] = {}
  /\ \E d \in held[l] :
       /\ handled' = [handled EXCEPT ![l] = {d}]
       /\ performed' = [performed EXCEPT ![d] = @ + 1]
  /\ UNCHANGED <<row, attempts, comp, held, aborted, rejected, migrationVars, bounds>>

Settle(l, d, s) ==
  /\ row' = [row EXCEPT ![d] = s]
  /\ held' = [held EXCEPT ![l] = @ \ {d}]
  /\ handled' = [handled EXCEPT ![l] = {}]
  /\ UNCHANGED <<attempts, performed, comp, aborted, rejected, migrationVars>>

Ack(l) ==
  /\ stage[Daemon] = "ready"
  /\ \E d \in handled[l] : Settle(l, d, "acked")
  /\ NoFault

(* The handler throws, before its effect or after it, or the ack does. *)
Fail(l) ==
  /\ stage[Daemon] = "ready"
  /\ \E d \in held[l] :
       /\ handled[l] \subseteq {d}
       /\ Settle(l, d, IF attempts[d] >= MaxAttempts THEN "dead_letter" ELSE "pending")
  /\ Fault

-----------------------------------------------------------------------------
DaemonStep == DaemonMigrates \/ StartComponents \/ DatabaseCloses \/ Exit

LoopStep(l) == ComponentEnds(l) \/ CutOff(l) \/ Claim(l) \/ Perform(l) \/ Ack(l)

ReceiverStep == ReceiverStarts \/ ComponentEnds(Receiver)

Next ==
  \/ DaemonStep \/ Signal \/ Crash \/ ReceiverStep
  \/ \E c \in Component : ComponentThrows(c)
  \/ \E l \in Loop : LoopStep(l) \/ Fail(l)
  \/ \E p \in Command : CliMigrates(p) \/ CliEnds(p) \/ \E m \in Message : CliSends(p, m)

(* launchd's KeepAlive, the components' own loops, and handlers that return. *)
Spec ==
  /\ Init /\ [][Next]_vars
  /\ WF_vars(DaemonStep)
  /\ WF_vars(ReceiverStep)
  /\ \A l \in Loop : WF_vars(LoopStep(l))

-----------------------------------------------------------------------------
(* Properties *)

TypeOK ==
  /\ MigrationTypeOK
  /\ row \in [Delivery -> {"unsent", "pending", "running", "acked", "dead_letter"}]
  /\ attempts \in [Delivery -> Nat]
  /\ performed \in [Delivery -> Nat]
  /\ comp \in [Component -> {"off", "starting", "running", "ended"}]
  /\ held \in [Loop -> SUBSET Delivery]
  /\ \A l \in Loop : handled[l] \subseteq held[l] /\ Cardinality(handled[l]) <= 1
  /\ {aborted, rejected} \subseteq BOOLEAN
  /\ faults \in 0 .. MaxFaults
  /\ stops \in 0 .. MaxStops

(* However often the daemon is stopped and started, its work is done again only because  *)
(* something threw or died, once for each time; and a delivery is given up only after    *)
(* that many faults, though they need not all be failures of its own handler.            *)
WorkRepeatsNeedFaults ==
  \A d \in Delivery :
    /\ performed[d] <= 1 + faults
    /\ row[d] = "dead_letter" => faults >= MaxAttempts

(* Every message that the CLI accepted is handled or given up in the end, whatever fails *)
(* or dies in the daemon on the way: it always comes back.                               *)
SentIsSettled ==
  \A d \in Delivery : row[d] = "pending" ~> row[d] \in {"acked", "dead_letter"}
=============================================================================
