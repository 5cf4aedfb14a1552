-------------------------- MODULE SupervisorSession --------------------------
(***************************************************************************)
(* The supervisor's session: the turns of the supervisor with their tool   *)
(* loop, and the maintenance sidecar that ends the session and leaves a    *)
(* handoff for the next one.  Both are woken by the same request, since    *)
(* the router gives handoff_required to both groups.                       *)
(*                                                                         *)
(* One daemon, each loop with batches of one.  A turn yields while Codex   *)
(* thinks, and maintenance never does: from its claim to its return        *)
(* nothing else runs (~Yielded).  Each write is a transaction of its own,  *)
(* so a step per write, after which the process can die or the next write  *)
(* throw.  The hub is that of EventHub without time and order: a row that  *)
(* failed, or that a dead process held, can be claimed again at any time,  *)
(* and any due row may be next.  Left out: texts, summaries but for whose  *)
(* they are, the id of the Codex thread, which the runner updates when     *)
(* Codex has changed it, and the deliveries of maintenance's own reports,  *)
(* which come back to it and are acked without more.                       *)
(***************************************************************************)
EXTENDS Naturals, Sequences, FiniteSets

CONSTANTS
  MaxAttempts,
  MaxToolIterations,
  MaxTriggers,   \* bound: messages to the supervisor other than requests
  MaxRequests,   \* bound: requests for a handoff
  MaxThrows,     \* bound: how often a write throws or Codex fails
  MaxCrashes     \* bound: how often the daemon dies

ASSUME LimitsAssumption ==
  /\ MaxAttempts \in Nat \ {0}
  /\ MaxToolIterations \in Nat
  /\ {MaxTriggers, MaxRequests, MaxThrows, MaxCrashes} \subseteq Nat

VARIABLES
  log,        \* event_log: the types of the messages that wake the two groups
  told,       \* event_log: the other messages, as <<type, causation_id>>
  rows,       \* rows[g][i]: the delivery of message i to group g
  sessions,   \* sessions with the role supervisor, in the order of creation
  handoffs,   \* session_handoffs, in the order of creation
  turn,       \* the turn of the supervisor
  upkeep,     \* the handler of maintenance
  throws, crashes

vars == <<log, told, rows, sessions, handoffs, turn, upkeep, throws, crashes>>

hub == <<log, told, rows>>
tables == <<sessions, handoffs>>
bounds == <<throws, crashes>>

Hub == INSTANCE Router

Group == {"supervisor_group", "maintenance_group"}

Request == "event.maintenance.handoff_required"
Trigger == "event.user.message_received"   \* stands for whatever else wakes the supervisor

(* message: the message in hand; session, handoff: what the turn has read, 0 for none.    *)
NoTurn == [pc |-> "idle", message |-> 0, session |-> 0, handoff |-> 0, round |-> 0]

NoUpkeep == [pc |-> "idle", message |-> 0, session |-> 0]

Init ==
  /\ log = <<>>
  /\ told = {}
  /\ rows = [g \in Group |-> <<>>]
  /\ sessions = <<>>
  /\ handoffs = <<>>
  /\ turn = NoTurn
  /\ upkeep = NoUpkeep
  /\ throws = 0
  /\ crashes = 0

Yielded == turn.pc \in {"idle", "thinking", "answered", "handled"} /\ upkeep.pc \in {"idle", "handled"}

-----------------------------------------------------------------------------
(* The event hub *)

Readers(type) == Group \cap Hub!RouteOf(type, "absent", FALSE)

(* A message for the supervisor, or the scheduler's request for a handoff. *)
Arrive(type, bound) ==
  /\ Yielded
  /\ Cardinality({i \in DOMAIN log : log[i] = type}) < bound
  /\ log' = Append(log, type)
  /\ rows' = [g \in Group |->
                Append(rows[g], [status |-> IF g \in Readers(type) THEN "due" ELSE "none",
                                 attempts |-> 0])]
  /\ UNCHANGED <<told, tables, turn, upkeep, bounds>>

Tell(type, cause) ==
  /\ told' = told \cup {<<type, cause>>}
  /\ UNCHANGED <<log, rows>>

Claimed(r) == [r EXCEPT !.status = "running", !.attempts = @ + 1]

Settle(g, i, s) == rows' = [rows EXCEPT ![g][i].status = s]

Fail(g, i) == Settle(g, i, IF rows[g][i].attempts >= MaxAttempts THEN "dead_letter" ELSE "due")

-----------------------------------------------------------------------------
(* The supervisor: runSupervisorTurn and runCodexToolLoop *)

Active == {s \in DOMAIN sessions : sessions[s].status = "active"}

(* What a SELECT ... LIMIT 1 finds: the newest of S, or 0 for no row. *)
Newest(S) == IF S = {} THEN {0} ELSE {s \in S : \A r \in S : r <= s}

PendingHandoffs == {h \in DOMAIN handoffs : handoffs[h].status = "archived" /\ handoffs[h].new = 0}

(* Mutant: ORDER BY updated_at. *)
PendingHandoff_Oldest ==
  IF PendingHandoffs = {} THEN {0}
                          ELSE {h \in PendingHandoffs : \A r \in PendingHandoffs : h <= r}

(* getPendingHandoff.  One handoff is archived after the other, and a turn of Codex lies  *)
(* between, so ORDER BY updated_at DESC takes the one that was created last.              *)
PendingHandoff == Newest(PendingHandoffs)

(* The claim, and what the handler reads before Codex is called. *)
BeginTurn(i) ==
  /\ Yielded
  /\ turn.pc = "idle"
  /\ rows["supervisor_group"][i].status = "due"
  /\ rows' = [rows EXCEPT !["supervisor_group"][i] = Claimed(@)]
  /\ \E s \in Newest(Active), h \in IF Active = {} THEN PendingHandoff ELSE {0} :
       turn' = [pc |-> "thinking", message |-> i, session |-> s, handoff |-> h, round |-> 0]
  /\ UNCHANGED <<log, told, tables, upkeep, bounds>>

(* Mutant: the limit is looked at after the next round. *)
LastRound_OffByOne == turn.round > MaxToolIterations

LastRound == turn.round = MaxToolIterations

(* Codex asks for tools, and they run, whatever they append or write.  Then the loop goes *)
(* on in the same thread, but for the last round and for a first answer that names none.  *)
AskForTools ==
  /\ Yielded
  /\ turn.pc = "thinking"
  /\ \/ /\ ~LastRound
        /\ turn' = [turn EXCEPT !.round = @ + 1]
     \/ /\ LastRound \/ (turn.session = 0 /\ turn.round = 0)
        /\ turn' = [turn EXCEPT !.pc = "answered"]
  /\ UNCHANGED <<hub, tables, upkeep, bounds>>

(* Codex gives its final message. *)
Answer ==
  /\ Yielded
  /\ turn.pc = "thinking"
  /\ turn' = [turn EXCEPT !.pc = "answered"]
  /\ UNCHANGED <<hub, tables, upkeep, bounds>>

(* Mutant: the session in hand is not looked at. *)
CreateSession_EveryTurn ==
  /\ Yielded
  /\ turn.pc = "answered"
  /\ sessions' = Append(sessions, [status |-> "active", handoff |-> turn.handoff])
  /\ turn' = [turn EXCEPT !.pc = IF turn.handoff = 0 THEN "recorded" ELSE "created"]
  /\ UNCHANGED <<hub, handoffs, upkeep, bounds>>

(* registry.create *)
CreateSession ==
  /\ Yielded
  /\ turn.pc = "answered"
  /\ turn.session = 0
  /\ sessions' = Append(sessions, [status |-> "active", handoff |-> turn.handoff])
  /\ turn' = [turn EXCEPT !.pc = IF turn.handoff = 0 THEN "recorded" ELSE "created"]
  /\ UNCHANGED <<hub, handoffs, upkeep, bounds>>

(* markHandoffActivated *)
ActivateHandoff ==
  /\ turn.pc = "created"
  /\ handoffs' = [handoffs EXCEPT ![turn.handoff] =
                    [@ EXCEPT !.status = "activated", !.new = Len(sessions)]]
  /\ turn' = [turn EXCEPT !.pc = "recorded"]
  /\ UNCHANGED <<hub, sessions, upkeep, bounds>>

(* Mutant: only a turn of a new session is told of. *)
CompleteTurn_NewOnly ==
  /\ \/ turn.pc = "recorded"
     \/ Yielded /\ turn.pc = "answered" /\ turn.session # 0
  /\ IF turn.session = 0 THEN Tell("event.supervisor.turn_completed", turn.message)
                         ELSE UNCHANGED hub
  /\ turn' = [turn EXCEPT !.pc = "handled"]
  /\ UNCHANGED <<tables, upkeep, bounds>>

CompleteTurn ==
  /\ \/ turn.pc = "recorded"
     \/ Yielded /\ turn.pc = "answered" /\ turn.session # 0
  /\ Tell("event.supervisor.turn_completed", turn.message)
  /\ turn' = [turn EXCEPT !.pc = "handled"]
  /\ UNCHANGED <<tables, upkeep, bounds>>

AckTurn ==
  /\ Yielded
  /\ turn.pc = "handled"
  /\ Settle("supervisor_group", turn.message, "acked")
  /\ turn' = NoTurn
  /\ UNCHANGED <<log, told, tables, upkeep, bounds>>

-----------------------------------------------------------------------------
(* Maintenance: createMaintenanceHandler *)

BeginUpkeep(i) ==
  /\ Yielded
  /\ upkeep.pc = "idle"
  /\ rows["maintenance_group"][i].status = "due"
  /\ rows' = [rows EXCEPT !["maintenance_group"][i] = Claimed(@)]
  /\ upkeep' = [upkeep EXCEPT !.pc = "claimed", !.message = i]
  /\ UNCHANGED <<log, told, tables, turn, bounds>>

(* getActive, buildHandoffSummary and createHandoffRow *)
RequestHandoff ==
  /\ upkeep.pc = "claimed"
  /\ \E s \in Newest(Active) :
       /\ handoffs' = Append(handoffs, [status |-> "requested", old |-> s, new |-> 0])
       /\ upkeep' = [upkeep EXCEPT !.pc = "requested", !.session = s]
  /\ UNCHANGED <<hub, sessions, turn, bounds>>

SetHandoff(s) == handoffs' = [handoffs EXCEPT ![Len(handoffs)].status = s]

(* updateHandoffStatus: without an active session the handoff is skipped. *)
Skip ==
  /\ upkeep.pc = "requested"
  /\ upkeep.session = 0
  /\ SetHandoff("skipped")
  /\ upkeep' = [upkeep EXCEPT !.pc = "skipped"]
  /\ UNCHANGED <<hub, sessions, turn, bounds>>

AppendSkipped ==
  /\ upkeep.pc = "skipped"
  /\ Tell("event.maintenance.handoff_skipped", upkeep.message)
  /\ upkeep' = [upkeep EXCEPT !.pc = "handled"]
  /\ UNCHANGED <<tables, turn, bounds>>

Summarize ==
  /\ upkeep.pc = "requested"
  /\ upkeep.session # 0
  /\ SetHandoff("summarized")
  /\ upkeep' = [upkeep EXCEPT !.pc = "summarized"]
  /\ UNCHANGED <<hub, sessions, turn, bounds>>

(* Mutant: a session in which a turn is under way is left to the turn. *)
ArchiveSession_UnlessBusy ==
  /\ upkeep.pc = "summarized"
  /\ sessions' = IF turn.session = upkeep.session
                   THEN sessions
                   ELSE [sessions EXCEPT ![upkeep.session].status = "archived"]
  /\ upkeep' = [upkeep EXCEPT !.pc = "sessionArchived"]
  /\ UNCHANGED <<hub, handoffs, turn, bounds>>

(* registry.archive *)
ArchiveSession ==
  /\ upkeep.pc = "summarized"
  /\ sessions' = [sessions EXCEPT ![upkeep.session].status = "archived"]
  /\ upkeep' = [upkeep EXCEPT !.pc = "sessionArchived"]
  /\ UNCHANGED <<hub, handoffs, turn, bounds>>

ArchiveHandoff ==
  /\ upkeep.pc = "sessionArchived"
  /\ SetHandoff("archived")
  /\ upkeep' = [upkeep EXCEPT !.pc = "archived"]
  /\ UNCHANGED <<hub, sessions, turn, bounds>>

AppendArchived ==
  /\ upkeep.pc = "archived"
  /\ Tell("event.session.archived", upkeep.message)
  /\ upkeep' = [upkeep EXCEPT !.pc = "announced"]
  /\ UNCHANGED <<tables, turn, bounds>>

AppendHandoffCompleted ==
  /\ upkeep.pc = "announced"
  /\ Tell("event.maintenance.handoff_completed", upkeep.message)
  /\ upkeep' = [upkeep EXCEPT !.pc = "handled"]
  /\ UNCHANGED <<tables, turn, bounds>>

AckUpkeep ==
  /\ Yielded
  /\ upkeep.pc = "handled"
  /\ Settle("maintenance_group", upkeep.message, "acked")
  /\ upkeep' = NoUpkeep
  /\ UNCHANGED <<log, told, tables, turn, bounds>>

-----------------------------------------------------------------------------
(* What goes wrong *)

(* Codex fails, or a write of the turn or its ack throws. *)
TurnThrows ==
  /\ \/ turn.pc \in {"created", "recorded"}
     \/ Yielded /\ turn.pc \in {"thinking", "answered", "handled"}
  /\ throws < MaxThrows
  /\ throws' = throws + 1
  /\ Fail("supervisor_group", turn.message)
  /\ turn' = NoTurn
  /\ UNCHANGED <<log, told, tables, upkeep, crashes>>

(* A write of maintenance, or its ack, throws. *)
UpkeepThrows ==
  /\ upkeep.pc \notin {"idle", "handled"} \/ (Yielded /\ upkeep.pc = "handled")
  /\ throws < MaxThrows
  /\ throws' = throws + 1
  /\ Fail("maintenance_group", upkeep.message)
  /\ upkeep' = NoUpkeep
  /\ UNCHANGED <<log, told, tables, turn, crashes>>

(* The daemon dies and is started again; the leases of what it held run out. *)
Crash ==
  /\ crashes < MaxCrashes
  /\ crashes' = crashes + 1
  /\ rows' = [g \in Group |->
                [i \in DOMAIN log |->
                   IF rows[g][i].status = "running" THEN [rows[g][i] EXCEPT !.status = "due"]
                                                    ELSE rows[g][i]]]
  /\ turn' = NoTurn
  /\ upkeep' = NoUpkeep
  /\ UNCHANGED <<log, told, tables, throws>>

TurnStep ==
  \/ \E i \in DOMAIN log : BeginTurn(i)
  \/ AskForTools \/ Answer
  \/ CreateSession \/ ActivateHandoff \/ CompleteTurn
  \/ AckTurn

UpkeepStep ==
  \/ \E i \in DOMAIN log : BeginUpkeep(i)
  \/ RequestHandoff
  \/ Skip \/ AppendSkipped
  \/ Summarize \/ ArchiveSession \/ ArchiveHandoff \/ AppendArchived \/ AppendHandoffCompleted
  \/ AckUpkeep

Next ==
  \/ Arrive(Trigger, MaxTriggers)
  \/ Arrive(Request, MaxRequests)
  \/ TurnStep
  \/ UpkeepStep
  \/ TurnThrows
  \/ UpkeepThrows
  \/ Crash

Spec == Init /\ [][Next]_vars

(* The loops go on and Codex answers or fails in the end. *)
FairSpec == Spec /\ WF_vars(TurnStep) /\ WF_vars(UpkeepStep)

-----------------------------------------------------------------------------
(* Properties *)

TypeOK ==
  /\ log \in Seq({Trigger, Request})
  /\ told \subseteq Hub!MessageTypes \X (DOMAIN log)
  /\ rows \in [Group -> Seq([status : {"none", "due", "running", "acked", "dead_letter"},
                             attempts : Nat])]
  /\ \A g \in Group : Len(rows[g]) = Len(log)
  /\ sessions \in Seq([status : {"active", "archived"}, handoff : 0..Len(handoffs)])
  /\ handoffs \in Seq([status : {"requested", "summarized", "archived", "activated", "skipped"},
                       old : 0..Len(sessions), new : 0..Len(sessions)])
  /\ turn \in [pc : {"idle", "thinking", "answered", "created", "recorded", "handled"},
               message : 0..Len(log), session : 0..Len(sessions), handoff : 0..Len(handoffs),
               round : 0..MaxToolIterations]
  /\ upkeep \in [pc : {"idle", "claimed", "requested", "skipped", "summarized", "sessionArchived",
                       "archived", "announced", "handled"},
                 message : 0..Len(log), session : 0..Len(sessions)]
  /\ throws \in 0..MaxThrows
  /\ crashes \in 0..MaxCrashes

Inherits(s) == IF sessions[s].handoff = 0 THEN 0 ELSE handoffs[sessions[s].handoff].old

chainView == [s \in DOMAIN sessions |->
                [open |-> sessions[s].status = "active", inherits |-> Inherits(s)]]

Chain == INSTANCE SessionChain WITH chain <- chainView

(* The sessions follow one another: a turn that read "no active session" before Codex was *)
(* asked may still create one after, since nobody else can have created one meanwhile.    *)
ImplementsChain == Chain!Spec

(* When the handoff of a session has reached "archived", the next session starts from it, *)
(* and not from an older one that a crash or a throw has left unused.                     *)
SuccessorTakesNewest ==
  \A s \in DOMAIN sessions, h \in DOMAIN handoffs :
    /\ handoffs[h].old = s
    /\ handoffs[h].status \in {"archived", "activated"}
    /\ s + 1 \in DOMAIN sessions
    => sessions[s + 1].handoff = h

Told(i, types) == \E type \in types : <<type, i>> \in told

(* An acked message has had its turn to the end, and an acked request its rotation or its *)
(* refusal, and the log says so.                                                          *)
AckedIsTold ==
  \A i \in DOMAIN log :
    /\ rows["supervisor_group"][i].status = "acked" => Told(i, {"event.supervisor.turn_completed"})
    /\ rows["maintenance_group"][i].status = "acked" =>
         Told(i, {"event.maintenance.handoff_completed", "event.maintenance.handoff_skipped"})

RequestIs(status) ==
  \E i \in DOMAIN log : log[i] = Request /\ rows["maintenance_group"][i].status = status

(* A request that nobody has taken yet ends the session that is active now, also when a   *)
(* turn of that session is under way, unless a request is given up.                       *)
HandoffEndsSession ==
  \A s \in 1..(MaxRequests + 1) :
    s \in Active /\ RequestIs("due") ~> s \notin Active \/ RequestIs("dead_letter")

(* What supervisor-contract.md says, that the handoff summary is the starting context of  *)
(* the new session: a session starts from the summary of the one before it.               *)
SummaryReachesSuccessor ==
  \A s \in DOMAIN sessions :
    s > 1 => sessions[s].handoff # 0 /\ handoffs[sessions[s].handoff].old = s - 1
==============================================================================
