--------------------------- MODULE TaskLifecycle ---------------------------
(***************************************************************************)
(* The life of a task: the supervisor's tools that command it, the worker  *)
(* group that runs it, the worker's tools that report on it and the        *)
(* projection that shows it.  tasks, task_runs and task_events are written *)
(* by the worker; tasks_current_state and task_runs_current_state by the   *)
(* projection of what was logged.                                          *)
(*                                                                         *)
(* One daemon.  JavaScript runs from await to await, so while the worker   *)
(* or a tool is between two of its writes (~Yielded) nobody else runs; but *)
(* every write is a transaction of its own, so a step per write: the       *)
(* process can die, or the next write throw, after each.  The event hub is *)
(* that of HubBox.  Left out: the texts, artifacts, the worker's session   *)
(* row and messages to the supervisor.                                     *)
(***************************************************************************)
EXTENDS HubBox

CONSTANTS
  Task,
  NoTask,
  CommandPriority,  \* the priorities that a start or continue may ask for
  EventPriority,    \* the default priority: of events and of cancel
  Outcome,          \* the statuses that a worker may end a run with
  Budgets           \* bound: how much a behaviour may hold of what comes from outside

ASSUME ConstantsAssumption ==
  /\ Group = {"worker_group", "projection_group"}
  /\ NoTask \notin Task
  /\ CommandPriority \cup {EventPriority} \subseteq Nat
  /\ "error" \in Outcome
  /\ Outcome \subseteq {"success", "warning", "error", "needs_decision", "cancelled", "timed_out"}
  /\ Budgets \subseteq [commands : Nat, reports : Nat, throws : Nat, crashes : Nat,
                        outcomes : SUBSET Outcome, priorities : SUBSET CommandPriority]

VARIABLES
  tasks,       \* tasks[t]: tasks.status
  runs,        \* task_runs, with the command that each run serves
  taskEvents,  \* task_events: pairs <<run, status>>
  view,        \* tasks_current_state
  runView,     \* runView[r]: task_runs_current_state.status
  turn,        \* where the worker is, and what it works on
  starting,    \* the task whose row the tool task.start has inserted, else NoTask
  projected,   \* the projection has applied the head of its batch, and not acked it
  budget,      \* the bound that this behaviour has, one of Budgets
  reports, throws, crashes,
  disturbed    \* ghost: a crash or a throw has made the projection take messages out of order

vars == <<log, box, batch, tasks, runs, taskEvents, view, runView, turn, starting,
          projected, budget, reports, throws, crashes, disturbed>>

record == <<tasks, runs, taskEvents>>
shown == <<view, runView, projected, disturbed>>
bounds == <<budget, reports, throws, crashes>>

RunCommands == {"command.task.start", "command.task.continue"}
TaskCommands == RunCommands \cup {"command.task.cancel"}

Idle == [pc |-> "idle", run |-> 0, status |-> "none", caught |-> FALSE]

Init ==
  /\ HubInit
  /\ tasks = [t \in Task |-> "none"]
  /\ runs = <<>>
  /\ taskEvents = {}
  /\ view = [t \in Task |-> [status |-> "none", run |-> 0]]
  /\ runView = <<>>
  /\ turn = Idle
  /\ starting = NoTask
  /\ projected = FALSE
  /\ budget \in Budgets
  /\ reports = 0
  /\ throws = 0
  /\ crashes = 0
  /\ disturbed = FALSE

Yielded == turn.pc \in {"idle", "thinking", "handled"} /\ starting = NoTask

-----------------------------------------------------------------------------
(* The event hub *)

(* The groups that act on a message; the projection ignores continue and cancel.         *)
Readers(type) ==
  {g \in Group : IF g = "worker_group"
                   THEN type \in TaskCommands
                   ELSE type \notin TaskCommands \ {"command.task.start"}}

LogMessage(m) == LogFor(m, Readers(m.type))

Command(type, t, p) == [type |-> type, task |-> t, run |-> 0, status |-> "none", priority |-> p]

Event(type, t, r, s) == [type |-> type, task |-> t, run |-> r, status |-> s, priority |-> EventPriority]

Claim(g) ==
  /\ Yielded
  /\ ClaimBatch(g)
  /\ UNCHANGED <<record, shown, turn, starting, bounds>>

Retry(g, i) ==
  /\ Yielded
  /\ DelayEnds(g, i)
  /\ UNCHANGED <<record, shown, turn, starting, bounds>>

Lapse(g, i) ==
  /\ Yielded
  /\ LeaseEnds(g, i)
  /\ UNCHANGED <<record, shown, turn, starting, bounds>>

-----------------------------------------------------------------------------
(* The supervisor's tools, supervisor-tools.ts *)

MayCommand ==
  /\ Yielded
  /\ Cardinality({i \in DOMAIN log : log[i].type \in TaskCommands}) < budget.commands

(* task.start: the row of the task, then the command. *)
StartTask(t) ==
  /\ MayCommand
  /\ tasks[t] = "none"
  /\ tasks' = [tasks EXCEPT ![t] = "pending"]
  /\ starting' = t
  /\ UNCHANGED <<hub, runs, taskEvents, shown, turn, bounds>>

AppendStart ==
  /\ starting # NoTask
  /\ \E p \in budget.priorities : LogMessage(Command("command.task.start", starting, p))
  /\ starting' = NoTask
  /\ UNCHANGED <<batch, record, shown, turn, bounds>>

ContinueTask(t) ==
  /\ MayCommand
  /\ tasks[t] # "none"
  /\ \E p \in budget.priorities : LogMessage(Command("command.task.continue", t, p))
  /\ UNCHANGED <<batch, record, shown, turn, starting, bounds>>

CancelCommand(t) ==
  /\ MayCommand
  /\ tasks[t] # "none"
  /\ LogMessage(Command("command.task.cancel", t, EventPriority))
  /\ UNCHANGED <<batch, record, shown, turn, starting, bounds>>

-----------------------------------------------------------------------------
(* The worker group, group.ts *)

Current == Head(batch["worker_group"])
CurrentTask == log[Current].task

(* The handler is called with the next message of the batch, of one of these types.       *)
Handles(types) ==
  /\ Yielded
  /\ turn.pc = "idle"
  /\ batch["worker_group"] # <<>>
  /\ log[Current].type \in types

Goto(pc) == turn' = [turn EXCEPT !.pc = pc]

(* ensureTaskRow: running, whatever the task was. *)
EnsureTask ==
  /\ Handles(RunCommands)
  /\ tasks' = [tasks EXCEPT ![CurrentTask] = "running"]
  /\ Goto("ensured")
  /\ UNCHANGED <<hub, runs, taskEvents, shown, starting, bounds>>

(* createTaskRun and the session row: a run of its own for every attempt. *)
CreateRun ==
  /\ turn.pc = "ensured"
  /\ runs' = Append(runs, [task |-> CurrentTask, command |-> Current, status |-> "running"])
  /\ runView' = Append(runView, "none")
  /\ turn' = [turn EXCEPT !.pc = "created", !.run = Len(runs) + 1]
  /\ UNCHANGED <<hub, tasks, taskEvents, view, projected, disturbed, starting, bounds>>

AppendStarted ==
  /\ turn.pc = "created"
  /\ LogMessage(Event("event.task.run_started", CurrentTask, turn.run, "running"))
  /\ Goto("thinking")
  /\ UNCHANGED <<batch, record, shown, starting, bounds>>

(* task.report_progress and task.needs_decision: the row, then the event. *)
Report(s) ==
  /\ Yielded
  /\ turn.pc = "thinking"
  /\ reports < budget.reports
  /\ reports' = reports + 1
  /\ taskEvents' = taskEvents \cup {<<turn.run, s>>}
  /\ turn' = [turn EXCEPT !.pc = "reporting", !.status = s]
  /\ UNCHANGED <<hub, tasks, runs, shown, starting, budget, throws, crashes>>

AppendReport ==
  /\ turn.pc = "reporting"
  /\ LogMessage(Event(IF turn.status = "running" THEN "event.task.progress_updated"
                                                 ELSE "event.task.needs_decision",
                      CurrentTask, turn.run, turn.status))
  /\ turn' = [turn EXCEPT !.pc = "thinking", !.status = "none"]
  /\ UNCHANGED <<batch, record, shown, starting, bounds>>

(* Codex has answered with a result that parses. *)
Answer(s) ==
  /\ Yielded
  /\ turn.pc = "thinking"
  /\ s \in budget.outcomes
  /\ turn' = [turn EXCEPT !.pc = "ending", !.status = s]
  /\ UNCHANGED <<hub, record, shown, starting, bounds>>

CatchError == turn' = [turn EXCEPT !.pc = "ending", !.status = "error", !.caught = TRUE]

(* Codex failed, or its answer does not parse. *)
AnswerFails ==
  /\ Yielded
  /\ turn.pc = "thinking"
  /\ CatchError
  /\ UNCHANGED <<hub, record, shown, starting, bounds>>

(* recordTerminalTaskEvent: task_events, task_runs, tasks and the event, in this order.   *)
RecordEvent ==
  /\ turn.pc = "ending"
  /\ taskEvents' = taskEvents \cup {<<turn.run, turn.status>>}
  /\ Goto("eventRow")
  /\ UNCHANGED <<hub, tasks, runs, shown, starting, bounds>>

(* Mutant: an error does not end the run. *)
RecordRun_NotOnError ==
  /\ turn.pc = "eventRow"
  /\ runs' = [runs EXCEPT ![turn.run].status = IF turn.caught THEN @ ELSE turn.status]
  /\ Goto("runRow")
  /\ UNCHANGED <<hub, tasks, taskEvents, shown, starting, bounds>>

RecordRun ==
  /\ turn.pc = "eventRow"
  /\ runs' = [runs EXCEPT ![turn.run].status = turn.status]
  /\ Goto("runRow")
  /\ UNCHANGED <<hub, tasks, taskEvents, shown, starting, bounds>>

(* Mutant: a status the table has no use for. *)
RecordTask_Caught ==
  /\ turn.pc = "runRow"
  /\ tasks' = [tasks EXCEPT ![CurrentTask] = IF turn.caught THEN "failed" ELSE turn.status]
  /\ Goto("taskRow")
  /\ UNCHANGED <<hub, runs, taskEvents, shown, starting, bounds>>

RecordTask ==
  /\ turn.pc = "runRow"
  /\ tasks' = [tasks EXCEPT ![CurrentTask] = turn.status]
  /\ Goto("taskRow")
  /\ UNCHANGED <<hub, runs, taskEvents, shown, starting, bounds>>

ToEventType(s) ==
  CASE s \in {"success", "warning"} -> "event.task.completed"
    [] s = "error"                  -> "event.task.failed"
    [] s = "needs_decision"         -> "event.task.needs_decision"
    [] s = "cancelled"              -> "event.task.cancelled"
    [] s = "timed_out"              -> "event.task.timed_out"

(* Mutant: the supervisor's tool already told of the need of a decision. *)
AppendOutcome_OnceToldIsEnough ==
  /\ turn.pc = "taskRow"
  /\ IF turn.status = "needs_decision"
       THEN UNCHANGED <<log, box>>
       ELSE LogMessage(Event(ToEventType(turn.status), CurrentTask, turn.run, turn.status))
  /\ Goto("handled")
  /\ UNCHANGED <<batch, record, shown, starting, bounds>>

AppendOutcome ==
  /\ turn.pc = "taskRow"
  /\ LogMessage(Event(ToEventType(turn.status), CurrentTask, turn.run, turn.status))
  /\ Goto("handled")
  /\ UNCHANGED <<batch, record, shown, starting, bounds>>

(* cancelTask: whatever the task was; no run is stopped. *)
CancelRow ==
  /\ Handles({"command.task.cancel"})
  /\ tasks' = [tasks EXCEPT ![CurrentTask] = "cancelled"]
  /\ Goto("cancelling")
  /\ UNCHANGED <<hub, runs, taskEvents, shown, starting, bounds>>

AppendCancelled ==
  /\ turn.pc = "cancelling"
  /\ LogMessage(Event("event.task.cancelled", CurrentTask, 0, "cancelled"))
  /\ Goto("handled")
  /\ UNCHANGED <<batch, record, shown, starting, bounds>>

Ack ==
  /\ Yielded
  /\ turn.pc = "handled"
  /\ Settle("worker_group", "acked")
  /\ turn' = Idle
  /\ UNCHANGED <<record, shown, starting, bounds>>

-----------------------------------------------------------------------------
(* The projection, projector.ts; events carry the status that they give *)

(* Mutant: the row of a start is upserted like the others. *)
Shown_StartOverwrites(m) ==
  LET old == view[m.task] IN
    CASE m.type = "command.task.start" -> [old EXCEPT !.status = "pending"]
      [] m.type = "event.task.run_started" ->
           IF old.status = "none" THEN old ELSE [status |-> "running", run |-> m.run]
      [] OTHER -> [status |-> m.status, run |-> IF m.run = 0 THEN old.run ELSE m.run]

Shown(m) ==
  LET old == view[m.task] IN
    CASE m.type = "command.task.start" ->
           IF old.status = "none" THEN [old EXCEPT !.status = "pending"] ELSE old
      [] m.type = "event.task.run_started" ->
           IF old.status = "none" THEN old ELSE [status |-> "running", run |-> m.run]
      [] OTHER -> [status |-> m.status, run |-> IF m.run = 0 THEN old.run ELSE m.run]

(* projectMessage for the head of the batch. *)
Project ==
  /\ Yielded
  /\ batch["projection_group"] # <<>>
  /\ ~projected
  /\ LET m == log[Head(batch["projection_group"])] IN
       /\ view' = [view EXCEPT ![m.task] = Shown(m)]
       /\ runView' = IF m.run = 0 THEN runView ELSE [runView EXCEPT ![m.run] = m.status]
  /\ projected' = TRUE
  /\ UNCHANGED <<hub, record, turn, starting, bounds, disturbed>>

AckProjection ==
  /\ Yielded
  /\ projected
  /\ Settle("projection_group", "acked")
  /\ projected' = FALSE
  /\ UNCHANGED <<record, view, runView, disturbed, turn, starting, bounds>>

-----------------------------------------------------------------------------
(* What goes wrong *)

(* A write throws.  Before the try block, within the catch block and in the ack the       *)
(* delivery fails; within the try block the error becomes the outcome; a tool turns it    *)
(* into a result for Codex.                                                               *)
WriteThrows ==
  \/ /\ \/ turn.pc \in {"ensured", "created", "cancelling", "handled"}
        \/ turn.caught /\ turn.pc \in {"ending", "eventRow", "runRow", "taskRow"}
     /\ Fail("worker_group")
     /\ turn' = Idle
     /\ UNCHANGED starting
  \/ /\ ~turn.caught /\ turn.pc \in {"ending", "eventRow", "runRow", "taskRow"}
     /\ CatchError
     /\ UNCHANGED <<hub, starting>>
  \/ /\ turn.pc = "reporting"
     /\ turn' = [turn EXCEPT !.pc = "thinking", !.status = "none"]
     /\ UNCHANGED <<hub, starting>>
  \/ /\ starting # NoTask
     /\ starting' = NoTask
     /\ UNCHANGED <<hub, turn>>

Throw ==
  /\ throws < budget.throws
  /\ throws' = throws + 1
  /\ WriteThrows
  /\ UNCHANGED <<record, shown, budget, reports, crashes>>

(* A write of the projection throws, or its ack. *)
ProjectionThrows ==
  /\ Yielded
  /\ throws < budget.throws
  /\ batch["projection_group"] # <<>>
  /\ throws' = throws + 1
  /\ Fail("projection_group")
  /\ projected' = FALSE
  /\ disturbed' = TRUE
  /\ UNCHANGED <<record, view, runView, turn, starting, budget, reports, crashes>>

(* The daemon dies and is started again. *)
Crash ==
  /\ crashes < budget.crashes
  /\ crashes' = crashes + 1
  /\ Orphan
  /\ turn' = Idle
  /\ starting' = NoTask
  /\ projected' = FALSE
  /\ disturbed' = (disturbed \/ batch["projection_group"] # <<>>)
  /\ UNCHANGED <<record, view, runView, budget, reports, throws>>

WorkerStep ==
  \/ EnsureTask \/ CreateRun \/ AppendStarted
  \/ AppendReport
  \/ \E s \in Outcome : Answer(s)
  \/ AnswerFails
  \/ RecordEvent \/ RecordRun \/ RecordTask \/ AppendOutcome
  \/ CancelRow \/ AppendCancelled
  \/ Ack

Next ==
  \/ \E t \in Task : StartTask(t) \/ ContinueTask(t) \/ CancelCommand(t)
  \/ AppendStart
  \/ \E g \in Group : Claim(g)
  \/ \E g \in Group, i \in DOMAIN log : Retry(g, i) \/ Lapse(g, i)
  \/ WorkerStep
  \/ \E s \in {"running", "needs_decision"} : Report(s)
  \/ Project
  \/ AckProjection
  \/ Throw
  \/ ProjectionThrows
  \/ Crash

(* The loops go on, Codex answers in the end, and delays and leases pass. *)
Fairness ==
  /\ WF_vars(WorkerStep)
  /\ WF_vars(AppendStart)
  /\ WF_vars(Project \/ AckProjection)
  /\ \A g \in Group : WF_vars(Claim(g))
  /\ WF_vars(\E g \in Group, i \in DOMAIN log : Retry(g, i) \/ Lapse(g, i))

Spec == Init /\ [][Next]_vars

FairSpec == Spec /\ Fairness

-----------------------------------------------------------------------------
(* Properties *)

TaskStatus == {"none", "pending", "running", "needs_decision", "cancelled"} \cup Outcome

MessageType ==
  TaskCommands \cup
    {"event.task.run_started", "event.task.progress_updated", "event.task.needs_decision",
     "event.task.completed", "event.task.failed", "event.task.cancelled", "event.task.timed_out"}

TypeOK ==
  /\ log \in Seq([type : MessageType, task : Task, run : 0..Len(runs), status : TaskStatus,
                  priority : Nat])
  /\ box \in [Group -> Seq([state : RowState, at : Nat, attempts : Nat])]
  /\ \A g \in Group : Len(box[g]) = Len(log)
  /\ batch \in [Group -> Seq(DOMAIN log)]
  /\ tasks \in [Task -> TaskStatus]
  /\ runs \in Seq([task : Task, command : DOMAIN log, status : TaskStatus])
  /\ taskEvents \subseteq (DOMAIN runs) \X TaskStatus
  /\ view \in [Task -> [status : TaskStatus, run : 0..Len(runs)]]
  /\ runView \in Seq(TaskStatus)
  /\ Len(runView) = Len(runs)
  /\ turn \in [pc : {"idle", "ensured", "created", "thinking", "reporting", "ending", "eventRow",
                     "runRow", "taskRow", "cancelling", "handled"},
               run : 0..Len(runs), status : TaskStatus, caught : BOOLEAN]
  /\ starting \in Task \cup {NoTask}
  /\ projected \in BOOLEAN
  /\ disturbed \in BOOLEAN
  /\ budget \in Budgets

(* An acked start or continue has been run to an end that was recorded and told, though   *)
(* any of the writes may have thrown and the daemon may have died between any two.        *)
AckedIsAnswered ==
  \A i \in DOMAIN log :
    log[i].type \in RunCommands /\ box["worker_group"][i].state = "acked" =>
      \E r \in DOMAIN runs :
        /\ runs[r].command = i
        /\ runs[r].status \in Outcome
        /\ \E k \in DOMAIN log :
             log[k] = Event(ToEventType(runs[r].status), log[i].task, r, runs[r].status)

(* A run that says running and is not the one in hand was cut off by a crash or a throw.  *)
StaleRunsAreCutOff ==
  Cardinality({r \in DOMAIN runs : runs[r].status = "running" /\ r # turn.run}) <= crashes + throws

Started(t) == \E i \in DOMAIN log : log[i].type = "command.task.start" /\ log[i].task = t

(* Nothing is on its way. *)
Quiet ==
  /\ Yielded
  /\ turn.pc = "idle"
  /\ \A g \in Group, i \in DOMAIN log : box[g][i].state \in {"none", "acked"}

ViewIsRight ==
  \A t \in Task :
    Started(t) =>
      /\ view[t].status = tasks[t]
      /\ view[t].run # 0 => runView[view[t].run] = runs[view[t].run].status

(* When nothing is on its way, the projection shows every task as the worker left it, if  *)
(* no crash and no throw has reordered its messages.                                      *)
ViewCatchesUp == Quiet /\ ~disturbed => ViewIsRight

(* A task that runs ends, unless its command is dead-lettered.                            *)
RunningEnds ==
  \A t \in Task :
    tasks[t] = "running" ~>
      \/ tasks[t] # "running"
      \/ \E i \in DOMAIN log :
           log[i].task = t /\ box["worker_group"][i].state = "dead_letter"

(* What the description of the tool task.cancel says, "if it has not completed".          *)
CancelSparesTheCompleted ==
  [][\A t \in Task : tasks[t] = "success" => tasks'[t] # "cancelled"]_vars
=============================================================================
