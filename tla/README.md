# Verification of Personal Codex Supervisor

TLA+ models of the supervisor daemon, TLC configurations that check them on small
instances, and TLAPS proofs. All paths below are relative to the repository.

The program is one Node process (`src/main.ts`, `src/runtime/daemon.ts`) over one SQLite
file. Everything that happens is a *message* in `event_log`; a router turns a message into
*deliveries*, one per interested *consumer group*, and in the process one loop per group
claims deliveries, handles them and acks them. Agents (Codex child processes), WeChat,
the scheduler and the sidecars only meet through these messages and a few tables.

## 1. The system

| Part | State it keeps | Operations | What is hard |
|---|---|---|---|
| **Event hub** `src/kernel/event-hub/{append,deliveries}.ts`, `migrations/001_initial.sql` | `event_log`, `event_deliveries` (status, attempts, available_at, lease_until), `dead_letters` | `appendHubMessage`, `claimReadyDeliveries`, `ackDelivery`, `failDelivery` | leases that lapse under a live handler, writes by id alone, crash between handler and ack, two daemons over one file, dedupe keys, attempts |
| **Router** `router.ts` | none | message to set of groups | a group that is missed or woken for nothing |
| **Notifier and loop** `notifier.ts`, `consumer-runner.ts`, `runtime/consumer-component.ts` | waiters, timers, listeners on the abort signal, the batch in memory | `wait`, `wake`, `close`, `runConsumerLoop` | missed wake-ups, fallback timer, abort in the middle of a batch |
| **Cleanup** `sidecars/cleanup.ts` | deletes acked deliveries | handler of `event.cleanup.requested` | deletion beside live loops |
| **Scheduler** `plugins/scheduler/scheduler.ts` | `scheduled_jobs`, `scheduled_job_runs` | seed on start, sweep | crash between event and row, late sweeps, jobs that fail, restart |
| **Worker** `agents/worker/group.ts`, `tools/worker-tools.ts` | `tasks`, `task_runs`, `task_events`, `sessions` | start, continue, cancel; progress, decision, artifact | four writes at the end of a run, a throw half way, redelivery, cancel beside start |
| **Supervisor's tools** `tools/supervisor-tools.ts` | `tasks`, `scheduled_jobs`, appended commands | `task.*`, `schedule.*`, `message.*` | two writes per tool, priorities, retries of a turn |
| **Projections** `kernel/projections/projector.ts` | `*_current_state` tables | one upsert per message | messages out of order |
| **Supervisor and sessions** `agents/supervisor/runner.ts`, `codex/session-registry.ts`, `sidecars/maintenance.ts` | `sessions`, `session_handoffs` | a turn, a handoff | maintenance archives a session beside a turn of it; handoff summary lost between two writes |
| **Tool loop** `agents/tool-loop.ts`, `tools/registry.ts` | none | turns of Codex until it asks for no tool | tools run again when the turn is retried |
| **WeChat** `plugins/wechat/*` | cursor file, `wechat_conversations`, the account in memory | poll, ingest, send, report | cursor saved before the messages, send before the report and the ack, a stop that takes the account away from the sender |
| **WeChat account** `plugins/wechat/clawbot.ts` | account file, the account the receiver loaded | login, logout, expiry of the session | the file changes under a running receiver |
| **Health monitor** `sidecars/health-monitor.ts` | `system_health_current_state`, by way of the projection | tick: a report, an alert | alerts that repeat and come back to the monitor, two appends that a crash can cut |
| **Runtime** `runtime/{daemon,component}.ts`, `main.ts` | abort controller, open database | start, stop, failure of a component | one component fails, the database closes under the others, launchd starts again |
| **Storage** `storage/*` | the file, `schema_migrations` | open, migrate | processes that migrate at the same time, from directories that differ |
| **CLI** `plugins/cli/commands.ts` | none | migrate, send, list | another process on the same file |
| Context builders, skills, configuration, helpers, logger | none | | |

How they meet. *Calls*: every component calls `appendHubMessage`, which wakes the loops of
the routed groups through the notifier of the same process. *Messages*: supervisor to worker
(`command.task.*`), worker to supervisor (`event.task.*`), scheduler to maintenance, monitor
and cleanup, everybody to the projection. *Shared tables*: `tasks` is written by the
supervisor's tools and the worker, `event_deliveries` by append, the loops and cleanup,
`scheduled_jobs` by the scheduler and the tools.

Concurrency is of two kinds. Inside the process JavaScript runs from `await` to `await`,
and better-sqlite3 is synchronous: a transaction is atomic and nothing runs beside it, but
a function of several transactions can be cut by a crash or a throw between any two. Outside
the process there may be the CLI, which appends, and nothing forbids a second daemon.

What makes each part correct:

* **Hub**: no accepted delivery is lost, each is closed once, attempts are bounded, dead
  letters are recorded, one dedupe key gives one message.
* **Loop**: a delivery is settled in the end, and a loop that runs leaves nothing in the notifier.
* **Scheduler**: the events of a job come in the order of their due times and none twice, times do
  not drift, nothing due is left behind, no handoff is skipped while the daemon is up and its job does
  not fail, a disabled job stays disabled.
* **Task**: an acked command has been answered and recorded, a run that is
  left running is explained by a failure, the projection ends up right.
* **Sessions**: one active supervisor session, opened only when all before it are closed; it
  starts from the newest handoff that was archived; a request ends the session; acked turns were told.
* **WeChat**: an inbound message is logged once and lost only by a fault, replies use the newest
  token, a command is reported and settled, and a text repeats only after a fault.
* **Health**: a delivery that was given up is told of by the next tick, and alerts come from ticks
  only.
* **Runtime and storage**: a migration takes effect once, whoever works has the schema it read, work
  is done again only for a fault, and what was sent is settled however the daemon is stopped.

The hazards of the code, each at its line and with the properties that speak of it, are
listed in `PROJECT.json`.

## 2. Modules

| Module | Models | Extends / uses |
|---|---|---|
| `DeliveryPromise` | abstract specification: what the hub promises about deliveries | |
| `Router` | `router.ts`: which groups a message is delivered to | |
| `EventHub` | append, claim, handle, settle, crash, cleanup, clock | instance of `DeliveryPromise` |
| `MCEventHub` | two configurations of it | `EventHub`, `Router` |
| `EventHubProofs` | theorems for any number of daemons; for one daemon, and the refinement of `DeliveryPromise` | `EventHub` |
| `ConsumerLoop`, `MCConsumerLoop` | notifier, loop, stop, restart, liveness | `Router` |
| `ConsumerLoopProofs` | waiters, timers and listeners match the loops | `ConsumerLoop` |
| `Scheduler`, `MCScheduler` | seeding, sweeps, user jobs | |
| `SchedulerProofs` | events never go back, no drift, complete sweeps, no handoff skipped, disabled is final | `Scheduler` |
| `HubBox` | the hub as one daemon's components see it: order of claims, batches, retries, orphaned rows | |
| `TaskLifecycle`, `MCTaskLifecycle` | tools, worker, projection of tasks and runs | `HubBox` |
| `TaskLifecycleProofs` | acked is answered, stale runs are cut off, the projection catches up | `TaskLifecycle` |
| `SystemHealth`, `MCSystemHealth` | monitor, health projection, alerts, WeChat account and its expiry | `HubBox`, `Router` |
| `SystemHealthProofs` | alerts need ticks | `SystemHealth` |
| `Migrations` | `runMigrations` by several processes | |
| `RuntimeDaemon`, `MCRuntimeDaemon` | daemon, CLI, components, shutdown, restart | `Migrations` |
| `RuntimeDaemonProofs` | migrations take effect once; the processes only migrate; repeated work is paid for | `RuntimeDaemon` |
| `SessionChain` | abstract specification: sessions follow one another | |
| `SupervisorSession`, `MCSupervisorSession` | turns with their tool loop, sessions, handoffs, maintenance | `Router`, instance of `SessionChain` |
| `SupervisorSessionProofs` | refinement of `SessionChain`; acked is told, the newest handoff is taken | `SupervisorSession` |
| `WechatMessaging`, `MCWechatMessaging` | receiver, ingress, sender, stop and restart | |
| `WechatMessagingProofs` | logged once, bounded losses and repetitions, newest token, acked is reported | `WechatMessaging` |

### EventHub

One action per transaction or await. `AppendNew(m)` and `AppendDuplicate(m)` are the two ways
through `appendHubMessage`; `Claim(c)` is the transaction of `claimReadyDeliveries` (status,
lease, `ORDER BY priority, available_at, created_at`, `LIMIT`); rows equal in all three columns
come in any order. `HandlerReturns(c)` is the await in `runConsumerOnce`; `Ack(c)`,
`FailToRetry(c)`, `FailToDeadLetter(c)` and `FailMissing(c)` are what follows. They write by id
without looking at the row, as the code does, so with two daemons a stale ack overwrites a newer
claim. `Crash(p)` forgets the batches of one process. `Cleanup` deletes old acked rows at any
time, more often than the handler of `event.cleanup.requested` would. The clock `now` compares
with `available_at`, `lease_until` and `updated_at` as the queries do.

`batch[c]` is what the process has in memory, `deliveries` what the file says; most of the
properties relate the two. `performed` is a ghost: the deliveries whose handler ran to its end.

`DeliveryPromise` says: the deliveries of a message open together, are performed while open,
and close once, as done (only if performed) or dead. `ImplementsPromise` maps a row to its
outcome; an acked row that was cleaned up is still done.

### ConsumerLoop

The same deliveries without clock and order, with the waiting side added. A claim that finds
nothing ends in `"empty"`; only the next step registers the waiter, so an append between the two
wakes nobody, and `AppendElsewhere` (the CLI) never does. A waiter comes with a timer and a listener on
the abort signal (`timers`, `listeners`); `Abort` resolves every waiter that listens; the loop
tests the signal between batches. A lease may lapse while the loop still handles the row.

### Scheduler

A step per write of `runDueScheduledJobs`: `InsertRun`, `AppendEvent`, `FinishRun`,
`UpdateNextRun`, with `Throw` for the catch block and `Down` after any of them. `Start` is
`seedSystemScheduledJobs`. The supervisor's tools act while the scheduler sleeps, which is the
only time they can. `events` are the scheduler's rows of `event_log`, in their order, each with its
`DedupeKey`: whether a due time that is swept again adds a row is decided by comparing keys, as in
`appendHubMessage`. `upSince`, the time of the last start, and `createdAt` are ghosts. `Start` writes the
system jobs in one step: a crash between two of its upserts is followed by a start that writes them all.
Nothing ticks within a sweep: it does not await, and one `now` is used throughout.

### TaskLifecycle

`StartTask`, `AppendStart`, `ContinueTask`, `CancelCommand` are the tools of the supervisor;
`EnsureTask` to `AppendOutcome` the writes of a run in the order of `group.ts`; `CancelRow`,
`AppendCancelled` those of `cancelTask`; `Report`, `AppendReport` the tools of the worker;
`Project` and `AckProjection` the projection. `Throw` makes the next write throw, with the
consequence it has at that point: the delivery fails (before the `try`, in the `catch`, in the
ack), the error becomes the outcome (inside the `try`), the tool returns an error. `Crash` can
come anywhere, also between the two writes of a tool.

The hub is that of `HubBox`. After an ack the model lets other components run, also where the loop
of the code goes straight to the next row of its batch: more behaviours than the code has, none fewer.

### HubBox

What `EventHub` and `ConsumerLoop` establish of the hub, without clock and leases of the living, for
the modules that are about what handlers do. A claim takes the first due rows by priority,
availability and creation; a failed row comes back behind everything that is in the log by then; a row
of a dead process comes back in its old place. `Settle` and `Fail` act on the head of a batch.
`NextBatch` gives the batches that a claim may take as a set, so that no recursion is needed; the order is
total, and the set has one member.

### Migrations and RuntimeDaemon

`Migrations` has a step for what a process reads (`ReadStatus`: the directory and
`schema_migrations`), one per transaction of `applyMigration`, and one for its failure, when another
process has recorded the file since. A directory is any set of files, so that an old checkout, a newer
one and one whose file was edited may meet. What a process reads agrees with the checksums that are recorded
by then: one that finds a file edited throws before it writes anything, again at every start, and is not a
behaviour of the model.

`RuntimeDaemon` extends it with what the processes are for. The daemon migrates, starts its components
(`StartComponents`), and ends when `Promise.all` is over: `ComponentThrows` is the first failure, which
aborts the others and rejects at once, `DatabaseCloses` the `finally` block that follows while they may
still be at work, `CutOff` the handler that returns to a closed database, `Exit` the end of the process
when nothing is left to wait for. `Crash` is a kill or a second signal at any point. What a handler does
is one step, `Perform`, which needs no database: Codex and WeChat go on after it is closed. Which rows a
claim takes and when leases and delays end are left open, which allows more than the code does. A
command of the CLI is one process that migrates, perhaps sends one message, and goes.

### SystemHealth

`ReportHealth` and `AppendAlert` are the two appends of the monitor's handler, `LeaveAlone` the early
return for anything but a tick; its own alerts come back to it by way of the router (`Readers` is taken
from `Router`). `Failed` is what the handler counts. `Project` applies a report to
`system_health_current_state`, `SuperviseMessage` stands for a turn of the supervisor, which is all that
happens to an alert. `PollExpired` is the receiver's branch for an expired session; `Login` and `Logout`
change the account file in another process, and `Start` is the only place where the receiver loads it;
what the other components do before a receiver without an account ends the daemon is left out.
`log[i].cause` is `causation_id`.

### SupervisorSession

`BeginTurn` is what `runSupervisorTurn` reads before Codex runs: the active session and, without
one, the pending handoff. `AskForTools` and `Answer` are the rounds of `runCodexToolLoop`, each an
await during which maintenance and everything else may run; `CreateSession`, `ActivateHandoff`,
`CompleteTurn`, `AckTurn` are the writes that follow, from what was read before. Maintenance never
awaits, so that `BeginUpkeep`, `RequestHandoff`, `Summarize`, `ArchiveSession`, `ArchiveHandoff`,
`AppendArchived`, `AppendHandoffCompleted` (or `Skip`, `AppendSkipped`) follow one another with
nothing of the same process in between; a throw or a crash may come between any two. `getActive`
and `getPendingHandoff` take the newest row; two rows of the same time cannot be candidates together,
since a turn of Codex lies between two sessions and between two archived handoffs.

`SessionChain` promises that a session opens only when all before it are closed, that a closed one
stays closed, and that what it inherits is fixed. `Inherits(s)` maps a session to the one whose
handoff it was started with.

### WechatMessaging

The receiver: `Answered` to `UpsertConversation` are the loop of `clawbot.ts` from an answer to the
next poll. The cursor is a number of messages, once in memory (`receiver.buf`) and once in the file
(`syncBuf`); an answer without a cursor leaves both, so the same messages come again. A message has
three traits that the code branches on: from the owner, with a context token, with an id. `Known` is
the dedupe key in `event_log`.

The sender: `Claim`, `Handle`, the send, `Report`, `AckCommand`. `SendFails` is any end of a request
but success, with the text arrived or not. `SenderThrows` has the consequence that a throw has at that
point: the report of a sent text goes to the `catch` block, which reports it as failed; any other throw
fails the row. `Stop` lets the receiver return and clear the account while the sender goes on with
its batch: `CannotSend`.

## 3. Runs

| Run | Instance | What it shows |
|---|---|---|
| `hub_solo` | 1 daemon, 2 groups, one with batches of 2, a user message sent twice under one key, a delayed report; 2 attempts, lease 1, retry 1, retention 1, clock to 2 | type, what a loop holds is running, exact dead letters, refinement |
| `hub_daemons` | 2 daemons, 2 messages, retention 0, clock to 3 | what is left of the guarantees when two daemons share the file: nothing is lost |
| `consumer_loop` | 2 groups, 2 messages, 2 attempts, 1 stop or crash | waiters, timers and listeners match loops, every delivery settles |
| `scheduler` | one system and one user job of each kind, 1 throw, 1 restart, days of 2 ticks, clock to 5 | events in the order of their due times and none twice, truthful runs, no drift, nothing due left, no handoff skipped since the last start unless a run of it failed, disabled is final |
| `tasks` | 1 task, 2 attempts; either 1 command, no more urgent than the events, and 2 throws; or 1 command, more or less urgent, 1 report and 1 throw; or 2 commands of either urgency and 1 report; or 2 more urgent commands and 1 crash | answers, records and cut-off runs under throws and crashes; the projection catches up; a running task ends |
| `task_completed` | 2 commands | *violated*: a completed task is cancelled |
| `session` | 1 message, 1 request, 1 round of tools, 2 attempts, 2 throws, 1 crash | acked turns were told, the newest handoff is taken, sessions form a chain, a request ends the session |
| `session_summary` | 1 request, 1 crash | *violated*: a summary that was written does not reach the next session |
| `wechat` | 2 messages of 3 kinds, answers of 2, 1 answer without cursor, 2 commands in batches of 2, 2 attempts, 1 throw, 1 crash, 1 stop | logged once, lost only by faults, newest token, acked is reported, repeats need faults, every command is settled |
| `daemon` | daemon and one CLI process, 3 directories of which two disagree, a loop with batches of 2, the scheduler, the receiver, 2 messages, 2 attempts, 2 faults, 1 stop | migrations once, schema as read, work repeats and is given up only for faults, what was sent is settled |
| `monitor` | 3 groups, the monitor with batches of 2, 2 attempts; 1 message and either 2 ticks and 2 throws, or 1 tick and 4 throws, or 1 tick, 2 throws, 1 crash and 1 logout; or 2 changes of the account and a crash | alerts need ticks, a failure is shown and told |
| `login_expiry` | 2 changes of the account | *violated*: a new login does not reach the running receiver |

The bounds and why they are enough. In `hub_solo` the projection claims two rows at once, so that it
holds one row behind another while a third becomes claimable; a lease of one tick lapses under the
first row of a batch, two attempts make both a retry and a dead letter happen, and two ticks leave room
for claim, lapse, second claim and ack, or ack and cleanup. Two groups are enough for the refinement,
because bundles of two already break when an append is not atomic. Two daemons and two messages give
every overlap of two claims. In the scheduler `Poll = 2` makes sweeps late for an interval of 3 as well
as on time, a day has 2 ticks so that three handoffs fall due, before, between and after a stop and a start, one throw and one restart meet every point of a
sweep. In `TaskLifecycle` one throw per write position and attempt (two in all) reaches the throw inside
the `try` followed by a throw in the `catch`; a command that is less urgent than the events is shown after the
events of its own run (the worker's deliveries are another queue), one that is more urgent before them; one crash reaches every pair of writes; the projection
batch of 2 is what puts one message behind another. In `session` the message and the request are two
turns beside one handoff, a throw gives the retry of a turn or a second handoff of the same request, two
give up a message, and a throw followed by a crash leaves two handoffs of which the next session must take
the newer. In `daemon` two faults cover a failing component followed by a crash while the database is
closed and a handler still at work, and both attempts of a delivery; a stop adds a restart without a fault,
and a batch of two has a delivery that is claimed but not yet handled. In `monitor` two throws give up a
message and so make the failure that a tick must see. Two more reach a throw between the two reports of its
answer, and a tick, a report or an alert that is given up itself; with a crash and a logout the daemon may
die after the failure and not come back; and with two ticks an alert of the first is in the monitor's batch
beside the second. `FailureIsTold` needs each of its exceptions: without the one for a logout, for a tick
that is given up, or for a report or an alert that is, TLC finds it violated. In
`wechat` answers and batches of two have a message, or a command, behind the one that is cut off by the
throw, the crash or the stop. Deadlock checking is off where the clock or the bounded counters stop the
model; `ConsumerLoop` and `RuntimeDaemon` have no clock and are checked for deadlock.

### Disagreements that the runs show

1. `task_completed`: `cancelTask` does not look at the task. `src/tools/supervisor-tools.ts:131`:
   "Cancel a task if it has not completed."
2. `session_summary`: the session is archived (`maintenance.ts:53`) before its handoff is (`:54`). A
   crash in between makes the redelivered request find no session and skip, and the next session
   starts without the summary that is in the table. `docs/supervisor-contract.md:84`: the summary is
   the starting context of the new session.
3. `login_expiry`: the receiver loads its account once, when the daemon starts (`clawbot.ts:222`). The
   alert of an expired session says "run wechat login again" (`:337`); after that login the receiver
   polls the old token once an hour until the daemon is restarted.

Others were met while modelling and are not runs of their own:

* Seeding sets the daily job's `next_run_at` from *now* (`scheduler.ts:84`, `:219`), so that the handoff of a
  day on which the daemon was down at the hour is skipped; `docs/product-direction.md:36` speaks of one every
  day. `HandoffMissedOnlyWhenDown` says what else may skip one: a run of that job that fails until
  the next handoff is due. Every other handoff time since the last start has its event.
* `projectTaskRunStarted` (`projector.ts:146`) writes `running` whatever the row says: when a crash has made
  the projection take messages out of order, a finished task may be shown as running for good.
  `ViewCatchesUp` says that without such a disturbance it ends up right.
* Only `failDelivery` looks at attempts, while every claim counts: `docs/queue-and-concurrency.md:53` promises
  the dead letter after several failures, but after crashes the first failure may suffice, and crashes alone
  never lead there. `WorkRepeatsNeedFaults` therefore counts faults and not failures.
* The monitor adds the rows of `dead_letters` to the deliveries that say `dead_letter`
  (`health-monitor.ts:29`), so that its summary tells of twice as many. Whether there are any is right.
* `projectSystemHealth` (`projector.ts:309`) shows the report that it applies last, not the latest: when a tick is
  thrown after its report `ok` and retried after a failure, and the projection throws on that first report, it
  comes back behind the second and the hub is shown `ok` again. `FailureIsTold` says that it was shown degraded.
* Nobody reports `wechat_clawbot` as `ok`: after an expired session its health row says `failed` for good.
* `runMigrations` returns as `pending` the number of files that were applied before (`migrations.ts:114`);
  nothing reads it.

## 4. Fairness

Safety properties assume none. Six specifications state it.

* `ConsumerLoop!Spec`: weak fairness of each loop, each timer, of time (`BecomeDue`, `Lapse`) and
  of `Start`. Loops and timers are scheduled by the event loop of Node; the handlers are assumed to
  return, since `runner.ts` has no timeout for its child process; the daemon is started again
  because launchd is told to (`KeepAlive` in
  `src/examples/com.personal-codex-supervisor.plist.example:29-30`). No fairness for appends, stops
  or crashes, and none that makes a handler succeed.
* `TaskLifecycle!FairSpec`: weak fairness of the worker's next step, of the second write of
  `task.start`, of the claims, of the projection, and of time. No fairness of throws or reports.
* `SupervisorSession!FairSpec`: weak fairness of `TurnStep` and of `UpkeepStep`, the two loops. It
  assumes that Codex answers or fails in the end and that a dead daemon is started again, as above.
* `WechatMessaging!FairSpec`: weak fairness of the receiver's and of the sender's loop, of the end of a
  stop and of the start. A request ends because `apiPost` aborts it at its timeout (`clawbot.ts:502`).
  No fairness of what users write, of commands, stops, throws or crashes.
* `RuntimeDaemon!Spec`: weak fairness of the daemon's own course (it migrates, starts, closes and exits,
  and launchd starts it again), of the receiver and of each loop. `Perform` and `CutOff` are among the
  steps of a loop: handlers return, as above. A start reads a directory that agrees with the recorded
  checksums, or else the daemon never came up again. Nothing makes a signal, a fault or a command happen, and
  nothing makes a handler succeed.
* `SystemHealth!FairSpec`: weak fairness of each loop and of the receiver with its restart. No fairness of
  ticks, messages, changes of the account, throws or crashes; a daemon without an account does not come
  back, which `FailureIsTold` makes an exception of.

## 5. Proofs

Every invariant and every safety action property of the passing runs is stated by a theorem
`Spec => ...`, proved for all values of the constants from the named assumptions of its module
(`ASSUME ...Assumption`), which TLC evaluates in the runs. Each proof has one inductive invariant per
concern; it was checked by TLC on the instance of the run before it was proved. In each module the
lemmas come first that say what the operators and steps do (`...Effect`), then the invariant, one
lemma per part of it (`...Step`), and the theorems at the end of their part.

`EventHubProofs`, for any sets of messages, groups and daemons, any routes, priorities, delays and limits:

* `TypeCorrect`, `NothingIsLost`, `RetriesAreBounded`, `DeadLettersAreRecorded`.
* Inductive invariant `HubInv`: types, a loop has a batch exactly while it is not scanning
  (`LoopOK`), a row in front of an ack was performed (`AcksPerformed`), and the three properties
  themselves. `AcksPerformed` is the needed strengthening: an ack makes a row `acked` whatever it
  was, so that nothing is lost only because an ack is always preceded by the handler's end.

and in its second part, under `OneDaemon` (any two daemons are the same):

* `HeldRowsStayRunning`, `DeadLettersAreExact`, `SettledStaysSettled`, `HubKeepsPromise`.
* Inductive invariant `SoloInv`: `HubInv`, what a loop holds are running rows of its own group, each
  once (`HeldOK`), nothing is known of a message before it is logged (`LogOK`), and the exact count
  of dead letters. `HeldOK` is the heart: it holds although leases lapse, because the only loop that
  may reclaim a row is the one that holds it, and that one claims nothing while its batch lasts.
* The refinement `HubKeepsPromise` maps every step to one of `Open`, `Perform`, `Finish`, `Abandon`
  or a stutter.

`OneDaemon` is what `docs/architecture.md:166` assumes and nothing in the code enforces:
`hub_daemons` shows that what is lost without it is exactness, and not the work itself.

`ConsumerLoopProofs`: `LoopTypes`, `NotifierIsTrue`. The invariant `LoopInv` is the types and the
property itself, which is inductive; `ResolveEffect` says once what every wake-up does.

`SchedulerProofs`, for any jobs, intervals, times of day, length of a day, poll, limit and bounds:

* `SchedulerTypes`, `EventsNeverGoBack`, `RunRowsAreTrue`, `IntervalJobsDoNotDrift`,
  `SweepsAreComplete`, `HandoffsAreNotSkipped`, `DisabledJobsStayDisabled`.
* Inductive invariant `SchedInv`. Its first half, `SweepInv`, is about one sweep: time stands still in
  it (`Clock`), what it selected stays true until its turn comes (`SelectionHolds`), the last run is
  that of the row in hand (`InHand`), and a job is never behind its events (`Behind`): each has the key of its
  own due time, and that is at most the next run of its job. `EventsMoveOn` follows: a due time that is
  swept again is that of the last event and has its key, any other one is later. What makes `Behind` inductive is
  that a seed, which sets the next run anew, never sets it before the last sweep. The second half has a part
  per property: `Grid` (intervals; `NextIntervalRunIsNext` and the arithmetic of remainders), `NothingLeft`,
  and `Handoffs`: unless a run of a daily job has failed since the start, its next run is at the hour, less than a
  day behind the sweep, and every handoff time between the start and that next run has its event (`NoGap`).
* `SweepsAreComplete` and `HandoffsAreNotSkipped` are about `AllFit`: a sweep takes at most 20
  jobs (`scheduler.ts:95`), and with more than that one may be left for the next poll. The second also needs a poll that is no longer than a day. Both conditions are part of
  the properties; they came out of the attempt to prove them for every limit.

`TaskLifecycleProofs`, for any tasks, outcomes, priorities, batch sizes and bounds:

* `LifecycleTypes`, `AckedCommandsAreAnswered`, from `LifeInv`: the hub (`HubOK`), types, and `HandlingOK`,
  which says for each point of the worker's course what has been written by then.
* `StaleRunsHaveFaults`: every step adds at most one run to `Stale`, and then a throw or a crash is counted.
* `TheViewCatchesUp`, from `ViewInv`, in three steps. (1) *What the log says is what the tables say*: a
  task without a command that is still to be handled is as its last event tells, and so is its last run
  (`TasksOK`); in between, `WorkOK` says how far the worker is ahead of the log. This holds whatever throws
  or crashes, since a command stays pending until an attempt has written row and event. (2) *The projection
  takes events in the order of the log* while nothing disturbs it (`OrderOK`: all events have one priority, so
  that batches, acks and the log agree). (3) *What it has taken is what it shows* (`ShownOK`): the last event
  applied of a task, or of a run, is what its row says. Where nothing is on its way, last in the log and
  last applied are the same event, and shown is what is.

`SupervisorSessionProofs`, for any limits:

* `SessionsFormAChain`: the sessions implement `SessionChain`.
* Inductive invariant `SessionInv`: what the loops hold (`LoopsOK`), what the tables hold, with at most
  one active session and handoffs that name sessions of the past (`TablesOK`), and `NobodyElseCreates`.
  The last is the point: the turn looks for an active session before Codex runs and creates one after,
  and that is safe only because while a turn that found none is thinking, none is active; maintenance
  may archive meanwhile, but only the supervisor's single loop creates.
* `SuccessorsTakeTheNewest`, from `SuccessionInv`: only the last session can be active, finished handoffs come
  in the order of their sessions, what maintenance works on is the last handoff, and a turn that found no
  session holds the handoff of the last one, with no other about to be finished before it creates the next.
* `SessionTypes`, `AckedMessagesAreTold`, from `DeliveryInv`: a handler that has returned has said so
  (`HandledIsTold`), and the row of an acked message has been told of.

`WechatMessagingProofs`, for any traffic, answers, batches, attempts and bounds:

* `WechatTypes`, `MessagesAreIngestedOnce`, `AcksFollowReports`, `RepeatedTextsNeedFaults`,
  `LossesAreBounded`, `TheTokenIsTheNewest`.
* Inductive invariant `WechatInv`. `ReceiverOK` relates the answer in hand to the two cursors, `SenderOK` the
  running rows to the batch. `Deliveries` is the account of repetitions: a command whose attempt is still open
  has one delivery less to its name than the faults allow (`Open`). `Losses` bounds what lies before the cursor,
  is not logged and not in hand: a fault adds at most what was left of one answer. `Tokens` holds without faults
  and says why an answer that is repeated may set the token back in the middle, but never at its end.

`RuntimeDaemonProofs`, first of `Migrations`, for any processes, checksums and contents of the directory (of
which a number names one file only):

* `MigrationsTakeEffectOnce`, `MigratedMeansSchema`.
* Inductive invariant `MigrationInv`: types, each migration once, and `PlanCoversTheRest`: what a process has
  read and does not plan to apply any more is recorded. That makes the second theorem inductive: a process
  may be overtaken by others at every file, but then it fails and is never ready.

and then of `RuntimeDaemon`, for any loops, messages, routes, batch sizes and bounds:

* `ProcessesOnlyMigrate`: the system implements `MigrationSpec`, so that the two theorems above hold of it
  (`SystemMigratesOnce`, `SystemHasItsSchema`).
* `DaemonTypes` and `RepeatedWorkIsPaidFor`.
* Inductive invariant `DaemonInv`: `Counts` (types), `Phases` (where the parts of the daemon can be together:
  a loop that holds rows is at work, the database is closed while something runs only after a failure) and
  `Paid`: each claim of a delivery but the last was ended by a fault of its own. The last is what makes the
  number of faults bound the repetitions, and it needs `Phases`, since a clean stop must leave nothing held.

`SystemHealthProofs`, for any priorities, batch sizes and bounds:

* `HealthKeepsTypes`, of which the bound on attempts is the part that is not a matter of types (`AttemptsOK`: a
  row that may still be claimed has an attempt left, and a crash gives one more).
* `AlertsAreOwedToTicks`, from `AlertsOK`: a tick has fewer alerts than attempts as long as the monitor holds it and
  is not done with it (`Owed`), so that the next alert is always paid for by the claim before it.

`TaskLifecycleProofs` and `SystemHealthProofs` begin with the same lemmas about `HubBox` (`LogForEffect`,
`ClaimEffect`, `SettleEffect`, `OrphanEffect` and what leads to them); each keeps its own copy, so that each can be
read and checked by itself.

Only model-checked: the liveness properties `EverythingSettles`, `RunningEnds`, `HandoffEndsSession`,
`CommandsSettle` and `SentIsSettled`, and `FailureIsTold`, which needs fairness too, since liveness and `ENABLED` are
out of the prover's reach; the table of `Router`, which has no state; and the three disagreements, which are
counterexamples. The theorems `RetriesAreBounded`, `DeadLettersAreRecorded`, `SettledStaysSettled` and the two of
`Migrations` by itself are about properties that no run lists, since the proofs cover every instance.

## 6. What is not modelled

SQLite, Codex, the WeChat API and the cron library are external; prompt texts, log lines,
topics, ids and the CLI's listings are wording. The configuration is read once and has no state. The
clock is one clock: changes of wall time and of the zone's offset are left out, and so is the text
comparison of `runAt`. The write of WeChat's cursor file is one step, although a crash can tear the file,
and so are the two files of a login. Polls that fail for other reasons than an expired session only count
and sleep. The projections of the outbox and of the sessions are left out: only a listing reads the one and
nobody the other. `task.mark_event_handled`, artifacts and the worker's session rows are writes that no other
code decides on. What becomes of a cancelled task whose start is claimed late (`group.ts:182`), and of a task
whose start was never appended (`supervisor-tools.ts:73`), is in `TaskLifecycle` as the code has it, without
a property: no text says what should be.

## 7. Plan

Order: most important first. Done: `Router`, `EventHub`, `DeliveryPromise`, `ConsumerLoop`, `Scheduler`,
`HubBox`, `TaskLifecycle`, `SupervisorSession`, `SessionChain`, `WechatMessaging`, `Migrations`,
`RuntimeDaemon`, `SystemHealth`, and the proofs of all their safety properties. Next:

1. `HubBox` as an abstraction of `EventHub`: a mapping from rows with leases and times to rows with places.
2. The projection of the outbox (`projector.ts:239-287`) over the commands and reports of `WechatMessaging`.
3. The order of `runAt` texts in the scheduler, and workers' sessions with their failure mark.

## 8. Running

    tlc -workers 2 -config EventHub_solo.cfg MCEventHub
    tlapm RuntimeDaemonProofs.tla

Every run of section 3 is one configuration file with the module of its name and the prefix `MC`.
`scheduler`, `tasks`, `monitor`, `daemon`, `wechat` and `session` take one to four minutes, the others less.
`TaskLifecycleProofs` takes about three minutes to prove from nothing, each other proof module about one.
