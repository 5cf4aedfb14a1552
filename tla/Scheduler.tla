------------------------------ MODULE Scheduler ------------------------------
(***************************************************************************)
(* The scheduler plugin (src/src/plugins/scheduler/scheduler.ts) and the   *)
(* tools that create and cancel its jobs.  On every start it seeds the two *)
(* kinds of system jobs, then it sweeps the due jobs and sleeps, in turn.  *)
(*                                                                         *)
(* A sweep never awaits, so no tool and no other component runs within it; *)
(* but it is no transaction: the process can end, and a statement can      *)
(* throw, between its writes.  Hence a step per write, and nothing but a   *)
(* crash between them.  The clock counts in ticks up to MaxNow; local time *)
(* is the clock, days have Day ticks (a change of the zone's offset is not *)
(* modelled).  Event payloads and the log are left out; of event_log the   *)
(* events of the scheduler are kept, in their order.                       *)
(***************************************************************************)
EXTENDS Naturals, Sequences, FiniteSets

CONSTANTS
  SystemInterval,  \* system jobs that run at an interval
  SystemDaily,     \* system jobs that run daily
  UserInterval,    \* jobs that schedule.create may add, at an interval
  UserOnce,        \* jobs that schedule.create may add, to run once
  Interval,        \* Interval[j] in ticks, for the interval jobs
  RunAt,           \* RunAt[j]: when a job of UserOnce is to run
  Priority,        \* Priority[j]: smaller is swept first
  HandoffTime,     \* the time of day of the daily jobs
  Day,             \* ticks in a day
  Poll,            \* pollIntervalMs in ticks
  Limit,           \* rows per sweep
  MaxThrows,       \* bound: how many statements throw
  MaxRestarts,     \* bound: how often the daemon stops or crashes
  MaxNow           \* bound of the clock

System == SystemInterval \cup SystemDaily
User == UserInterval \cup UserOnce
Job == System \cup User

(* A row of scheduled_jobs is of one kind, and there are finitely many.                   *)
ASSUME JobsAssumption ==
  /\ IsFiniteSet(Job)
  /\ SystemInterval \cap SystemDaily = {}
  /\ UserInterval \cap UserOnce = {}
  /\ System \cap User = {}

ASSUME TimesAssumption ==
  /\ Interval \in [SystemInterval \cup UserInterval -> Nat \ {0}]
  /\ RunAt \in [UserOnce -> Nat]
  /\ Priority \in [Job -> Nat]
  /\ Day \in Nat \ {0}
  /\ HandoffTime \in 0..(Day - 1)
  /\ Poll \in Nat \ {0}
  /\ Limit \in Nat \ {0}
  /\ {MaxThrows, MaxRestarts, MaxNow} \subseteq Nat

VARIABLES
  now,        \* the clock
  jobs,       \* scheduled_jobs: jobs[j].state and jobs[j].nextRunAt
  runs,       \* scheduled_job_runs: the sequence of rows
  events,     \* event_log: the sequence of the scheduler's rows
  pc,         \* what the scheduler does
  todo,       \* the rest of the rows that the sweep selected, as <<job, due time>>
  sweptAt,    \* the time that the current or the last sweep was called with
  throws,
  restarts,
  createdAt,  \* ghost: when a user's job was created, 0 before
  upSince     \* ghost: when the scheduler was started last

vars == <<now, jobs, runs, events, pc, todo, sweptAt, throws, restarts, createdAt, upSince>>

JobState == {"absent", "enabled", "disabled"}

(* "inserted", "appended" and "finished" are the points between the writes for one row.  *)
Points == {"inserted", "appended", "finished"}

Key == Job \X Nat

Init ==
  /\ now = 0
  /\ jobs = [j \in Job |-> [state |-> "absent", nextRunAt |-> 0]]
  /\ runs = <<>>
  /\ events = <<>>
  /\ pc = "down"
  /\ todo = <<>>
  /\ sweptAt = 0
  /\ throws = 0
  /\ restarts = 0
  /\ createdAt = [j \in User |-> 0]
  /\ upSince = 0

-----------------------------------------------------------------------------
(* When a job runs next *)

(* Mutant: the interval counts from the sweep that ran the job. *)
NextIntervalRun_FromNow(previous, interval, t) == t + interval

(* nextIntervalRunAfter: previous + interval, and on until it is later than t. *)
NextIntervalRun(previous, interval, t) ==
  IF previous + interval > t
    THEN previous + interval
    ELSE previous + interval * ((t - previous) \div interval + 1)

(* Mutant: always tomorrow. *)
NextDailyRun_Tomorrow(t) == t - (t % Day) + HandoffTime + Day

(* nextDailyRunAfter: today if the time of day is still ahead, else tomorrow. *)
NextDailyRun(t) ==
  LET midnight == t - (t % Day) IN
    midnight + HandoffTime + (IF t % Day < HandoffTime THEN 0 ELSE Day)

NextRun(j, due, t) ==
  IF j \in SystemDaily THEN NextDailyRun(t) ELSE NextIntervalRun(due, Interval[j], t)

-----------------------------------------------------------------------------
(* Starting and sweeping *)

(* upsertSystemJob for every system job: enabled again, and its next run set anew. *)
SeededJobs ==
  [j \in Job |->
     CASE j \in SystemInterval -> [state |-> "enabled", nextRunAt |-> now]
       [] j \in SystemDaily -> [state |-> "enabled", nextRunAt |-> NextDailyRun(now)]
       [] j \in User -> jobs[j]]

Before(j, k) ==
  \/ Priority[j] < Priority[k]
  \/ Priority[j] = Priority[k] /\ jobs[j].nextRunAt < jobs[k].nextRunAt

(* Mutant: the query forgets enabled = 1. *)
Due_Disabled == {j \in Job : jobs[j].state # "absent" /\ jobs[j].nextRunAt <= now}

Due == {j \in Job : jobs[j].state = "enabled" /\ jobs[j].nextRunAt <= now}

(* The SELECT of a sweep: up to Limit due jobs in order, with their due times. *)
Selection ==
  {s \in UNION {[1..k -> Due] : k \in 0..Limit} :
     /\ \A m, n \in DOMAIN s : m < n => s[m] # s[n] /\ ~Before(s[n], s[m])
     /\ \A j \in Due :
          \/ \E n \in DOMAIN s : s[n] = j
          \/ Len(s) = Limit /\ \A n \in DOMAIN s : ~Before(j, s[n])}

Select ==
  \E s \in Selection :
    /\ todo' = [n \in DOMAIN s |-> <<s[n], jobs[s[n]].nextRunAt>>]
    /\ pc' = IF s = <<>> THEN "asleep" ELSE "sweep"
    /\ sweptAt' = now

(* The component starts: seedSystemScheduledJobs, then the first sweep.  Its upserts, one *)
(* per job, are one step: only another start reads the rows before all of them are done,  *)
(* and it writes them all again.                                                          *)
Start ==
  /\ pc = "down"
  /\ jobs' = SeededJobs
  /\ pc' = "seeded"
  /\ upSince' = now
  /\ UNCHANGED <<now, runs, events, todo, sweptAt, throws, restarts, createdAt>>

FirstSweep ==
  /\ pc = "seeded"
  /\ Select
  /\ UNCHANGED <<now, jobs, runs, events, throws, restarts, createdAt, upSince>>

(* sleep(pollIntervalMs) is over. *)
NextSweep ==
  /\ pc = "asleep"
  /\ now >= sweptAt + Poll
  /\ Select
  /\ UNCHANGED <<now, jobs, runs, events, throws, restarts, createdAt, upSince>>

CurrentJob == Head(todo)[1]
CurrentDue == Head(todo)[2]

InsertRun ==
  /\ pc = "sweep"
  /\ runs' = Append(runs, [job |-> CurrentJob, due |-> CurrentDue, status |-> "running"])
  /\ pc' = "inserted"
  /\ UNCHANGED <<now, jobs, events, todo, sweptAt, throws, restarts, createdAt, upSince>>

(* Mutant: the key names the run, so that a retry has a key of its own. *)
DedupeKey_PerRun(j, due) == <<j, Len(runs)>>

(* name:next_run_at, where names are unique. *)
DedupeKey(j, due) == <<j, due>>

(* appendHubMessage: a known key inserts nothing. *)
AppendEvent ==
  /\ pc = "inserted"
  /\ LET key == DedupeKey(CurrentJob, CurrentDue)
     IN events' = IF \E n \in DOMAIN events : events[n].key = key
                    THEN events
                    ELSE Append(events, [job |-> CurrentJob, due |-> CurrentDue, key |-> key])
  /\ pc' = "appended"
  /\ UNCHANGED <<now, jobs, runs, todo, sweptAt, throws, restarts, createdAt, upSince>>

SetRun(status) == runs' = [runs EXCEPT ![Len(runs)].status = status]

FinishRun ==
  /\ pc = "appended"
  /\ SetRun("success")
  /\ pc' = "finished"
  /\ UNCHANGED <<now, jobs, events, todo, sweptAt, throws, restarts, createdAt, upSince>>

(* Mutant: the sweep returns after a row. *)
NextRow_Return ==
  /\ todo' = Tail(todo)
  /\ pc' = "asleep"

NextRow ==
  /\ todo' = Tail(todo)
  /\ pc' = IF Tail(todo) = <<>> THEN "asleep" ELSE "sweep"

(* Mutant: the next time of an interval job is forgotten. *)
UpdateNextRun_OnceOnly ==
  /\ pc = "finished"
  /\ jobs' = [jobs EXCEPT ![CurrentJob] =
                IF CurrentJob \in UserOnce THEN [@ EXCEPT !.state = "disabled"] ELSE @]
  /\ NextRow
  /\ UNCHANGED <<now, runs, events, sweptAt, throws, restarts, createdAt, upSince>>

(* updateNextRun: a job that runs once is disabled, another one gets its next time. *)
UpdateNextRun ==
  /\ pc = "finished"
  /\ jobs' = [jobs EXCEPT ![CurrentJob] =
                IF CurrentJob \in UserOnce
                  THEN [@ EXCEPT !.state = "disabled"]
                  ELSE [@ EXCEPT !.nextRunAt = NextRun(CurrentJob, CurrentDue, sweptAt)]]
  /\ NextRow
  /\ UNCHANGED <<now, runs, events, sweptAt, throws, restarts, createdAt, upSince>>

(* Mutant: the run is called a success before its event is there. *)
Throw_KeepsSuccess ==
  /\ pc \in Points
  /\ throws < MaxThrows
  /\ throws' = throws + 1
  /\ SetRun("success")
  /\ NextRow
  /\ UNCHANGED <<now, jobs, events, sweptAt, restarts, createdAt, upSince>>

(* A write of the try block throws: the run has failed, and the job stays due. *)
Throw ==
  /\ pc \in Points
  /\ throws < MaxThrows
  /\ throws' = throws + 1
  /\ SetRun("failed")
  /\ NextRow
  /\ UNCHANGED <<now, jobs, events, sweptAt, restarts, createdAt, upSince>>

-----------------------------------------------------------------------------
(* The tools of the supervisor, between two sweeps *)

CreateInterval(j) ==
  /\ pc = "asleep"
  /\ jobs[j].state = "absent"
  /\ jobs' = [jobs EXCEPT ![j] = [state |-> "enabled", nextRunAt |-> now + Interval[j]]]
  /\ createdAt' = [createdAt EXCEPT ![j] = now]
  /\ UNCHANGED <<now, runs, events, pc, todo, sweptAt, throws, restarts, upSince>>

CreateOnce(j) ==
  /\ pc = "asleep"
  /\ jobs[j].state = "absent"
  /\ jobs' = [jobs EXCEPT ![j] = [state |-> "enabled", nextRunAt |-> RunAt[j]]]
  /\ createdAt' = [createdAt EXCEPT ![j] = now]
  /\ UNCHANGED <<now, runs, events, pc, todo, sweptAt, throws, restarts, upSince>>

(* schedule.cancel knows no difference between a user's job and a system job. *)
Cancel(j) ==
  /\ pc = "asleep"
  /\ jobs[j].state # "absent"
  /\ jobs' = [jobs EXCEPT ![j].state = "disabled"]
  /\ UNCHANGED <<now, runs, events, pc, todo, sweptAt, throws, restarts, createdAt, upSince>>

-----------------------------------------------------------------------------
(* The daemon stops or crashes, also in the middle of a sweep. *)
Down ==
  /\ pc # "down"
  /\ restarts < MaxRestarts
  /\ restarts' = restarts + 1
  /\ pc' = "down"
  /\ todo' = <<>>
  /\ UNCHANGED <<now, jobs, runs, events, sweptAt, throws, createdAt, upSince>>

(* Time passes while the scheduler sleeps, not past the end of its sleep, or is down. *)
Tick ==
  /\ pc = "down" \/ (pc = "asleep" /\ now < sweptAt + Poll)
  /\ now < MaxNow
  /\ now' = now + 1
  /\ UNCHANGED <<jobs, runs, events, pc, todo, sweptAt, throws, restarts, createdAt, upSince>>

Next ==
  \/ Start
  \/ FirstSweep
  \/ NextSweep
  \/ InsertRun
  \/ AppendEvent
  \/ FinishRun
  \/ UpdateNextRun
  \/ Throw
  \/ \E j \in UserInterval : CreateInterval(j)
  \/ \E j \in UserOnce : CreateOnce(j)
  \/ \E j \in Job : Cancel(j)
  \/ Down
  \/ Tick

Spec == Init /\ [][Next]_vars

-----------------------------------------------------------------------------
(* Properties *)

TypeOK ==
  /\ now \in 0..MaxNow
  /\ jobs \in [Job -> [state : JobState, nextRunAt : Nat]]
  /\ runs \in Seq([job : Job, due : Nat, status : {"running", "success", "failed"}])
  /\ events \in Seq([job : Job, due : Nat, key : Key])
  /\ pc \in {"down", "seeded", "asleep", "sweep"} \cup Points
  /\ todo \in Seq(Key)
  /\ pc \in {"down", "seeded", "asleep"} <=> todo = <<>>
  /\ sweptAt \in 0..now
  /\ throws \in 0..MaxThrows
  /\ restarts \in 0..MaxRestarts
  /\ createdAt \in [User -> 0..now]
  /\ upSince \in 0..now

(* The events of a job come in the order of their due times, and no due time comes twice, *)
(* though a crash or a throw between the event and the update of the job makes a later    *)
(* sweep run that due time again, and each start sets the times of the system jobs anew.  *)
EventsMoveOn ==
  \A m, n \in DOMAIN events :
    m < n /\ events[m].job = events[n].job => events[m].due < events[n].due

Fired(j, due) == \E n \in DOMAIN events : events[n].job = j /\ events[n].due = due

(* A run that is called a success has its event, and a run stays "running" only under    *)
(* the sweep's hands or after a crash.                                                   *)
RunsTellTheTruth ==
  \A n \in DOMAIN runs :
    /\ runs[n].status = "success" => Fired(runs[n].job, runs[n].due)
    /\ runs[n].status = "running" => restarts > 0 \/ (n = Len(runs) /\ pc \in Points)

(* However late the sweeps are, and across restarts, an interval job of a user stays on  *)
(* the grid of its creation: lateness never adds up.                                     *)
NoDrift ==
  \A j \in UserInterval :
    jobs[j].state # "absent" => (jobs[j].nextRunAt - createdAt[j]) % Interval[j] = 0

(* No sweep is cut short by LIMIT. *)
AllFit == Cardinality(Job) <= Limit

(* When the scheduler goes to sleep, an enabled job that was due has moved on, unless    *)
(* its run failed and the next sweep retries it, or it was created after the sweep, or   *)
(* there are more jobs than a sweep takes.                                               *)
SweepLeavesNothingDue ==
  AllFit /\ pc = "asleep" =>
    \A j \in Job :
      jobs[j].state = "enabled" /\ jobs[j].nextRunAt <= sweptAt =>
        \/ \E n \in DOMAIN runs :
             runs[n] = [job |-> j, due |-> jobs[j].nextRunAt, status |-> "failed"]
        \/ j \in UserOnce /\ createdAt[j] >= sweptAt

(* A user's job that is cancelled, or has run its one time, never fires again; for a     *)
(* system job this is not so, the next start enables it.                                 *)
DisabledIsFinal ==
  [][\A j \in User :
       jobs[j].state = "disabled" =>
         /\ jobs'[j].state = "disabled"
         /\ \A n \in DOMAIN events' : n \in DOMAIN events \/ events'[n].job # j]_vars

(* A run of j has failed since the last start. *)
FailedSinceStart(j) ==
  \E n \in DOMAIN runs : runs[n].job = j /\ runs[n].status = "failed" /\ runs[n].due > upSince

(* The handoff of a day is skipped only when the scheduler was not up at the hour, or a   *)
(* run of that job has failed: once it has swept, every time for a handoff since its last *)
(* start has its event.  Sweeps more than a day apart, or too full, could skip one.       *)
HandoffMissedOnlyWhenDown ==
  AllFit /\ Poll <= Day =>
    \A j \in SystemDaily, t \in 0..MaxNow :
      /\ pc = "asleep" /\ jobs[j].state = "enabled"
      /\ t % Day = HandoffTime /\ upSince < t /\ t <= sweptAt
      => Fired(j, t) \/ FailedSinceStart(j)
==============================================================================
