--------------------------- MODULE SchedulerProofs ---------------------------
(***************************************************************************)
(* Proofs about Scheduler for any jobs, intervals, times of day and        *)
(* bounds: what a sweep does with the due jobs although every write of it  *)
(* may throw and the daemon may end between any two of them.               *)
(***************************************************************************)
EXTENDS Scheduler, FiniteSetTheorems, SequenceTheorems, TLAPS

-----------------------------------------------------------------------------
(* Division and remainder *)

LEMMA DivMod ==
  ASSUME NEW a \in Nat, NEW d \in Nat \ {0}
  PROVE  /\ a \div d \in Nat
         /\ a % d \in 0..(d - 1)
         /\ a = d * (a \div d) + (a % d)
OBVIOUS

LEMMA ModOfSum ==
  ASSUME NEW q \in Nat, NEW d \in Nat \ {0}, NEW r \in 0..(d - 1)
  PROVE  (d * q + r) % d = r
OBVIOUS

(* Two numbers with the same remainder are at least the divisor apart. *)
LEMMA Apart ==
  ASSUME NEW a \in Nat, NEW b \in Nat, NEW d \in Nat \ {0}, a % d = b % d, a < b
  PROVE  a + d <= b
<1>1. /\ a = d * (a \div d) + (a % d) /\ a \div d \in Nat
      /\ b = d * (b \div d) + (b % d) /\ b \div d \in Nat
  BY DivMod
<1> DEFINE k == (b \div d) - (a \div d)
<1>2. k >= 1
  BY <1>1
<1>3. d * k >= d
  BY <1>1, <1>2
<1> QED BY <1>1, <1>3

(* The next handoff is ahead, by a day at most, and at the time of day that is asked for. *)
LEMMA NextDailyRunIsNext ==
  ASSUME NEW t \in Nat
  PROVE  /\ NextDailyRun(t) \in Nat
         /\ t < NextDailyRun(t)
         /\ NextDailyRun(t) <= t + Day
         /\ NextDailyRun(t) % Day = HandoffTime
<1>1. Day \in Nat \ {0} /\ HandoffTime \in 0..(Day - 1)
  BY TimesAssumption
<1> DEFINE q == t \div Day
           r == t % Day
<1>2. q \in Nat /\ r \in 0..(Day - 1) /\ t = Day * q + r
  BY <1>1, DivMod
<1>3. NextDailyRun(t) = (t - r) + HandoffTime + (IF r < HandoffTime THEN 0 ELSE Day)
  BY DEF NextDailyRun
<1>4. (Day * q + HandoffTime) % Day = HandoffTime
  BY <1>1, <1>2, ModOfSum
<1>5. (Day * (q + 1) + HandoffTime) % Day = HandoffTime
  <2>1. q + 1 \in Nat
    BY <1>2
  <2> HIDE DEF q
  <2> QED BY <1>1, <2>1, ModOfSum
<1> DEFINE m == Day * q
<1>6. m \in Nat /\ t = m + r /\ (m + HandoffTime) % Day = HandoffTime
  BY <1>1, <1>2, <1>4
<1>7. (m + Day + HandoffTime) % Day = HandoffTime
  <2>1. Day * (q + 1) = m + Day
    BY <1>1, <1>2
  <2> QED BY <1>5, <2>1
<1> HIDE DEF q, r, m
<1>8. CASE r < HandoffTime
  <2>1. NextDailyRun(t) = m + HandoffTime
    BY <1>1, <1>2, <1>3, <1>6, <1>8
  <2> QED BY <1>1, <1>2, <1>6, <1>8, <2>1
<1>9. CASE ~(r < HandoffTime)
  <2>1. NextDailyRun(t) = m + Day + HandoffTime
    BY <1>1, <1>2, <1>3, <1>6, <1>9
  <2> QED BY <1>1, <1>2, <1>6, <1>7, <1>9, <2>1
<1> QED BY <1>8, <1>9

(* The next run of an interval job is ahead, and on the grid of the one before, however   *)
(* many were missed.                                                                      *)
LEMMA NextIntervalRunIsNext ==
  ASSUME NEW i \in Nat \ {0}, NEW due \in Nat, NEW t \in Nat
  PROVE  /\ NextIntervalRun(due, i, t) \in Nat
         /\ t < NextIntervalRun(due, i, t)
         /\ \E k \in Nat : NextIntervalRun(due, i, t) = due + i * k
<1>1. CASE due + i > t
  <2>1. NextIntervalRun(due, i, t) = due + i * 1
    BY <1>1 DEF NextIntervalRun
  <2> QED BY <1>1, <2>1
<1>2. CASE ~(due + i > t)
  <2> DEFINE a == t - due
             q == a \div i
  <2>1. a \in Nat
    BY <1>2
  <2>2. q \in Nat /\ a % i \in 0..(i - 1) /\ a = i * q + (a % i)
    BY <2>1, DivMod
  <2>3. NextIntervalRun(due, i, t) = due + i * (q + 1)
    BY <1>2 DEF NextIntervalRun
  <2>4. i * (q + 1) = i * q + i
    BY <2>2
  <2>5. q + 1 \in Nat /\ i * (q + 1) \in Nat
    BY <2>2
  <2> HIDE DEF q
  <2>6. t < due + i * (q + 1)
    BY <2>1, <2>2, <2>4
  <2>7. \E k \in Nat : NextIntervalRun(due, i, t) = due + i * k
    BY <2>3, <2>5
  <2>8. NextIntervalRun(due, i, t) \in Nat
    BY <2>3, <2>5
  <2> QED BY <2>3, <2>6, <2>7, <2>8
<1> QED BY <1>1, <1>2

(* Being on a grid, said with % and said with a factor. *)
LEMMA OnGrid ==
  ASSUME NEW a \in Nat, NEW d \in Nat \ {0}, NEW k \in Nat, a % d = 0
  PROVE  (a + d * k) % d = 0
<1> DEFINE q == a \div d
<1>1. q \in Nat /\ a = d * q
  BY DivMod
<1> HIDE DEF q
<1>2. a + d * k = d * (q + k) + 0 /\ q + k \in Nat
  BY <1>1
<1>3. (d * (q + k) + 0) % d = 0
  BY SMTT(30), <1>2, ModOfSum
<1> QED BY <1>2, <1>3

-----------------------------------------------------------------------------
(* The inductive invariant *)

Row == [job : Job, due : 0..MaxNow, status : {"running", "success", "failed"}]

Selected == Job \X (0..MaxNow)

EventRow == [job : Job, due : 0..MaxNow, key : Selected]

(* The type of the state, with the bound of the due times that a sweep has selected.      *)
Types ==
  /\ now \in 0..MaxNow
  /\ jobs \in [Job -> [state : JobState, nextRunAt : Nat]]
  /\ runs \in Seq(Row)
  /\ events \in Seq(EventRow)
  /\ pc \in {"down", "seeded", "asleep", "sweep"} \cup Points
  /\ todo \in Seq(Selected)
  /\ pc \in {"down", "seeded", "asleep"} <=> todo = <<>>
  /\ sweptAt \in 0..now
  /\ throws \in 0..MaxThrows
  /\ restarts \in 0..MaxRestarts
  /\ createdAt \in [User -> 0..now]
  /\ upSince \in 0..now

(* Time stands still in a sweep, and the scheduler does not oversleep.                    *)
Clock ==
  /\ pc \in {"sweep"} \cup Points => now = sweptAt
  /\ pc = "asleep" => now <= sweptAt + Poll

(* What a sweep has selected stays true until its turn comes.                             *)
SelectionHolds ==
  /\ \A n \in DOMAIN todo :
       /\ jobs[todo[n][1]].state = "enabled"
       /\ jobs[todo[n][1]].nextRunAt = todo[n][2]
       /\ todo[n][2] <= sweptAt
  /\ \A m, n \in DOMAIN todo : m # n => todo[m][1] # todo[n][1]

(* What a job has given events for lies behind it: its next run is at the due time of its *)
(* last event, when it has not moved on yet, or after it.                                 *)
Behind ==
  \A n \in DOMAIN events :
    /\ events[n].key = DedupeKey(events[n].job, events[n].due)
    /\ jobs[events[n].job].state # "absent"
    /\ events[n].due <= jobs[events[n].job].nextRunAt
    /\ events[n].due <= sweptAt

(* The last run is that of the row in hand.                                               *)
InHand ==
  pc \in Points =>
    /\ runs # <<>>
    /\ runs[Len(runs)].job = CurrentJob
    /\ runs[Len(runs)].due = CurrentDue
    /\ runs[Len(runs)].status = IF pc = "finished" THEN "success" ELSE "running"
    /\ pc # "inserted" => Fired(CurrentJob, CurrentDue)

Grid ==
  \A j \in UserInterval :
    jobs[j].state # "absent" =>
      /\ jobs[j].nextRunAt >= createdAt[j]
      /\ (jobs[j].nextRunAt - createdAt[j]) % Interval[j] = 0

Failed(j, due) ==
  \E n \in DOMAIN runs : runs[n].job = j /\ runs[n].due = due /\ runs[n].status = "failed"

(* From a sweep's first row to the next sweep, a job that was due is in hand or has moved *)
(* on, unless its run failed or it is newer than the sweep.                               *)
NothingLeft ==
  AllFit /\ pc \notin {"down", "seeded"} =>
    \A j \in Job :
      jobs[j].state = "enabled" /\ jobs[j].nextRunAt <= sweptAt =>
        \/ Failed(j, jobs[j].nextRunAt)
        \/ j \in UserOnce /\ createdAt[j] >= sweptAt
        \/ \E n \in DOMAIN todo : todo[n][1] = j

(* The enabled daily job j since the last start, when none of its runs failed: its next   *)
(* run is at a handoff time, and every handoff time before that has its event.            *)
NoGap(j) ==
  \A t \in 0..MaxNow :
    t % Day = HandoffTime /\ upSince < t /\ t < jobs[j].nextRunAt => Fired(j, t)

HandoffOf(j) ==
  pc # "down" /\ jobs[j].state = "enabled" =>
    /\ jobs[j].nextRunAt % Day = HandoffTime
    /\ jobs[j].nextRunAt > upSince
    /\ pc = "seeded" => jobs[j].nextRunAt > now
    /\ pc \in {"sweep"} \cup Points => jobs[j].nextRunAt + Day > sweptAt
    /\ NoGap(j)

Handoffs ==
  AllFit /\ Poll <= Day => \A j \in SystemDaily : FailedSinceStart(j) \/ HandoffOf(j)

(* What the sweep itself needs, whatever the times are. *)
SweepInv == Types /\ Clock /\ SelectionHolds /\ Behind /\ EventsMoveOn /\ InHand

SchedInv == SweepInv /\ RunsTellTheTruth /\ Grid /\ NothingLeft /\ Handoffs

-----------------------------------------------------------------------------
(* What the steps of a sweep do *)

LEMMA FunctionIsSequence ==
  ASSUME NEW S, NEW n \in Nat, NEW f \in [1..n -> S]
  PROVE  f \in Seq(S) /\ Len(f) = n /\ DOMAIN f = 1..n
OBVIOUS

LEMMA FirstAndRest ==
  ASSUME NEW S, NEW q \in Seq(S), q # <<>>
  PROVE  /\ Head(q) \in S /\ Head(q) = q[1] /\ 1 \in DOMAIN q
         /\ Tail(q) \in Seq(S)
         /\ \A n \in DOMAIN Tail(q) : n + 1 \in DOMAIN q /\ n + 1 # 1 /\ Tail(q)[n] = q[n + 1]
         /\ \A n \in DOMAIN q \ {1} : n - 1 \in DOMAIN Tail(q) /\ Tail(q)[n - 1] = q[n]
<1>1. /\ Head(q) \in S /\ Tail(q) \in Seq(S) /\ Len(Tail(q)) = Len(q) - 1
      /\ \A n \in 1..Len(Tail(q)) : Tail(q)[n] = q[n + 1]
  BY HeadTailProperties
<1>2. /\ Len(q) \in Nat \ {0} /\ DOMAIN q = 1..Len(q)
      /\ DOMAIN Tail(q) = 1..Len(Tail(q))
  BY <1>1
<1>3. Head(q) = q[1]
  OBVIOUS
<1> QED BY <1>1, <1>2, <1>3

LEMMA Appended ==
  ASSUME NEW S, NEW q \in Seq(S), NEW e \in S
  PROVE  /\ Append(q, e) \in Seq(S)
         /\ Append(q, e) # <<>>
         /\ Len(Append(q, e)) = Len(q) + 1
         /\ DOMAIN Append(q, e) = DOMAIN q \cup {Len(q) + 1}
         /\ \A n \in DOMAIN q : n # Len(q) + 1 /\ Append(q, e)[n] = q[n]
         /\ Append(q, e)[Len(q) + 1] = e
<1>1. Len(q) \in Nat /\ DOMAIN q = 1..Len(q)
  OBVIOUS
<1>2. /\ Append(q, e) \in Seq(S) /\ Len(Append(q, e)) = Len(q) + 1
      /\ \A n \in 1..Len(q) : Append(q, e)[n] = q[n]
      /\ Append(q, e)[Len(q) + 1] = e
  BY AppendProperties
<1>3. DOMAIN Append(q, e) = 1..(Len(q) + 1)
  BY <1>2
<1> QED BY <1>1, <1>2, <1>3

(* The row that a sweep is about to run. *)
LEMMA TheCurrentRow ==
  ASSUME SweepInv, todo # <<>>
  PROVE  /\ Head(todo) \in Selected /\ Head(todo) = <<CurrentJob, CurrentDue>>
         /\ CurrentJob \in Job /\ CurrentDue \in 0..MaxNow
         /\ Tail(todo) \in Seq(Selected)
         /\ jobs[CurrentJob].state = "enabled" /\ jobs[CurrentJob].nextRunAt = CurrentDue
         /\ CurrentDue <= sweptAt
         /\ \A n \in DOMAIN Tail(todo) : /\ n + 1 \in DOMAIN todo
                                        /\ Tail(todo)[n] = todo[n + 1]
                                        /\ todo[n + 1][1] # CurrentJob
         /\ \A n \in DOMAIN todo :
              todo[n][1] # CurrentJob =>
                n - 1 \in DOMAIN Tail(todo) /\ Tail(todo)[n - 1] = todo[n]
<1>1. todo \in Seq(Selected)
  BY DEF SweepInv, Types
<1>2. /\ Head(todo) \in Selected /\ Head(todo) = todo[1] /\ 1 \in DOMAIN todo
      /\ Tail(todo) \in Seq(Selected)
      /\ \A n \in DOMAIN Tail(todo) :
           n + 1 \in DOMAIN todo /\ n + 1 # 1 /\ Tail(todo)[n] = todo[n + 1]
      /\ \A n \in DOMAIN todo \ {1} : n - 1 \in DOMAIN Tail(todo) /\ Tail(todo)[n - 1] = todo[n]
  BY <1>1, FirstAndRest
<1>3. Head(todo) = <<CurrentJob, CurrentDue>> /\ CurrentJob \in Job /\ CurrentDue \in 0..MaxNow
  BY <1>2 DEF CurrentJob, CurrentDue, Selected
<1>4. CurrentJob = todo[1][1] /\ CurrentDue = todo[1][2]
  BY <1>2 DEF CurrentJob, CurrentDue
<1>5. SelectionHolds
  BY DEF SweepInv
<1>6. /\ jobs[CurrentJob].state = "enabled" /\ jobs[CurrentJob].nextRunAt = CurrentDue
      /\ CurrentDue <= sweptAt
  BY <1>2, <1>4, <1>5 DEF SelectionHolds
<1>7. \A n \in DOMAIN todo : n # 1 => todo[n][1] # CurrentJob
  BY <1>2, <1>4, <1>5 DEF SelectionHolds
<1> QED BY <1>2, <1>3, <1>4, <1>6, <1>7

(* The row of scheduled_job_runs that is in hand is the last, and only it changes. *)
LEMMA SetRunEffect ==
  ASSUME SweepInv, pc \in Points, NEW status \in {"running", "success", "failed"}, SetRun(status)
  PROVE  /\ runs' \in Seq(Row) /\ runs' # <<>>
         /\ Len(runs') = Len(runs) /\ Len(runs) \in DOMAIN runs /\ DOMAIN runs' = DOMAIN runs
         /\ \A n \in DOMAIN runs : n # Len(runs) => runs'[n] = runs[n]
         /\ runs'[Len(runs)] = [job |-> CurrentJob, due |-> CurrentDue, status |-> status]
<1> DEFINE e == [runs[Len(runs)] EXCEPT !.status = status]
<1>1. runs \in Seq(Row) /\ runs # <<>>
  BY DEF SweepInv, Types, InHand
<1>2. Len(runs) \in Nat \ {0} /\ DOMAIN runs = 1..Len(runs)
  BY <1>1
<1>3. runs[Len(runs)] \in Row
  BY <1>1, <1>2
<1>4. e \in Row /\ e = [job |-> CurrentJob, due |-> CurrentDue, status |-> status]
  BY <1>3 DEF Row, SweepInv, InHand
<1>5. runs' = [runs EXCEPT ![Len(runs)] = e]
  BY DEF SetRun
<1> HIDE DEF e
<1>6. runs' \in Seq(Row) /\ Len(runs') = Len(runs)
  BY <1>1, <1>2, <1>4, <1>5, ExceptSeq
<1>7. DOMAIN runs' = 1..Len(runs)
  BY <1>6
<1>8. \A n \in DOMAIN runs : runs'[n] = IF n = Len(runs) THEN e ELSE runs[n]
  BY <1>2, <1>5
<1> QED BY <1>1, <1>2, <1>4, <1>6, <1>7, <1>8

(* A run that has failed stays so. *)
LEMMA FailedRunsStay ==
  ASSUME SweepInv, [Next]_vars, NEW j, NEW due, Failed(j, due)
  PROVE  Failed(j, due)'
<1>1. PICK n \in DOMAIN runs : runs[n].job = j /\ runs[n].due = due /\ runs[n].status = "failed"
  BY DEF Failed
<1> SUFFICES n \in DOMAIN runs' /\ runs'[n] = runs[n]
  BY <1>1 DEF Failed
<1>2. runs \in Seq(Row)
  BY DEF SweepInv, Types
<1>3. CASE InsertRun
  <2>1. todo # <<>>
    BY <1>3 DEF InsertRun, SweepInv, Types, Points
  <2>2. [job |-> CurrentJob, due |-> CurrentDue, status |-> "running"] \in Row
    BY <2>1, TheCurrentRow DEF Row
  <2> QED BY <1>2, <1>3, <2>2, Appended DEF InsertRun
<1>4. ASSUME NEW status \in {"running", "success", "failed"}, pc \in Points, SetRun(status)
      PROVE  n \in DOMAIN runs' /\ runs'[n] = runs[n]
  <2>1. n # Len(runs)
    BY <1>1, <1>4 DEF SweepInv, InHand, Points
  <2> QED BY <1>4, <2>1, SetRunEffect
<1>5. CASE FinishRun
  BY <1>4, <1>5 DEF FinishRun, Points
<1>6. CASE Throw
  BY <1>4, <1>6 DEF Throw
<1>7. CASE UNCHANGED runs
  BY <1>7
<1> QED
  BY <1>3, <1>5, <1>6, <1>7 DEF Next, vars, Start, FirstSweep, NextSweep, AppendEvent,
       UpdateNextRun, CreateInterval, CreateOnce, Cancel, Down, Tick

(* appendHubMessage: the row in hand has its event afterwards.  A new event is that, is    *)
(* the last, and its key was not known.                                                   *)
LEMMA AppendEventEffect ==
  ASSUME SweepInv, AppendEvent
  PROVE  /\ events' \in Seq(EventRow)
         /\ DOMAIN events \subseteq DOMAIN events'
         /\ \A n \in DOMAIN events : events'[n] = events[n]
         /\ \A n \in DOMAIN events' \ DOMAIN events :
              /\ \A m \in DOMAIN events : m < n
              /\ \A m \in DOMAIN events' \ DOMAIN events : m = n
              /\ events'[n].job = CurrentJob /\ events'[n].due = CurrentDue
              /\ events'[n].key = DedupeKey(CurrentJob, CurrentDue)
              /\ \A m \in DOMAIN events : events[m].key # DedupeKey(CurrentJob, CurrentDue)
         /\ \E n \in DOMAIN events' : events'[n].job = CurrentJob /\ events'[n].due = CurrentDue
<1> DEFINE key == DedupeKey(CurrentJob, CurrentDue)
           row == [job |-> CurrentJob, due |-> CurrentDue, key |-> key]
<1>1. events \in Seq(EventRow) /\ todo # <<>> /\ Behind
  BY DEF SweepInv, Types, AppendEvent, Points
<1>2. key = <<CurrentJob, CurrentDue>> /\ key \in Selected /\ row \in EventRow
  BY <1>1, TheCurrentRow DEF DedupeKey, Selected, EventRow
<1>3. CASE \E n \in DOMAIN events : events[n].key = key
  <2>1. events' = events
    BY <1>3 DEF AppendEvent
  <2>2. PICK n \in DOMAIN events : events[n].key = key
    BY <1>3
  <2>3. events[n].key = <<events[n].job, events[n].due>>
    BY <1>1 DEF Behind, DedupeKey
  <2>4. events[n].job = CurrentJob /\ events[n].due = CurrentDue
    BY <1>2, <2>2, <2>3
  <2> QED BY <1>1, <2>1, <2>4
<1>4. CASE ~\E n \in DOMAIN events : events[n].key = key
  <2>1. events' = Append(events, row)
    BY <1>4 DEF AppendEvent
  <2>2. /\ row.job = CurrentJob /\ row.due = CurrentDue
        /\ row.key = DedupeKey(CurrentJob, CurrentDue)
    OBVIOUS
  <2>3. \A m \in DOMAIN events : events[m].key # DedupeKey(CurrentJob, CurrentDue)
    BY <1>4
  <2>4. DOMAIN events = 1..Len(events) /\ Len(events) \in Nat
    BY <1>1
  <2> HIDE DEF row, key
  <2>5. /\ events' \in Seq(EventRow)
        /\ DOMAIN events' = DOMAIN events \cup {Len(events) + 1}
        /\ \A n \in DOMAIN events : events'[n] = events[n]
        /\ events'[Len(events) + 1] = row
    BY <1>1, <1>2, <2>1, Appended
  <2> QED BY <2>2, <2>3, <2>4, <2>5
<1> QED BY <1>3, <1>4

(* An event stays on the log. *)
LEMMA EventsStay ==
  ASSUME SweepInv, [Next]_vars
  PROVE  \A j, due : Fired(j, due) => Fired(j, due)'
<1>1. CASE AppendEvent
  BY <1>1, AppendEventEffect DEF Fired
<1>2. CASE UNCHANGED events
  BY <1>2 DEF Fired
<1> QED
  BY <1>1, <1>2 DEF Next, vars, Start, FirstSweep, NextSweep, InsertRun, FinishRun, UpdateNextRun, Throw,
       CreateInterval, CreateOnce, Cancel, Down, Tick

(* The next run of any job that runs again is later than the sweep. *)
LEMMA NextRunIsNext ==
  ASSUME NEW j \in Job \ UserOnce, NEW due \in Nat, NEW t \in Nat
  PROVE  /\ NextRun(j, due, t) \in Nat
         /\ NextRun(j, due, t) > t
<1>1. CASE j \in SystemDaily
  BY <1>1, NextDailyRunIsNext DEF NextRun
<1>2. CASE j \notin SystemDaily
  <2>1. Interval[j] \in Nat \ {0}
    BY <1>2, TimesAssumption DEF Job, System, User
  <2> QED BY <1>2, <2>1, NextIntervalRunIsNext DEF NextRun
<1> QED BY <1>1, <1>2

(* updateNextRun: the job in hand is disabled or moves past the sweep, no other changes. *)
LEMMA UpdateEffect ==
  ASSUME SweepInv, UpdateNextRun
  PROVE  /\ jobs' \in [Job -> [state : JobState, nextRunAt : Nat]]
         /\ \A k \in Job : k # CurrentJob => jobs'[k] = jobs[k]
         /\ CurrentJob \in UserOnce => jobs'[CurrentJob].state = "disabled"
         /\ CurrentJob \notin UserOnce =>
              /\ jobs'[CurrentJob].state = "enabled"
              /\ jobs'[CurrentJob].nextRunAt = NextRun(CurrentJob, CurrentDue, sweptAt)
              /\ jobs'[CurrentJob].nextRunAt > sweptAt
<1>1. todo # <<>> /\ sweptAt \in Nat /\ jobs \in [Job -> [state : JobState, nextRunAt : Nat]]
  BY DEF UpdateNextRun, SweepInv, Types, Points
<1>2. CurrentJob \in Job /\ CurrentDue \in Nat /\ jobs[CurrentJob].state = "enabled"
  BY <1>1, TheCurrentRow
<1> DEFINE old == jobs[CurrentJob]
           new == IF CurrentJob \in UserOnce
                    THEN [old EXCEPT !.state = "disabled"]
                    ELSE [old EXCEPT !.nextRunAt = NextRun(CurrentJob, CurrentDue, sweptAt)]
<1>3. jobs' = [jobs EXCEPT ![CurrentJob] = new]
  BY DEF UpdateNextRun
<1>4. CASE CurrentJob \in UserOnce
  <2>1. new \in [state : JobState, nextRunAt : Nat] /\ new.state = "disabled"
    BY <1>1, <1>2, <1>4 DEF JobState
  <2> HIDE DEF new
  <2> QED BY <1>1, <1>2, <1>3, <1>4, <2>1
<1>5. CASE CurrentJob \notin UserOnce
  <2> DEFINE next == NextRun(CurrentJob, CurrentDue, sweptAt)
  <2>1. next \in Nat /\ next > sweptAt
    BY <1>1, <1>2, <1>5, NextRunIsNext
  <2>2. new = [old EXCEPT !.nextRunAt = next]
    BY <1>5
  <2> HIDE DEF next
  <2>3. /\ new \in [state : JobState, nextRunAt : Nat]
        /\ new.state = "enabled" /\ new.nextRunAt = next
    BY <1>1, <1>2, <2>1, <2>2
  <2> HIDE DEF new
  <2>4. jobs' \in [Job -> [state : JobState, nextRunAt : Nat]] /\ jobs'[CurrentJob] = new
    BY <1>1, <1>2, <1>3, <2>3
  <2>5. \A k \in Job : k # CurrentJob => jobs'[k] = jobs[k]
    BY <1>1, <1>3
  <2> QED BY <1>5, <2>1, <2>3, <2>4, <2>5 DEF next
<1> QED BY <1>4, <1>5

(* The rows of a sweep are due, no two are of one job, and when all fit none is left out. *)
LEMMA SelectEffect ==
  ASSUME Types, Select
  PROVE  /\ todo' \in Seq(Selected)
         /\ pc' = IF todo' = <<>> THEN "asleep" ELSE "sweep"
         /\ sweptAt' = now
         /\ \A n \in DOMAIN todo' :
              /\ todo'[n][1] \in Job
              /\ jobs[todo'[n][1]].state = "enabled"
              /\ jobs[todo'[n][1]].nextRunAt = todo'[n][2]
              /\ todo'[n][2] <= now
         /\ \A m, n \in DOMAIN todo' : m # n => todo'[m][1] # todo'[n][1]
         /\ AllFit => \A j \in Due : \E n \in DOMAIN todo' : todo'[n][1] = j
<1>1. PICK s \in Selection :
        /\ todo' = [n \in DOMAIN s |-> <<s[n], jobs[s[n]].nextRunAt>>]
        /\ pc' = IF s = <<>> THEN "asleep" ELSE "sweep"
        /\ sweptAt' = now
  BY DEF Select
<1>2. PICK k \in 0..Limit : s \in [1..k -> Due]
  BY <1>1 DEF Selection
<1>3. Limit \in Nat \ {0} /\ k \in Nat
  BY TimesAssumption
<1>4. s \in Seq(Due) /\ Len(s) = k /\ DOMAIN s = 1..k
  BY <1>2, <1>3, FunctionIsSequence
<1>5. Due \subseteq Job /\ \A j \in Due : /\ jobs[j].state = "enabled" /\ jobs[j].nextRunAt \in 0..MaxNow
                                        /\ jobs[j].nextRunAt <= now
  BY TimesAssumption DEF Due, Types
<1>6. \A n \in 1..k : s[n] \in Due
  BY <1>2
<1>7. todo' \in [1..k -> Selected]
  BY <1>1, <1>4, <1>5, <1>6 DEF Selected
<1>8. todo' \in Seq(Selected) /\ Len(todo') = k /\ DOMAIN todo' = 1..k
  BY <1>3, <1>7, FunctionIsSequence
<1>9. \A n \in 1..k : todo'[n][1] = s[n] /\ todo'[n][2] = jobs[s[n]].nextRunAt
  BY <1>1, <1>4
<1>10. \A m, n \in 1..k : m # n => s[m] # s[n]
  BY <1>3, <1>4 DEF Selection
<1>11. s = <<>> <=> todo' = <<>>
  <2>1. s = <<>> <=> k = 0
    BY <1>3, <1>4
  <2>2. todo' = <<>> <=> k = 0
    BY <1>3, <1>8
  <2> QED BY <2>1, <2>2
<1>12. ASSUME AllFit, NEW j \in Due
       PROVE  \E n \in DOMAIN s : s[n] = j
  <2> SUFFICES ASSUME ~\E n \in DOMAIN s : s[n] = j
               PROVE  FALSE
    OBVIOUS
  <2>1. k = Limit
    BY <1>4 DEF Selection
  <2>2. s \in [1..k -> Job \ {j}]
    BY <1>2, <1>4, <1>5, <1>6
  <2>3. s \in Injection(1..k, Job \ {j})
    BY <1>10, <2>2 DEF Injection, IsInjective
  <2>4. IsFiniteSet(Job \ {j}) /\ Cardinality(Job \ {j}) = Cardinality(Job) - 1
    BY <1>5, FS_RemoveElement, JobsAssumption
  <2>5. Cardinality(1..k) <= Cardinality(Job \ {j})
    BY <2>3, <2>4, FS_Injection
  <2>6. Cardinality(1..k) = k
    BY <1>3, <2>1, FS_Interval
  <2>7. Cardinality(Job) \in Nat
    BY FS_CardinalityType, JobsAssumption
  <2> QED BY <1>3, <1>12, <2>1, <2>4, <2>5, <2>6, <2>7 DEF AllFit
<1>13. AllFit => \A j \in Due : \E n \in DOMAIN todo' : todo'[n][1] = j
  BY <1>4, <1>8, <1>9, <1>12
<1> QED BY <1>1, <1>5, <1>6, <1>8, <1>9, <1>10, <1>11, <1>13

-----------------------------------------------------------------------------
(* The sweep's own invariant *)

LEMMA TypesStep ==
  ASSUME SweepInv, [Next]_vars
  PROVE  Types'
<1> USE TimesAssumption
<1>0. Types /\ Clock
  BY DEF SweepInv
<1>1. CASE Start
  <2>1. \A j \in Job : SeededJobs[j] \in [state : JobState, nextRunAt : Nat]
    BY SMTT(30), <1>0, NextDailyRunIsNext DEF SeededJobs, Types, JobState, Job, System, User
  <2>2. jobs' \in [Job -> [state : JobState, nextRunAt : Nat]]
    BY <1>1, <2>1 DEF Start, SeededJobs
  <2> QED BY <1>0, <1>1, <2>2 DEF Start, Types, Points
<1>2. CASE FirstSweep \/ NextSweep
  <2>1. Select /\ UNCHANGED <<now, jobs, runs, events, throws, restarts, createdAt, upSince>>
    BY <1>2 DEF FirstSweep, NextSweep
  <2>2. /\ todo' \in Seq(Selected) /\ sweptAt' = now
        /\ pc' = IF todo' = <<>> THEN "asleep" ELSE "sweep"
    BY <1>0, <2>1, SelectEffect
  <2>3. /\ pc' \in {"down", "seeded", "asleep", "sweep"} \cup Points
        /\ pc' \in {"down", "seeded", "asleep"} <=> todo' = <<>>
    BY <2>2
  <2> QED BY <1>0, <2>1, <2>2, <2>3 DEF Types
<1>3. CASE InsertRun
  <2>1. todo # <<>>
    BY <1>0, <1>3 DEF InsertRun, Types, Points
  <2>2. [job |-> CurrentJob, due |-> CurrentDue, status |-> "running"] \in Row
    BY <2>1, TheCurrentRow DEF Row
  <2>3. runs' \in Seq(Row)
    BY <1>0, <1>3, <2>2, Appended DEF InsertRun, Types
  <2> QED BY <1>0, <1>3, <2>3 DEF InsertRun, Types, Points
<1>4. CASE AppendEvent
  <2>1. events' \in Seq(EventRow)
    BY <1>4, AppendEventEffect
  <2> QED BY <1>0, <1>4, <2>1 DEF AppendEvent, Types, Points
<1>5. CASE FinishRun
  <2>1. runs' \in Seq(Row)
    BY <1>5, SetRunEffect DEF FinishRun, Points
  <2> QED BY <1>0, <1>5, <2>1 DEF FinishRun, Types, Points
<1>6. ASSUME todo # <<>>, NextRow
      PROVE  /\ todo' \in Seq(Selected)
             /\ pc' \in {"down", "seeded", "asleep", "sweep"} \cup Points
             /\ pc' \in {"down", "seeded", "asleep"} <=> todo' = <<>>
  BY <1>6, TheCurrentRow DEF NextRow
<1>7. CASE UpdateNextRun
  <2>1. todo # <<>> /\ NextRow
    BY <1>0, <1>7 DEF UpdateNextRun, Types, Points
  <2>2. jobs' \in [Job -> [state : JobState, nextRunAt : Nat]]
    BY <1>7, UpdateEffect
  <2> QED BY <1>0, <1>6, <1>7, <2>1, <2>2 DEF UpdateNextRun, Types
<1>8. CASE Throw
  <2>1. todo # <<>> /\ NextRow
    BY <1>0, <1>8 DEF Throw, Types, Points
  <2>2. runs' \in Seq(Row)
    BY <1>8, SetRunEffect DEF Throw
  <2>3. throws' \in 0..MaxThrows
    BY <1>0, <1>8 DEF Throw, Types
  <2> QED BY <1>0, <1>6, <1>8, <2>1, <2>2, <2>3 DEF Throw, Types
<1>9. ASSUME NEW j \in UserInterval, CreateInterval(j)
      PROVE  Types'
  <2>1. j \in User /\ j \in Job /\ Interval[j] \in Nat \ {0}
    BY DEF User, Job
  <2>2. jobs' \in [Job -> [state : JobState, nextRunAt : Nat]]
    BY <1>0, <1>9, <2>1 DEF CreateInterval, Types, JobState
  <2>3. createdAt' \in [User -> 0..now]
    BY <1>0, <1>9, <2>1 DEF CreateInterval, Types
  <2> QED BY <1>0, <1>9, <2>2, <2>3 DEF CreateInterval, Types
<1>10. ASSUME NEW j \in UserOnce, CreateOnce(j)
       PROVE  Types'
  <2>1. j \in User /\ j \in Job /\ RunAt[j] \in Nat
    BY DEF User, Job
  <2>2. jobs' \in [Job -> [state : JobState, nextRunAt : Nat]]
    BY <1>0, <1>10, <2>1 DEF CreateOnce, Types, JobState
  <2>3. createdAt' \in [User -> 0..now]
    BY <1>0, <1>10, <2>1 DEF CreateOnce, Types
  <2> QED BY <1>0, <1>10, <2>2, <2>3 DEF CreateOnce, Types
<1>11. ASSUME NEW j \in Job, Cancel(j)
       PROVE  Types'
  <2>1. jobs' \in [Job -> [state : JobState, nextRunAt : Nat]]
    BY <1>0, <1>11 DEF Cancel, Types, JobState
  <2> QED BY <1>0, <1>11, <2>1 DEF Cancel, Types
<1>12. CASE Down
  <2>1. todo' \in Seq(Selected) /\ restarts' \in 0..MaxRestarts
    BY <1>0, <1>12 DEF Down, Types
  <2> QED BY <1>0, <1>12, <2>1 DEF Down, Types
<1>13. CASE Tick
  <2>1. /\ now' \in 0..MaxNow /\ sweptAt' \in 0..now' /\ upSince' \in 0..now'
        /\ createdAt' \in [User -> 0..now']
    BY <1>0, <1>13 DEF Tick, Types
  <2> QED BY <1>0, <1>13, <2>1 DEF Tick, Types
<1>14. CASE UNCHANGED vars
  BY <1>0, <1>14 DEF vars, Types
<1> QED
  BY <1>1, <1>2, <1>3, <1>4, <1>5, <1>7, <1>8, <1>9, <1>10, <1>11, <1>12, <1>13, <1>14 DEF Next

LEMMA ClockStep ==
  ASSUME SweepInv, [Next]_vars
  PROVE  Clock'
<1>0. Types /\ Clock
  BY DEF SweepInv
<1>1. Poll \in Nat /\ now \in Nat /\ sweptAt \in Nat
  BY <1>0, TimesAssumption DEF Types
<1>2. CASE FirstSweep \/ NextSweep
  <2>1. Select /\ now' = now
    BY <1>2 DEF FirstSweep, NextSweep
  <2>2. sweptAt' = now
    BY <1>0, <2>1, SelectEffect
  <2> QED BY <1>1, <2>1, <2>2 DEF Clock
<1>3. CASE UpdateNextRun \/ Throw
  <2>1. now = sweptAt /\ UNCHANGED <<now, sweptAt>>
    BY <1>0, <1>3 DEF Clock, UpdateNextRun, Throw, Points
  <2> QED BY <1>1, <2>1 DEF Clock
<1>4. CASE Tick
  BY <1>0, <1>1, <1>4 DEF Tick, Clock, Points
<1>5. CASE UNCHANGED vars
  BY <1>0, <1>5 DEF vars, Clock
<1> QED
  BY <1>0, <1>2, <1>3, <1>4, <1>5 DEF Next, Clock, Points, Start, InsertRun, AppendEvent, FinishRun,
       CreateInterval, CreateOnce, Cancel, Down

LEMMA SelectionStep ==
  ASSUME SweepInv, [Next]_vars
  PROVE  SelectionHolds'
<1>0. Types /\ SelectionHolds
  BY DEF SweepInv
<1>1. CASE FirstSweep \/ NextSweep
  <2>1. Select /\ jobs' = jobs
    BY <1>1 DEF FirstSweep, NextSweep
  <2> QED BY <1>0, <2>1, SelectEffect DEF SelectionHolds
<1>2. CASE UpdateNextRun
  <2>1. todo # <<>> /\ todo' = Tail(todo) /\ sweptAt' = sweptAt
    BY <1>0, <1>2 DEF UpdateNextRun, NextRow, Types, Points
  <2>2. \A n \in DOMAIN todo' : /\ n + 1 \in DOMAIN todo /\ todo'[n] = todo[n + 1]
                              /\ todo[n + 1][1] # CurrentJob /\ n \in Nat
    BY <2>1, TheCurrentRow
  <2>3. \A n \in DOMAIN todo : todo[n][1] \in Job
    BY <1>0 DEF Types, Selected
  <2>4. \A n \in DOMAIN todo' : jobs'[todo'[n][1]] = jobs[todo'[n][1]]
    BY <1>2, <2>2, <2>3, UpdateEffect
  <2> QED BY <1>0, <2>1, <2>2, <2>4 DEF SelectionHolds
<1>3. CASE Throw
  <2>1. todo # <<>> /\ todo' = Tail(todo) /\ sweptAt' = sweptAt /\ jobs' = jobs
    BY <1>0, <1>3 DEF Throw, NextRow, Types, Points
  <2>2. \A n \in DOMAIN todo' : n + 1 \in DOMAIN todo /\ todo'[n] = todo[n + 1] /\ n \in Nat
    BY <2>1, TheCurrentRow
  <2> QED BY <1>0, <2>1, <2>2 DEF SelectionHolds
<1>4. CASE todo' = <<>>
  BY <1>4 DEF SelectionHolds
<1>5. CASE UNCHANGED <<todo, jobs, sweptAt>>
  BY <1>0, <1>5 DEF SelectionHolds
<1>6. Start \/ Down \/ (\E j \in UserInterval : CreateInterval(j)) \/ (\E j \in UserOnce : CreateOnce(j))
        \/ (\E j \in Job : Cancel(j)) => todo' = <<>>
  BY <1>0 DEF Start, Down, CreateInterval, CreateOnce, Cancel, Types
<1> QED
  BY <1>1, <1>2, <1>3, <1>4, <1>5, <1>6 DEF Next, vars, InsertRun, AppendEvent, FinishRun, Tick

LEMMA BehindStep ==
  ASSUME SweepInv, [Next]_vars
  PROVE  Behind'
<1>0. Types /\ SelectionHolds /\ Behind
  BY DEF SweepInv
<1>1. /\ now \in Nat /\ sweptAt \in 0..now
      /\ \A n \in DOMAIN events : events[n].job \in Job /\ events[n].due \in 0..MaxNow
      /\ \A k \in Job : jobs[k].nextRunAt \in Nat
  <2>1. \A n \in DOMAIN events : events[n] \in EventRow
    BY <1>0 DEF Types
  <2>2. \A n \in DOMAIN events : events[n].job \in Job /\ events[n].due \in 0..MaxNow
    BY <2>1 DEF EventRow
  <2>3. now \in Nat /\ sweptAt \in 0..now
    BY <1>0, TimesAssumption DEF Types
  <2>4. \A k \in Job : jobs[k].nextRunAt \in Nat
    BY <1>0 DEF Types
  <2> QED BY <2>2, <2>3, <2>4
<1>2. ASSUME UNCHANGED events, sweptAt <= sweptAt', sweptAt' \in Nat,
             \A k \in Job : /\ jobs[k].state # "absent" => jobs'[k].state # "absent"
                            /\ jobs'[k].nextRunAt \in Nat
                            /\ \/ jobs[k].state = "absent"
                               \/ jobs'[k].nextRunAt >= jobs[k].nextRunAt
                               \/ jobs'[k].nextRunAt >= sweptAt
      PROVE  Behind'
  <2> SUFFICES ASSUME NEW n \in DOMAIN events
               PROVE  /\ events[n].key = DedupeKey(events[n].job, events[n].due)
                      /\ jobs'[events[n].job].state # "absent"
                      /\ events[n].due <= jobs'[events[n].job].nextRunAt
                      /\ events[n].due <= sweptAt'
    BY <1>2 DEF Behind, DedupeKey
  <2>1. /\ events[n].key = DedupeKey(events[n].job, events[n].due)
        /\ jobs[events[n].job].state # "absent"
        /\ events[n].due <= jobs[events[n].job].nextRunAt
        /\ events[n].due <= sweptAt
    BY <1>0 DEF Behind
  <2> DEFINE k == events[n].job
             d == events[n].due
  <2>2. k \in Job /\ d \in Nat /\ sweptAt \in Nat /\ jobs[k].nextRunAt \in Nat
    BY <1>1, TimesAssumption
  <2>3. jobs'[k].state # "absent" /\ jobs'[k].nextRunAt \in Nat
    BY <1>2, <2>1, <2>2
  <2>4. jobs'[k].nextRunAt >= jobs[k].nextRunAt \/ jobs'[k].nextRunAt >= sweptAt
    BY <1>2, <2>1, <2>2
  <2>5. d <= jobs[k].nextRunAt /\ d <= sweptAt
    BY <2>1
  <2> HIDE DEF k, d
  <2>6. d <= jobs'[k].nextRunAt /\ d <= sweptAt'
    BY <1>2, <2>2, <2>3, <2>4, <2>5
  <2> QED BY <2>1, <2>3, <2>6 DEF k, d
<1>3. CASE Start
  <2>1. \A k \in Job : \/ jobs'[k] = jobs[k]
                       \/ jobs'[k] = [state |-> "enabled", nextRunAt |-> now]
                       \/ jobs'[k] = [state |-> "enabled", nextRunAt |-> NextDailyRun(now)]
    BY <1>3 DEF Start, SeededJobs, Job, System
  <2>2. NextDailyRun(now) \in Nat /\ NextDailyRun(now) > now
    BY <1>1, NextDailyRunIsNext
  <2>3. ASSUME NEW k \in Job
        PROVE  /\ jobs[k].state # "absent" => jobs'[k].state # "absent"
               /\ jobs'[k].nextRunAt \in Nat
               /\ \/ jobs'[k].nextRunAt >= jobs[k].nextRunAt
                  \/ jobs'[k].nextRunAt >= sweptAt
    BY <1>1, <2>1, <2>2
  <2> QED BY <1>1, <1>2, <1>3, <2>3 DEF Start
<1>4. CASE FirstSweep \/ NextSweep
  <2>1. Select /\ UNCHANGED <<jobs, events>>
    BY <1>4 DEF FirstSweep, NextSweep
  <2>2. sweptAt' = now
    BY <1>0, <2>1, SelectEffect
  <2> QED BY <1>1, <1>2, <2>1, <2>2
<1>5. CASE AppendEvent
  <2>1. todo # <<>> /\ UNCHANGED <<jobs, sweptAt>>
    BY <1>0, <1>5 DEF AppendEvent, Types, Points
  <2>2. /\ jobs[CurrentJob].state = "enabled" /\ jobs[CurrentJob].nextRunAt = CurrentDue
        /\ CurrentDue <= sweptAt /\ CurrentDue \in 0..MaxNow
    BY <2>1, TheCurrentRow
  <2>3. ASSUME NEW n \in DOMAIN events'
        PROVE  /\ events'[n].key = DedupeKey(events'[n].job, events'[n].due)
               /\ jobs[events'[n].job].state # "absent"
               /\ events'[n].due <= jobs[events'[n].job].nextRunAt
               /\ events'[n].due <= sweptAt
    <3>1. CASE n \in DOMAIN events
      BY <1>0, <1>5, <3>1, AppendEventEffect DEF Behind
    <3>2. CASE n \notin DOMAIN events
      <4>1. /\ events'[n].job = CurrentJob /\ events'[n].due = CurrentDue
            /\ events'[n].key = DedupeKey(CurrentJob, CurrentDue)
        BY <1>5, <3>2, AppendEventEffect
      <4> QED BY <2>2, <4>1, TimesAssumption
    <3> QED BY <3>1, <3>2
  <2> QED BY <2>1, <2>3 DEF Behind, DedupeKey
<1>6. CASE UpdateNextRun
  <2>1. todo # <<>> /\ UNCHANGED <<events, sweptAt>> /\ CurrentJob \in Job
    BY <1>0, <1>6, TheCurrentRow DEF UpdateNextRun, Types, Points
  <2>2. /\ jobs' \in [Job -> [state : JobState, nextRunAt : Nat]]
        /\ \A k \in Job : k # CurrentJob => jobs'[k] = jobs[k]
    BY <1>6, UpdateEffect
  <2>3. CASE CurrentJob \in UserOnce
    <3>1. /\ jobs'[CurrentJob].state = "disabled"
          /\ jobs'[CurrentJob].nextRunAt = jobs[CurrentJob].nextRunAt
      BY <1>0, <1>6, <2>1, <2>3 DEF UpdateNextRun, Types
    <3> QED BY <1>1, <1>2, <2>1, <2>2, <3>1
  <2>4. CASE CurrentJob \notin UserOnce
    <3>1. jobs'[CurrentJob].state = "enabled" /\ jobs'[CurrentJob].nextRunAt > sweptAt
      BY <1>6, <2>4, UpdateEffect
    <3> QED BY <1>1, <1>2, <2>1, <2>2, <3>1
  <2> QED BY <2>3, <2>4
<1>7. ASSUME NEW u \in User, CreateInterval(u) \/ CreateOnce(u)
      PROVE  Behind'
  <2>1. /\ UNCHANGED <<events, sweptAt>> /\ jobs[u].state = "absent" /\ u \in Job
        /\ \A k \in Job : k # u => jobs'[k] = jobs[k]
    BY <1>0, <1>7 DEF CreateInterval, CreateOnce, Types, Job
  <2>2. jobs' \in [Job -> [state : JobState, nextRunAt : Nat]]
    BY TypesStep DEF Types
  <2> QED BY <1>1, <1>2, <2>1, <2>2
<1>8. ASSUME NEW u \in Job, Cancel(u)
      PROVE  Behind'
  <2>1. /\ UNCHANGED <<events, sweptAt>>
        /\ \A k \in Job : /\ jobs'[k].nextRunAt = jobs[k].nextRunAt
                          /\ jobs[k].state # "absent" => jobs'[k].state # "absent"
    BY <1>0, <1>8 DEF Cancel, Types
  <2> QED BY <1>1, <1>2, <2>1
<1>9. CASE UNCHANGED <<jobs, events, sweptAt>>
  BY <1>1, <1>2, <1>9
<1> QED
  BY <1>3, <1>4, <1>5, <1>6, <1>7, <1>8, <1>9 DEF Next, vars, User, InsertRun, FinishRun, Throw, Down,
       Tick

LEMMA EventsStep ==
  ASSUME SweepInv, [Next]_vars
  PROVE  EventsMoveOn'
<1>0. Types /\ Behind /\ EventsMoveOn
  BY DEF SweepInv
<1>1. CASE AppendEvent
  <2>1. todo # <<>>
    BY <1>0, <1>1 DEF AppendEvent, Types, Points
  <2>2. jobs[CurrentJob].nextRunAt = CurrentDue /\ CurrentDue \in 0..MaxNow
    BY <2>1, TheCurrentRow
  <2>3. ASSUME NEW m \in DOMAIN events, events[m].job = CurrentJob,
               events[m].key # DedupeKey(CurrentJob, CurrentDue)
        PROVE  events[m].due < CurrentDue
    <3>1. events[m].due <= CurrentDue /\ events[m].due # CurrentDue
      BY <1>0, <2>2, <2>3 DEF Behind
    <3>2. events[m] \in EventRow
      BY <1>0, <2>3 DEF Types
    <3>3. events[m].due \in Nat /\ CurrentDue \in Nat
      BY <2>2, <3>2, TimesAssumption DEF EventRow
    <3> QED BY <3>1, <3>3
  <2> SUFFICES ASSUME NEW m \in DOMAIN events', NEW n \in DOMAIN events',
                      m < n, events'[m].job = events'[n].job
               PROVE  events'[m].due < events'[n].due
    BY DEF EventsMoveOn
  <2>4. DOMAIN events \subseteq Nat /\ DOMAIN events' \subseteq Nat
    BY <1>0, <1>1, AppendEventEffect DEF Types
  <2>5. CASE n \in DOMAIN events
    <3>1. m \in DOMAIN events
      BY <1>1, <2>4, <2>5, AppendEventEffect
    <3> QED BY <1>0, <1>1, <2>5, <3>1, AppendEventEffect DEF EventsMoveOn
  <2>6. CASE n \notin DOMAIN events
    <3>1. m \in DOMAIN events
      BY <1>1, <2>4, <2>6, AppendEventEffect
    <3> QED BY <1>1, <2>3, <2>6, <3>1, AppendEventEffect
  <2> QED BY <2>5, <2>6
<1>2. CASE UNCHANGED events
  BY <1>0, <1>2 DEF EventsMoveOn
<1> QED
  BY <1>1, <1>2 DEF Next, vars, Start, FirstSweep, NextSweep, InsertRun, FinishRun, UpdateNextRun, Throw,
       CreateInterval, CreateOnce, Cancel, Down, Tick

LEMMA InHandStep ==
  ASSUME SweepInv, [Next]_vars
  PROVE  InHand'
<1>0. Types /\ InHand
  BY DEF SweepInv
<1>1. CASE InsertRun
  <2>1. todo # <<>> /\ todo' = todo /\ pc' = "inserted" /\ runs \in Seq(Row)
    BY <1>0, <1>1 DEF InsertRun, Types, Points
  <2> DEFINE row == [job |-> CurrentJob, due |-> CurrentDue, status |-> "running"]
  <2>2. row \in Row
    BY <2>1, TheCurrentRow DEF Row
  <2>3. runs' = Append(runs, row)
    BY <1>1 DEF InsertRun
  <2>4. runs' # <<>> /\ runs'[Len(runs')] = row
    BY <2>1, <2>2, <2>3, Appended
  <2> QED BY <2>1, <2>4 DEF InHand, CurrentJob, CurrentDue
<1>2. CASE AppendEvent
  <2>1. todo # <<>> /\ UNCHANGED <<todo, runs>> /\ pc = "inserted" /\ pc' = "appended"
    BY <1>0, <1>2 DEF AppendEvent, Types, Points
  <2>2. \E n \in DOMAIN events' : events'[n].job = CurrentJob /\ events'[n].due = CurrentDue
    BY <1>2, AppendEventEffect
  <2>3. CurrentJob' = CurrentJob /\ CurrentDue' = CurrentDue
    BY <2>1 DEF CurrentJob, CurrentDue
  <2> QED BY <1>0, <2>1, <2>2, <2>3 DEF InHand, Points, Fired
<1>3. CASE FinishRun
  <2>1. pc = "appended" /\ pc' = "finished" /\ UNCHANGED <<todo, events>> /\ SetRun("success")
    BY <1>3 DEF FinishRun
  <2>2. runs' # <<>> /\ runs'[Len(runs')] = [job |-> CurrentJob, due |-> CurrentDue, status |-> "success"]
    BY <2>1, SetRunEffect DEF Points
  <2>3. Fired(CurrentJob, CurrentDue)
    BY <1>0, <2>1 DEF InHand, Points
  <2>4. CurrentJob' = CurrentJob /\ CurrentDue' = CurrentDue
    BY <2>1 DEF CurrentJob, CurrentDue
  <2> QED BY <2>1, <2>2, <2>3, <2>4 DEF InHand, Fired
<1>4. CASE UNCHANGED <<pc, todo, runs, events>>
  BY <1>0, <1>4 DEF InHand, CurrentJob, CurrentDue, Fired
<1>5. CASE pc' \notin Points
  BY <1>5 DEF InHand
<1>6. FirstSweep \/ NextSweep => pc' \notin Points
  BY DEF FirstSweep, NextSweep, Select, Points
<1>7. Start \/ UpdateNextRun \/ Throw \/ Down => pc' \notin Points
  BY DEF Start, UpdateNextRun, Throw, NextRow, Down, Points
<1> QED
  BY <1>1, <1>2, <1>3, <1>4, <1>5, <1>6, <1>7 DEF Next, vars, CreateInterval, CreateOnce, Cancel, Tick

LEMMA SweepInvStep ==
  ASSUME SweepInv, [Next]_vars
  PROVE  SweepInv'
BY TypesStep, ClockStep, SelectionStep, BehindStep, EventsStep, InHandStep DEF SweepInv

-----------------------------------------------------------------------------
(* Runs, the grid, what a sweep leaves behind *)

LEMMA TruthStep ==
  ASSUME SweepInv, RunsTellTheTruth, [Next]_vars
  PROVE  RunsTellTheTruth'
<1>0. Types /\ InHand /\ runs \in Seq(Row)
  BY DEF SweepInv, Types
<1>2. CASE InsertRun
  <2>1. todo # <<>> /\ pc' = "inserted" /\ pc \notin Points /\ UNCHANGED <<events, restarts>>
    BY <1>0, <1>2 DEF InsertRun, Types, Points
  <2> DEFINE row == [job |-> CurrentJob, due |-> CurrentDue, status |-> "running"]
  <2>2. row \in Row
    BY <2>1, TheCurrentRow DEF Row
  <2>3. runs' = Append(runs, row)
    BY <1>2 DEF InsertRun
  <2>4. /\ DOMAIN runs' = DOMAIN runs \cup {Len(runs) + 1} /\ Len(runs') = Len(runs) + 1
        /\ \A n \in DOMAIN runs : runs'[n] = runs[n]
        /\ runs'[Len(runs) + 1] = row
    BY <1>0, <2>2, <2>3, Appended
  <2> QED BY <2>1, <2>4 DEF RunsTellTheTruth, Points, Fired
<1>3. CASE AppendEvent
  <2>1. UNCHANGED <<runs, restarts>> /\ pc \in Points /\ pc' \in Points
    BY <1>3 DEF AppendEvent, Points
  <2> QED BY <1>3, <2>1, AppendEventEffect DEF RunsTellTheTruth, Fired
<1>4. CASE FinishRun
  <2>1. /\ pc \in Points /\ pc' \in Points /\ UNCHANGED <<events, restarts, todo>> /\ SetRun("success")
        /\ todo # <<>>
    BY <1>0, <1>4 DEF FinishRun, Types, Points
  <2>2. /\ Len(runs') = Len(runs) /\ DOMAIN runs' = DOMAIN runs
        /\ \A n \in DOMAIN runs : n # Len(runs) => runs'[n] = runs[n]
        /\ runs'[Len(runs)] = [job |-> CurrentJob, due |-> CurrentDue, status |-> "success"]
    BY <2>1, SetRunEffect
  <2>3. Fired(CurrentJob, CurrentDue)
    BY <1>0, <1>4, <2>1 DEF FinishRun, InHand, Points
  <2> QED BY <2>1, <2>2, <2>3 DEF RunsTellTheTruth, Fired
<1>5. CASE Throw
  <2>1. pc \in Points /\ UNCHANGED <<events, restarts>> /\ SetRun("failed")
    BY <1>5 DEF Throw
  <2>2. /\ Len(runs') = Len(runs) /\ DOMAIN runs' = DOMAIN runs
        /\ \A n \in DOMAIN runs : n # Len(runs) => runs'[n] = runs[n]
        /\ runs'[Len(runs)] = [job |-> CurrentJob, due |-> CurrentDue, status |-> "failed"]
    BY <2>1, SetRunEffect
  <2> QED BY <2>1, <2>2 DEF RunsTellTheTruth, Fired
<1>6. CASE UpdateNextRun
  <2>1. pc = "finished" /\ UNCHANGED <<runs, events, restarts>>
    BY <1>6 DEF UpdateNextRun
  <2>2. runs[Len(runs)].status = "success"
    BY <1>0, <2>1 DEF InHand, Points
  <2> QED BY <2>1, <2>2 DEF RunsTellTheTruth, Fired
<1>7. CASE Down
  <2>1. restarts' > 0 /\ UNCHANGED <<runs, events>>
    BY <1>0, <1>7 DEF Down, Types
  <2> QED BY <2>1 DEF RunsTellTheTruth, Fired
<1>8. CASE UNCHANGED <<runs, events, restarts>> /\ (pc' = pc \/ pc \notin Points)
  BY <1>8 DEF RunsTellTheTruth, Fired
<1> QED
  BY <1>2, <1>3, <1>4, <1>5, <1>6, <1>7, <1>8 DEF Next, vars, Start, FirstSweep, NextSweep,
       CreateInterval, CreateOnce, Cancel, Tick, Points

LEMMA GridStep ==
  ASSUME SweepInv, Grid, [Next]_vars
  PROVE  Grid'
<1> SUFFICES ASSUME NEW j \in UserInterval, jobs'[j].state # "absent"
             PROVE  /\ jobs'[j].nextRunAt >= createdAt'[j]
                    /\ ((jobs'[j].nextRunAt - createdAt'[j]) % Interval[j]) = 0
  BY DEF Grid
<1>0. Types /\ now \in Nat /\ sweptAt \in Nat
  BY SMTT(30), TimesAssumption DEF SweepInv, Types
<1>1. /\ j \in Job /\ j \in User /\ Interval[j] \in Nat \ {0}
      /\ j \notin System /\ j \notin UserOnce
  BY TimesAssumption, JobsAssumption DEF Job, User
<1>2. createdAt[j] \in Nat /\ jobs[j].nextRunAt \in Nat
  BY <1>0, <1>1, TimesAssumption DEF Types
<1>3. CASE jobs'[j].nextRunAt = jobs[j].nextRunAt /\ createdAt'[j] = createdAt[j] /\ jobs[j].state # "absent"
  BY <1>3 DEF Grid
<1>4. CASE Start
  BY <1>0, <1>1, <1>3, <1>4 DEF Start, SeededJobs, System
<1>5. CASE UpdateNextRun
  <2>1. todo # <<>> /\ createdAt' = createdAt
    BY <1>0, <1>5 DEF UpdateNextRun, Types, Points
  <2>2. CASE j # CurrentJob
    BY <1>1, <1>3, <1>5, <2>1, <2>2, UpdateEffect
  <2>3. CASE j = CurrentJob
    <3> DEFINE c == createdAt[j]
               d == CurrentDue
               i == Interval[j]
    <3>1. jobs[j].state = "enabled" /\ jobs[j].nextRunAt = d /\ d \in Nat
      BY <1>2, <2>1, <2>3, TheCurrentRow
    <3>2. d >= c /\ ((d - c) % i) = 0
      BY <3>1 DEF Grid
    <3>3. jobs'[j].nextRunAt = NextRun(j, d, sweptAt)
      BY <1>1, <1>5, <2>3, UpdateEffect
    <3>4. NextRun(j, d, sweptAt) = NextIntervalRun(d, i, sweptAt)
      BY <1>1 DEF NextRun, System
    <3>5. PICK k \in Nat : NextIntervalRun(d, i, sweptAt) = d + i * k
      BY <1>0, <1>1, <3>1, NextIntervalRunIsNext
    <3>6. d - c \in Nat /\ i * k \in Nat /\ c \in Nat /\ i \in Nat \ {0}
      BY <1>1, <1>2, <3>1, <3>2
    <3> HIDE DEF c, d, i
    <3>7. (((d - c) + i * k) % i) = 0
      BY <3>2, <3>6, OnGrid
    <3>8. jobs'[j].nextRunAt - c = (d - c) + i * k /\ jobs'[j].nextRunAt >= c
      BY <3>1, <3>2, <3>3, <3>4, <3>5, <3>6
    <3>9. createdAt'[j] = c
      BY <2>1 DEF c
    <3> QED BY <3>7, <3>8, <3>9 DEF i
  <2> QED BY <2>2, <2>3
<1>6. ASSUME NEW u \in UserInterval, CreateInterval(u)
      PROVE  /\ jobs'[j].nextRunAt >= createdAt'[j]
             /\ ((jobs'[j].nextRunAt - createdAt'[j]) % Interval[j]) = 0
  <2>1. CASE u # j
    BY <1>0, <1>1, <1>3, <1>6, <2>1 DEF CreateInterval, Types
  <2>2. CASE u = j
    <3> DEFINE i == Interval[j]
    <3>1. jobs'[j].nextRunAt = now + i /\ createdAt'[j] = now
      BY <1>0, <1>1, <1>6, <2>2 DEF CreateInterval, Types
    <3>2. i \in Nat \ {0}
      BY <1>1
    <3> HIDE DEF i
    <3>3. (now + i) - now = i * 1 + 0 /\ now + i >= now
      BY <1>0, <3>2
    <3>4. ((i * 1 + 0) % i) = 0
      BY <3>2, ModOfSum
    <3> QED BY <3>1, <3>3, <3>4 DEF i
  <2> QED BY <2>1, <2>2
<1>7. ASSUME NEW u \in UserOnce, CreateOnce(u)
      PROVE  jobs'[j] = jobs[j] /\ createdAt'[j] = createdAt[j]
  BY <1>0, <1>1, <1>7 DEF CreateOnce, Types
<1>8. ASSUME NEW u \in Job, Cancel(u)
      PROVE  jobs'[j].nextRunAt = jobs[j].nextRunAt /\ createdAt' = createdAt /\ jobs[j].state # "absent"
  BY <1>0, <1>1, <1>8 DEF Cancel, Types
<1>9. CASE UNCHANGED <<jobs, createdAt>>
  BY <1>3, <1>9
<1> QED
  BY <1>3, <1>4, <1>5, <1>6, <1>7, <1>8, <1>9 DEF Next, vars, FirstSweep, NextSweep, InsertRun,
       AppendEvent, FinishRun, Throw, Down, Tick

LEMMA NothingLeftStep ==
  ASSUME SweepInv, NothingLeft, [Next]_vars
  PROVE  NothingLeft'
<1> SUFFICES ASSUME AllFit, pc' \notin {"down", "seeded"}, NEW j \in Job,
                    jobs'[j].state = "enabled", jobs'[j].nextRunAt <= sweptAt'
             PROVE  \/ Failed(j, jobs[j].nextRunAt)'
                    \/ j \in UserOnce /\ createdAt'[j] >= sweptAt'
                    \/ \E n \in DOMAIN todo' : todo'[n][1] = j
  BY DEF NothingLeft, AllFit
<1>0. Types /\ SelectionHolds /\ now \in Nat /\ sweptAt \in 0..now /\ jobs[j].nextRunAt \in Nat
  BY TimesAssumption DEF SweepInv, Types
<1>1. CASE FirstSweep \/ NextSweep
  <2>1. Select /\ jobs' = jobs
    BY <1>1 DEF FirstSweep, NextSweep
  <2>2. sweptAt' = now /\ \A k \in Due : \E n \in DOMAIN todo' : todo'[n][1] = k
    BY <1>0, <2>1, SelectEffect
  <2>3. j \in Due
    BY <2>1, <2>2 DEF Due
  <2> QED BY <2>2, <2>3
<1>2. CASE UpdateNextRun
  <2>1. /\ todo # <<>> /\ todo' = Tail(todo) /\ UNCHANGED <<sweptAt, createdAt, runs>>
        /\ pc = "finished"
    BY <1>0, <1>2 DEF UpdateNextRun, NextRow, Types, Points
  <2>2. j # CurrentJob
    BY <1>0, <1>2, <2>1, UpdateEffect, TheCurrentRow
  <2>3. jobs'[j] = jobs[j]
    BY <1>2, <2>2, UpdateEffect
  <2>4. \A n \in DOMAIN todo : todo[n][1] = j => \E m \in DOMAIN todo' : todo'[m][1] = j
    BY <2>1, <2>2, TheCurrentRow
  <2> QED BY <2>1, <2>3, <2>4 DEF NothingLeft, Failed
<1>3. CASE Throw
  <2>1. /\ todo # <<>> /\ todo' = Tail(todo) /\ UNCHANGED <<sweptAt, createdAt, jobs>>
        /\ pc \in Points /\ SetRun("failed")
    BY <1>0, <1>3 DEF Throw, NextRow, Types, Points
  <2>2. CASE j = CurrentJob
    <3>1. /\ Len(runs) \in DOMAIN runs'
          /\ runs'[Len(runs)] = [job |-> CurrentJob, due |-> CurrentDue, status |-> "failed"]
      BY <2>1, SetRunEffect
    <3>2. jobs'[j].nextRunAt = CurrentDue
      BY <2>1, <2>2, TheCurrentRow
    <3> QED BY <2>2, <3>1, <3>2 DEF Failed
  <2>3. CASE j # CurrentJob
    <3>1. \A n \in DOMAIN todo : todo[n][1] = j => \E m \in DOMAIN todo' : todo'[m][1] = j
      BY <2>1, <2>3, TheCurrentRow
    <3>2. Failed(j, jobs[j].nextRunAt) => Failed(j, jobs[j].nextRunAt)'
      <4>1. \A due \in Nat : Failed(j, due) => Failed(j, due)'
        BY FailedRunsStay
      <4> QED BY <1>0, <2>1, <4>1 DEF Failed
    <3> QED BY <2>1, <3>1, <3>2 DEF NothingLeft, Points
  <2> QED BY <2>2, <2>3
<1>4. ASSUME pc \notin {"down", "seeded"}, jobs'[j] = jobs[j], createdAt'[j] = createdAt[j] \/ j \notin UserOnce,
             UNCHANGED <<sweptAt, todo>>
      PROVE  \/ Failed(j, jobs[j].nextRunAt)'
             \/ j \in UserOnce /\ createdAt'[j] >= sweptAt'
             \/ \E n \in DOMAIN todo' : todo'[n][1] = j
  <2>1. \A due \in Nat : Failed(j, due) => Failed(j, due)'
    BY FailedRunsStay
  <2>2. Failed(j, jobs[j].nextRunAt) => Failed(j, jobs[j].nextRunAt)'
    BY <1>0, <1>4, <2>1 DEF Failed
  <2> QED BY <1>4, <2>2 DEF NothingLeft
<1>5. ASSUME NEW u \in UserInterval, CreateInterval(u)
      PROVE  jobs'[j] = jobs[j] /\ (createdAt'[j] = createdAt[j] \/ j \notin UserOnce)
  <2>1. u \notin UserOnce /\ Interval[u] \in Nat \ {0} /\ u \in Job
    BY JobsAssumption, TimesAssumption DEF Job, User
  <2>2. jobs'[u].nextRunAt > sweptAt'
    BY <1>0, <1>5, <2>1 DEF CreateInterval, Types
  <2>3. j # u
    BY <1>0, <2>1, <2>2, TypesStep DEF Types
  <2> QED BY <1>0, <1>5, <2>1, <2>3 DEF CreateInterval, Types, User
<1>6. ASSUME NEW u \in UserOnce, CreateOnce(u)
      PROVE  /\ j = u => createdAt'[j] >= sweptAt'
             /\ j # u => jobs'[j] = jobs[j] /\ (createdAt'[j] = createdAt[j] \/ j \notin UserOnce)
  BY <1>0, <1>6 DEF CreateOnce, Types, User
<1>7. ASSUME NEW u \in Job, Cancel(u)
      PROVE  jobs'[j] = jobs[j]
  BY <1>0, <1>7 DEF Cancel, Types
<1>8. pc \notin {"down", "seeded"} \/ FirstSweep
  BY DEF Next, vars, Start, NextSweep, InsertRun, AppendEvent, FinishRun, UpdateNextRun, Throw,
       CreateInterval, CreateOnce, Cancel, Down, Tick, Points
<1> QED
  <2>1. CASE Next /\ (\E u \in UserInterval : CreateInterval(u))
    BY <1>4, <1>5, <2>1 DEF CreateInterval
  <2>2. CASE Next /\ (\E u \in UserOnce : CreateOnce(u))
    BY <1>4, <1>6, <2>2 DEF CreateOnce
  <2>3. CASE Next /\ (\E u \in Job : Cancel(u))
    BY <1>4, <1>7, <2>3 DEF Cancel
  <2>4. CASE InsertRun \/ AppendEvent \/ FinishRun \/ Tick \/ UNCHANGED vars
    BY <1>1, <1>4, <1>8, <2>4 DEF InsertRun, AppendEvent, FinishRun, Tick, vars
  <2>5. ~Start /\ ~Down
    BY DEF Start, Down
  <2> QED BY <1>1, <1>2, <1>3, <2>1, <2>2, <2>3, <2>4, <2>5 DEF Next

-----------------------------------------------------------------------------
(* The daily jobs *)

(* No handoff time lies between a time and what nextDailyRunAfter makes of it. *)
LEMMA NoHandoffBefore ==
  ASSUME NEW t \in Nat, NEW u \in Nat, u % Day = HandoffTime, t < u
  PROVE  NextDailyRun(t) <= u
<1> DEFINE next == NextDailyRun(t)
<1>1. next \in Nat /\ t < next /\ next <= t + Day /\ (next % Day) = HandoffTime
  BY NextDailyRunIsNext
<1>2. Day \in Nat \ {0}
  BY TimesAssumption
<1> HIDE DEF next
<1>3. u < next => u + Day <= next
  BY <1>1, <1>2, Apart
<1> QED BY <1>1, <1>2, <1>3 DEF next

(* While the scheduler sleeps, an enabled daily job none of whose runs failed is ahead. *)
LEMMA AheadWhileAsleep ==
  ASSUME SweepInv, NothingLeft, AllFit, NEW j \in SystemDaily, HandoffOf(j), ~FailedSinceStart(j),
         pc = "asleep", jobs[j].state = "enabled"
  PROVE  jobs[j].nextRunAt > sweptAt
<1>1. /\ todo = <<>> /\ j \in Job /\ j \notin UserOnce
      /\ jobs[j].nextRunAt \in Nat /\ sweptAt \in 0..MaxNow
  BY TimesAssumption, JobsAssumption DEF SweepInv, Types, Job, System, User
<1>2. ~\E n \in DOMAIN todo : todo[n][1] = j
  BY <1>1
<1> SUFFICES ASSUME jobs[j].nextRunAt <= sweptAt
             PROVE  FALSE
  BY <1>1
<1>3. Failed(j, jobs[j].nextRunAt)
  BY <1>1, <1>2 DEF NothingLeft
<1>4. jobs[j].nextRunAt > upSince
  BY DEF HandoffOf
<1> QED BY <1>3, <1>4 DEF Failed, FailedSinceStart

(* A sweep that is at most a day late moves a daily job on by a day, to the next handoff  *)
(* time after the one it has just run.                                                    *)
LEMMA MovesByADay ==
  ASSUME NEW due \in Nat, NEW t \in Nat, (due % Day) = HandoffTime, due <= t, t < due + Day
  PROVE  NextDailyRun(t) = due + Day
<1> DEFINE next == NextDailyRun(t)
<1>1. next \in Nat /\ t < next /\ next <= t + Day /\ (next % Day) = HandoffTime
  BY NextDailyRunIsNext
<1>2. Day \in Nat \ {0} /\ HandoffTime \in 0..(Day - 1)
  BY TimesAssumption
<1> HIDE DEF next
<1>3. due + Day <= next
  <2>1. due < next /\ (due % Day) = (next % Day)
    BY <1>1
  <2> QED BY <1>1, <1>2, <2>1, Apart
<1>4. ((due + Day) % Day) = HandoffTime
  <2> DEFINE q == due \div Day
  <2>1. q \in Nat /\ due = Day * q + HandoffTime
    BY <1>2, DivMod
  <2>2. q + 1 \in Nat
    BY <2>1
  <2> HIDE DEF q
  <2>3. ((Day * (q + 1) + HandoffTime) % Day) = HandoffTime
    BY <1>2, <2>2, ModOfSum
  <2>4. due + Day = Day * (q + 1) + HandoffTime
    BY <1>2, <2>1
  <2> QED BY <2>3, <2>4
<1>5. CASE due + Day < next
  <2>1. due + Day \in Nat
    BY <1>2
  <2>2. (due + Day) + Day <= next
    BY <1>1, <1>2, <1>4, <1>5, <2>1, Apart
  <2> QED BY <1>1, <1>2, <2>2
<1> QED BY <1>1, <1>2, <1>3, <1>5 DEF next

(* A failed run is remembered until the next start. *)
LEMMA FailuresStay ==
  ASSUME SweepInv, [Next]_vars, upSince' = upSince, NEW j, FailedSinceStart(j)
  PROVE  FailedSinceStart(j)'
<1>1. PICK due : Failed(j, due) /\ due > upSince
  BY DEF FailedSinceStart, Failed
<1>2. Failed(j, due)'
  BY <1>1, FailedRunsStay
<1> QED BY <1>1, <1>2 DEF FailedSinceStart, Failed

LEMMA HandoffStep ==
  ASSUME SweepInv, NothingLeft, AllFit, Poll <= Day, NEW j \in SystemDaily,
         FailedSinceStart(j) \/ HandoffOf(j), ~FailedSinceStart(j)', [Next]_vars
  PROVE  HandoffOf(j)'
<1>0. /\ Types /\ SelectionHolds /\ Clock /\ InHand
      /\ now \in Nat /\ sweptAt \in 0..now /\ jobs[j].nextRunAt \in Nat /\ upSince \in Nat
      /\ Poll \in Nat /\ Day \in Nat \ {0} /\ MaxNow \in Nat /\ j \in Job
      /\ j \notin UserOnce /\ j \notin UserInterval /\ j \notin SystemInterval
  BY TimesAssumption, JobsAssumption DEF SweepInv, Types, Job, System, User
<1>1. CASE Start
  <2>1. jobs'[j] = [state |-> "enabled", nextRunAt |-> NextDailyRun(now)]
    BY <1>0, <1>1 DEF Start, SeededJobs, User, System
  <2>2. pc' = "seeded" /\ now' = now /\ upSince' = now
    BY <1>1 DEF Start
  <2>3. /\ NextDailyRun(now) > now /\ NextDailyRun(now) \in Nat
        /\ (NextDailyRun(now) % Day) = HandoffTime
    BY <1>0, NextDailyRunIsNext
  <2>4. ASSUME NEW t \in 0..MaxNow, (t % Day) = HandoffTime, now < t
        PROVE  ~(t < NextDailyRun(now))
    <3>1. t \in Nat
      BY <1>0
    <3>2. NextDailyRun(now) <= t
      BY <1>0, <2>4, <3>1, NoHandoffBefore
    <3> QED BY <2>3, <3>1, <3>2
  <2>5. NoGap(j)'
    BY <2>1, <2>2, <2>4 DEF NoGap
  <2> QED BY <2>1, <2>2, <2>3, <2>5 DEF HandoffOf, Points
<1>2. CASE pc' = "down"
  BY <1>2 DEF HandoffOf
<1> SUFFICES ASSUME ~Start, pc' # "down"
             PROVE  HandoffOf(j)'
  BY <1>1, <1>2
<1>3. upSince' = upSince /\ pc # "down"
  BY DEF Next, vars, FirstSweep, NextSweep, InsertRun, AppendEvent, FinishRun, UpdateNextRun, Throw,
       CreateInterval, CreateOnce, Cancel, Down, Tick, Points
<1>4. HandoffOf(j) /\ ~FailedSinceStart(j)
  BY <1>3, FailuresStay
<1>5. \A t \in 0..MaxNow : Fired(j, t) => Fired(j, t)'
  BY EventsStay
<1>6. ASSUME sweptAt' = sweptAt, jobs'[j].nextRunAt = jobs[j].nextRunAt,
             jobs'[j].state = "enabled" => jobs[j].state = "enabled",
             pc' = "seeded" => pc = "seeded" /\ now' = now,
             pc' \in {"sweep"} \cup Points => pc \in {"sweep"} \cup Points
      PROVE  HandoffOf(j)'
  <2> SUFFICES ASSUME jobs'[j].state = "enabled"
               PROVE  HandoffOf(j)'
    BY DEF HandoffOf
  <2>1. NoGap(j)
    BY <1>3, <1>4, <1>6 DEF HandoffOf
  <2>2. NoGap(j)'
    BY <1>3, <1>5, <1>6, <2>1 DEF NoGap
  <2> QED BY <1>3, <1>4, <1>6, <2>2 DEF HandoffOf
<1>7. CASE FirstSweep \/ NextSweep
  <2> SUFFICES ASSUME jobs[j].state = "enabled"
               PROVE  HandoffOf(j)'
    BY <1>7 DEF HandoffOf, FirstSweep, NextSweep
  <2>1. Select /\ UNCHANGED <<jobs, events>>
    BY <1>7 DEF FirstSweep, NextSweep
  <2>2. sweptAt' = now /\ pc' \in {"asleep", "sweep"}
    BY <1>0, <2>1, SelectEffect
  <2>3. jobs[j].nextRunAt + Day > now
    <3>1. CASE FirstSweep
      BY <1>0, <1>3, <1>4, <3>1 DEF FirstSweep, HandoffOf
    <3>2. CASE NextSweep
      <4>1. jobs[j].nextRunAt > sweptAt
        BY <1>4, <3>2, AheadWhileAsleep DEF NextSweep
      <4>2. now <= sweptAt + Poll
        BY <1>0, <3>2 DEF NextSweep, Clock
      <4> QED BY <1>0, <4>1, <4>2
    <3> QED BY <1>7, <3>1, <3>2
  <2>4. NoGap(j)
    BY <1>3, <1>4 DEF HandoffOf
  <2>5. NoGap(j)'
    BY <1>3, <1>5, <2>1, <2>4 DEF NoGap
  <2> QED BY <1>3, <1>4, <2>1, <2>2, <2>3, <2>5 DEF HandoffOf, Points
<1>8. CASE UpdateNextRun
  <2>1. /\ todo # <<>> /\ pc = "finished" /\ pc' \in {"asleep", "sweep"}
        /\ UNCHANGED <<events, sweptAt>>
    BY <1>0, <1>8 DEF UpdateNextRun, NextRow, Types, Points
  <2>2. CASE j # CurrentJob
    <3>1. jobs'[j] = jobs[j]
      BY <1>0, <1>8, <2>2, UpdateEffect
    <3> QED BY <1>6, <2>1, <3>1 DEF Points
  <2>3. CASE j = CurrentJob
    <3> DEFINE due == CurrentDue
    <3>1. /\ jobs[j].state = "enabled" /\ jobs[j].nextRunAt = due /\ due \in 0..MaxNow
          /\ due <= sweptAt
      BY <2>1, <2>3, TheCurrentRow
    <3>2. /\ sweptAt < due + Day /\ (due % Day) = HandoffTime /\ due \in Nat /\ sweptAt \in Nat
          /\ upSince < due /\ NoGap(j)
      BY <1>0, <1>3, <1>4, <2>1, <3>1 DEF HandoffOf, Points
    <3>3. /\ jobs'[j].state = "enabled" /\ jobs'[j].nextRunAt = NextDailyRun(sweptAt)
          /\ jobs'[j].nextRunAt > sweptAt
      BY <1>0, <1>8, <2>3, UpdateEffect DEF NextRun
    <3>4. jobs'[j].nextRunAt = due + Day
      BY <3>1, <3>2, <3>3, MovesByADay
    <3>5. Fired(j, due)
      BY <1>0, <2>1, <2>3 DEF InHand, Points
    <3> HIDE DEF due
    <3>6. ASSUME NEW t \in 0..MaxNow, (t % Day) = HandoffTime, upSince < t, t < due + Day
          PROVE  Fired(j, t)
      <4>0. t \in Nat
        BY <1>0
      <4>1. CASE t < due
        BY <3>1, <3>2, <3>6, <4>1 DEF NoGap
      <4>2. CASE t = due
        BY <3>5, <4>2
      <4>3. CASE due < t
        <5>1. due + Day <= t
          BY <1>0, <3>2, <3>6, <4>0, <4>3, Apart
        <5> QED BY <1>0, <3>2, <3>6, <4>0, <5>1
      <4> QED BY <3>2, <4>0, <4>1, <4>2, <4>3
    <3>7. NoGap(j)'
      BY <1>3, <1>5, <3>4, <3>6 DEF NoGap
    <3>8. (jobs'[j].nextRunAt % Day) = HandoffTime
      BY <3>2, <3>3, NextDailyRunIsNext
    <3>9. jobs'[j].nextRunAt + Day > sweptAt' /\ jobs'[j].nextRunAt > upSince'
      BY <1>0, <1>3, <2>1, <3>2, <3>3, <3>4
    <3> QED BY <2>1, <3>7, <3>8, <3>9 DEF HandoffOf, Points
  <2> QED BY <2>2, <2>3
<1>9. CASE InsertRun \/ AppendEvent \/ FinishRun \/ Throw
  BY <1>6, <1>9 DEF InsertRun, AppendEvent, FinishRun, Throw, NextRow, Points
<1>10. ASSUME NEW u \in UserInterval \cup UserOnce, CreateInterval(u) \/ CreateOnce(u)
      PROVE  HandoffOf(j)'
  <2>1. jobs'[j] = jobs[j]
    BY <1>0, <1>10 DEF CreateInterval, CreateOnce, Types
  <2> QED BY <1>6, <1>10, <2>1 DEF CreateInterval, CreateOnce
<1>11. ASSUME NEW u \in Job, Cancel(u)
      PROVE  HandoffOf(j)'
  <2>1. jobs'[j].nextRunAt = jobs[j].nextRunAt /\ jobs'[j].state \in {jobs[j].state, "disabled"}
    BY <1>0, <1>11 DEF Cancel, Types
  <2> QED BY <1>6, <1>11, <2>1 DEF Cancel
<1>12. CASE Tick \/ UNCHANGED vars
  BY <1>3, <1>6, <1>12 DEF Tick, vars
<1> QED
  BY <1>7, <1>8, <1>9, <1>10, <1>11, <1>12 DEF Next, Down

LEMMA HandoffsStep ==
  ASSUME SweepInv, NothingLeft, Handoffs, [Next]_vars
  PROVE  Handoffs'
<1> SUFFICES ASSUME AllFit, Poll <= Day, NEW j \in SystemDaily, ~FailedSinceStart(j)'
             PROVE  HandoffOf(j)'
  BY DEF Handoffs, AllFit
<1> QED BY HandoffStep DEF Handoffs

-----------------------------------------------------------------------------
(* The theorems *)

LEMMA SchedInvInit == Init => SchedInv
<1> SUFFICES ASSUME Init PROVE SchedInv
  OBVIOUS
<1>1. MaxNow \in Nat /\ MaxThrows \in Nat /\ MaxRestarts \in Nat /\ Day \in Nat \ {0}
  BY TimesAssumption
<1>2. Types
  <2>1. runs \in Seq(Row) /\ todo \in Seq(Selected) /\ events \in Seq(EventRow)
    BY DEF Init
  <2>2. jobs \in [Job -> [state : JobState, nextRunAt : Nat]]
    BY DEF Init, JobState
  <2> QED BY <1>1, <2>1, <2>2 DEF Init, Types, Selected
<1>3. Clock /\ SelectionHolds /\ Behind /\ EventsMoveOn /\ InHand /\ RunsTellTheTruth
  BY DEF Init, Clock, SelectionHolds, Behind, EventsMoveOn, InHand, RunsTellTheTruth, Points
<1>4. Grid /\ NothingLeft
  BY DEF Init, Grid, NothingLeft, Job, User
<1>5. Handoffs
  BY DEF Init, Handoffs, HandoffOf
<1> QED BY <1>2, <1>3, <1>4, <1>5 DEF SchedInv, SweepInv

LEMMA SchedInvStep == SchedInv /\ [Next]_vars => SchedInv'
BY SweepInvStep, TruthStep, GridStep, NothingLeftStep, HandoffsStep DEF SchedInv

LEMMA SchedInvHolds == Spec => []SchedInv
BY SchedInvInit, SchedInvStep, PTL DEF Spec

(* Every state of the scheduler has its type, for any jobs, times and bounds; a sweep is  *)
(* in progress exactly while it has rows left.                                            *)
THEOREM SchedulerTypes == Spec => []TypeOK
<1>1. SchedInv => TypeOK
  <2> SUFFICES ASSUME Types PROVE TypeOK
    BY DEF SchedInv, SweepInv
  <2>1. MaxNow \in Nat /\ Selected \subseteq Key /\ Row \subseteq [job : Job, due : Nat, status : {"running", "success", "failed"}]
    BY TimesAssumption DEF Selected, Key, Row
  <2>2. EventRow \subseteq [job : Job, due : Nat, key : Key]
    BY <2>1 DEF EventRow
  <2>3. /\ todo \in Seq(Key)
        /\ events \in Seq([job : Job, due : Nat, key : Key])
        /\ runs \in Seq([job : Job, due : Nat, status : {"running", "success", "failed"}])
    BY <2>1, <2>2, SeqMonotonic DEF Types
  <2> QED BY <2>3 DEF Types, TypeOK
<1> QED BY <1>1, SchedInvHolds, PTL

(* The due times of a job's events only go up, so that none comes twice, whatever throws, *)
(* whenever the daemon crashes between the insert of the event and the update of the job, *)
(* and whatever a start makes of the due times of the system jobs.                        *)
THEOREM EventsNeverGoBack == Spec => []EventsMoveOn
<1>1. SchedInv => EventsMoveOn
  BY DEF SchedInv, SweepInv
<1> QED BY <1>1, SchedInvHolds, PTL

(* A run that scheduled_job_runs calls a success has its event in the log, and one that   *)
(* it calls running is in hand, or is left from before a restart.                         *)
THEOREM RunRowsAreTrue == Spec => []RunsTellTheTruth
<1>1. SchedInv => RunsTellTheTruth
  BY DEF SchedInv
<1> QED BY <1>1, SchedInvHolds, PTL

(* An interval job stays on the grid of its creation, for any interval and any lateness.  *)
THEOREM IntervalJobsDoNotDrift == Spec => []NoDrift
<1>1. SchedInv => NoDrift
  BY DEF SchedInv, Grid, NoDrift
<1> QED BY <1>1, SchedInvHolds, PTL

(* A sweep that LIMIT does not cut short runs every job that was due, or leaves a failed  *)
(* run behind.                                                                            *)
THEOREM SweepsAreComplete == Spec => []SweepLeavesNothingDue
<1>1. SchedInv => SweepLeavesNothingDue
  <2> SUFFICES ASSUME SchedInv, AllFit, pc = "asleep", NEW j \in Job,
                      jobs[j].state = "enabled", jobs[j].nextRunAt <= sweptAt
               PROVE  \/ \E n \in DOMAIN runs :
                           runs[n] = [job |-> j, due |-> jobs[j].nextRunAt, status |-> "failed"]
                      \/ j \in UserOnce /\ createdAt[j] >= sweptAt
    BY DEF SweepLeavesNothingDue
  <2>1. todo = <<>> /\ runs \in Seq(Row)
    BY DEF SchedInv, SweepInv, Types
  <2>2. Failed(j, jobs[j].nextRunAt) \/ (j \in UserOnce /\ createdAt[j] >= sweptAt)
    BY <2>1 DEF SchedInv, NothingLeft
  <2>3. \A n \in DOMAIN runs : runs[n] \in Row
    BY <2>1
  <2>4. \A n \in DOMAIN runs :
          runs[n] = [job |-> runs[n].job, due |-> runs[n].due, status |-> runs[n].status]
    BY <2>3 DEF Row
  <2> QED BY <2>2, <2>4 DEF Failed
<1> QED BY <1>1, SchedInvHolds, PTL

(* With sweeps at most a day apart that take every due job, each handoff time since the   *)
(* last start has its event once it is swept past, unless a run of the job failed,        *)
(* whatever the time of day and the length of a day.                                      *)
THEOREM HandoffsAreNotSkipped == Spec => []HandoffMissedOnlyWhenDown
<1>1. SchedInv => HandoffMissedOnlyWhenDown
  <2> SUFFICES ASSUME SchedInv, AllFit, Poll <= Day, NEW j \in SystemDaily, NEW t \in 0..MaxNow,
                      pc = "asleep", jobs[j].state = "enabled",
                      (t % Day) = HandoffTime, upSince < t, t <= sweptAt, ~FailedSinceStart(j)
               PROVE  Fired(j, t)
    BY DEF HandoffMissedOnlyWhenDown
  <2>1. HandoffOf(j)
    BY DEF SchedInv, Handoffs
  <2>2. jobs[j].nextRunAt > sweptAt
    BY <2>1, AheadWhileAsleep DEF SchedInv
  <2>3. sweptAt \in Nat /\ t \in Nat /\ jobs[j].nextRunAt \in Nat
    BY TimesAssumption DEF SchedInv, SweepInv, Types, Job, System
  <2>4. t < jobs[j].nextRunAt
    BY <2>2, <2>3
  <2>5. NoGap(j)
    BY <2>1 DEF HandoffOf
  <2> QED BY <2>4, <2>5 DEF NoGap
<1> QED BY <1>1, SchedInvHolds, PTL

(* A user's job that is disabled stays so and gives no event again: no sweep that selected *)
(* it before is left, and no start enables it.                                            *)
THEOREM DisabledJobsStayDisabled == Spec => DisabledIsFinal
<1> DEFINE Step == \A j \in User :
                     jobs[j].state = "disabled" =>
                       /\ jobs'[j].state = "disabled"
                       /\ \A n \in DOMAIN events' : n \in DOMAIN events \/ events'[n].job # j
<1>1. SchedInv /\ [Next]_vars => [Step]_vars
  <2> SUFFICES ASSUME SchedInv, [Next]_vars, NEW j \in User, jobs[j].state = "disabled"
               PROVE  /\ jobs'[j].state = "disabled"
                      /\ \A n \in DOMAIN events' : n \in DOMAIN events \/ events'[n].job # j
    OBVIOUS
  <2>0. SweepInv /\ Types /\ j \in Job /\ j \notin System
    BY JobsAssumption DEF SchedInv, SweepInv, Job
  <2>1. CASE Start
    BY <2>0, <2>1 DEF Start, SeededJobs, System
  <2>2. CASE AppendEvent
    <3>1. todo # <<>> /\ jobs' = jobs
      BY <2>0, <2>2 DEF AppendEvent, Types, Points
    <3>2. CurrentJob # j
      BY <2>0, <3>1, TheCurrentRow
    <3> QED BY <2>0, <2>2, <3>1, <3>2, AppendEventEffect
  <2>3. CASE UpdateNextRun
    <3>1. todo # <<>> /\ events' = events
      BY <2>0, <2>3 DEF UpdateNextRun, Types, Points
    <3>2. CurrentJob # j
      BY <2>0, <3>1, TheCurrentRow
    <3> QED BY <2>0, <2>3, <3>1, <3>2, UpdateEffect
  <2>4. ASSUME NEW u \in Job, CreateInterval(u) \/ CreateOnce(u) \/ Cancel(u)
        PROVE  jobs'[j].state = "disabled" /\ events' = events
    BY <2>0, <2>4 DEF CreateInterval, CreateOnce, Cancel, Types
  <2> QED
    BY <2>1, <2>2, <2>3, <2>4 DEF Next, vars, FirstSweep, NextSweep, InsertRun, FinishRun, Throw, Down,
         Tick, Job, User
<1> QED BY <1>1, SchedInvHolds, PTL DEF Spec, DisabledIsFinal
=============================================================================
