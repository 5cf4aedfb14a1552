------------------------------ MODULE EventHub ------------------------------
(***************************************************************************)
(* The event hub (src/src/kernel/event-hub): messages are appended to      *)
(* event_log and routed into event_deliveries, and in every daemon one     *)
(* loop per consumer group claims a batch of rows under a lease, handles   *)
(* the batch one row after the other, and acks or fails each row.          *)
(*                                                                         *)
(* An SQLite transaction is one step.  What a consumer claimed is in the   *)
(* memory of its process (batch); a crash loses it and leaves the rows as  *)
(* they are.  The clock counts in ticks up to MaxNow.  An empty claim      *)
(* changes nothing here: waiting and waking are in ConsumerLoop.           *)
(* locked_by, the same text in every daemon and read by no query, and      *)
(* last_error are left out; updated_at is kept where a query reads it, on  *)
(* acked rows (ackedAt).                                                   *)
(***************************************************************************)
EXTENDS Naturals, Sequences

CONSTANTS
  Message,      \* the messages that callers may hand to appendHubMessage
  Group,        \* consumer groups
  Daemon,       \* processes that run the consumer loops over the same file
  Route,        \* Route[m]: the groups that the router names for m
  Priority,     \* Priority[m]: smaller is more urgent
  DedupeKey,    \* DedupeKey[m], or NoKey
  NoKey,
  NoMessage,
  Delay,        \* Delay[m]: scheduledAt - createdAt in ticks, 0 without scheduledAt
  BatchSize,    \* BatchSize[g]: rows per claim
  Lease,        \* leaseMs in ticks
  RetryDelay,   \* retryDelayMs in ticks
  MaxAttempts,  \* eventHub.maxAttempts
  Retention,    \* ackedDeliveryRetentionMs in ticks
  MaxNow        \* bound of the clock

ASSUME SetsAssumption == NoMessage \notin Message

ASSUME RouteAssumption == Route \in [Message -> SUBSET Group]

ASSUME MessageAssumption ==
  /\ Priority \in [Message -> Nat]
  /\ Delay \in [Message -> Nat]

ASSUME LimitsAssumption ==
  /\ BatchSize \in [Group -> Nat \ {0}]
  /\ Lease \in Nat \ {0}
  /\ RetryDelay \in Nat
  /\ MaxAttempts \in Nat \ {0}
  /\ Retention \in Nat
  /\ MaxNow \in Nat

VARIABLES
  now,          \* the clock
  log,          \* event_log: the messages inserted
  returned,     \* returned[m]: the message that appendHubMessage(m) gave back
  deliveries,   \* event_deliveries, by <<message, group>>
  deadLetters,  \* deadLetters[d]: the rows of dead_letters for delivery d
  pc,           \* pc[c]: where the loop of consumer c is
  batch,        \* batch[c]: the claimed rows c has not settled, the current one first
  performed     \* ghost: the deliveries whose handler ran to its end, at least once

tables == <<log, returned, deliveries, deadLetters>>
loops == <<pc, batch>>
vars == <<now, log, returned, deliveries, deadLetters, pc, batch, performed>>

(* UNIQUE(message_id, group_id): the pair identifies the row. *)
Delivery == {d \in Message \X Group : d[2] \in Route[d[1]]}

Consumer == Daemon \X Group

Status == {"none", "pending", "running", "acked", "dead_letter"}

NoLease == 0   \* NULL in lease_until; a lease never ends at tick 0

Row == [status : Status, attempts : Nat, availableAt : Nat, leaseUntil : Nat,
        createdAt : Nat, ackedAt : Nat]

NoRow == [status |-> "none", attempts |-> 0, availableAt |-> 0, leaseUntil |-> NoLease,
          createdAt |-> 0, ackedAt |-> 0]

Init ==
  /\ now = 0
  /\ log = {}
  /\ returned = [m \in Message |-> NoMessage]
  /\ deliveries = [d \in Delivery |-> NoRow]
  /\ deadLetters = [d \in Delivery |-> 0]
  /\ pc = [c \in Consumer |-> "scan"]
  /\ batch = [c \in Consumer |-> <<>>]
  /\ performed = {}

-----------------------------------------------------------------------------
(* Appending: append.ts *)

SameKey(m) == {e \in log : DedupeKey[m] # NoKey /\ DedupeKey[e] = DedupeKey[m]}

PendingRow(m) ==
  [status |-> "pending", attempts |-> 0, availableAt |-> now + Delay[m],
   leaseUntil |-> NoLease, createdAt |-> now, ackedAt |-> 0]

(* Mutant: every group's row is a transaction of its own, and the process may end between. *)
AppendNew_GroupByGroup(m) ==
  /\ returned[m] = NoMessage
  /\ SameKey(m) = {}
  /\ log' = log \cup {m}
  /\ returned' = [returned EXCEPT ![m] = m]
  /\ \E G \in SUBSET Route[m] :
       deliveries' = [d \in Delivery |-> IF d[1] = m /\ d[2] \in G THEN PendingRow(m)
                                                                 ELSE deliveries[d]]
  /\ UNCHANGED <<now, deadLetters, loops, performed>>

(* One transaction: the log row and a pending delivery for every routed group. *)
AppendNew(m) ==
  /\ returned[m] = NoMessage
  /\ SameKey(m) = {}
  /\ log' = log \cup {m}
  /\ returned' = [returned EXCEPT ![m] = m]
  /\ deliveries' = [d \in Delivery |-> IF d[1] = m THEN PendingRow(m) ELSE deliveries[d]]
  /\ UNCHANGED <<now, deadLetters, loops, performed>>

(* The key is known: the existing message is returned, and nothing is written or woken. *)
AppendDuplicate(m) ==
  /\ returned[m] = NoMessage
  /\ \E e \in SameKey(m) : returned' = [returned EXCEPT ![m] = e]
  /\ UNCHANGED <<now, log, deliveries, deadLetters, loops, performed>>

-----------------------------------------------------------------------------
(* Claiming: claimReadyDeliveries, deliveries.ts *)

IsReady(d) ==
  LET r == deliveries[d] IN
    \/ r.status = "pending" /\ r.availableAt <= now
    \/ r.status = "running" /\ r.leaseUntil # NoLease /\ r.leaseUntil <= now

Ready(g) == {d \in Delivery : d[2] = g /\ IsReady(d)}

(* ORDER BY priority, available_at, created_at; rows equal in all three come in any order. *)
Before(d, e) ==
  LET r == deliveries[d]
      s == deliveries[e]
  IN  \/ Priority[d[1]] < Priority[e[1]]
      \/ /\ Priority[d[1]] = Priority[e[1]]
         /\ \/ r.availableAt < s.availableAt
            \/ r.availableAt = s.availableAt /\ r.createdAt < s.createdAt

(* LIMIT: up to BatchSize[g] ready rows in claim order; a shorter list is all of them,   *)
(* and no row left out comes before one that is listed.                                  *)
Selections(g) ==
  {s \in UNION {[1..k -> Ready(g)] : k \in 1..BatchSize[g]} :
     /\ \A i, j \in DOMAIN s : i < j => s[i] # s[j] /\ ~Before(s[j], s[i])
     /\ \A d \in Ready(g) :
          \/ \E i \in DOMAIN s : s[i] = d
          \/ Len(s) = BatchSize[g] /\ \A i \in DOMAIN s : ~Before(d, s[i])}

ClaimedRow(r) ==
  [r EXCEPT !.status = "running", !.attempts = @ + 1,
            !.leaseUntil = now + Lease]

Claim(c) ==
  /\ pc[c] = "scan"
  /\ Ready(c[2]) # {}
  /\ \E s \in Selections(c[2]) :
       /\ deliveries' = [d \in Delivery |-> IF \E i \in DOMAIN s : s[i] = d
                                              THEN ClaimedRow(deliveries[d])
                                              ELSE deliveries[d]]
       /\ batch' = [batch EXCEPT ![c] = s]
  /\ pc' = [pc EXCEPT ![c] = "handle"]
  /\ UNCHANGED <<now, log, returned, deadLetters, performed>>

-----------------------------------------------------------------------------
(* Handling and settling: runConsumerOnce, consumer-runner.ts *)

Current(c) == Head(batch[c])

(* The loop goes on to the next row of its batch, or back to a new claim. *)
NextInBatch(c) ==
  /\ batch' = [batch EXCEPT ![c] = Tail(@)]
  /\ pc' = [pc EXCEPT ![c] = IF Tail(batch[c]) = <<>> THEN "scan" ELSE "handle"]

(* Mutant: the promise of the handler is not awaited. *)
HandlerReturns_NotAwaited(c) ==
  /\ pc[c] = "handle"
  /\ pc' = [pc EXCEPT ![c] = "ack"]
  /\ UNCHANGED <<now, tables, batch, performed>>

(* await options.handler(delivery) resolves. *)
HandlerReturns(c) ==
  /\ pc[c] = "handle"
  /\ performed' = performed \cup {Current(c)}
  /\ pc' = [pc EXCEPT ![c] = "ack"]
  /\ UNCHANGED <<now, tables, batch>>

AckedRow(r) ==
  [r EXCEPT !.status = "acked", !.leaseUntil = NoLease, !.ackedAt = now]

(* ackDelivery: an UPDATE by id, of whatever the row says now; no row, no update. *)
Ack(c) ==
  LET d == Current(c) IN
    /\ pc[c] = "ack"
    /\ deliveries' = [deliveries EXCEPT ![d] = IF @.status = "none" THEN @ ELSE AckedRow(@)]
    /\ NextInBatch(c)
    /\ UNCHANGED <<now, log, returned, deadLetters, performed>>

Exhausted(r) == r.attempts >= MaxAttempts

DeadRow(r) ==
  [r EXCEPT !.status = "dead_letter", !.leaseUntil = NoLease]

(* Mutant: the status "failed" that types.ts declares and no query reads. *)
RetryRow_Failed(r) ==
  [r EXCEPT !.status = "failed", !.availableAt = now + RetryDelay,
            !.leaseUntil = NoLease]

RetryRow(r) ==
  [r EXCEPT !.status = "pending", !.availableAt = now + RetryDelay,
            !.leaseUntil = NoLease]

(* failDelivery, from the catch around handler and ack: the handler threw, or the ack did. *)
FailToRetry(c) ==
  LET d == Current(c) IN
    /\ pc[c] \in {"handle", "ack"}
    /\ deliveries[d].status # "none"
    /\ ~Exhausted(deliveries[d])
    /\ deliveries' = [deliveries EXCEPT ![d] = RetryRow(@)]
    /\ NextInBatch(c)
    /\ UNCHANGED <<now, log, returned, deadLetters, performed>>

(* Mutant: the status is set and the dead letter is not written. *)
FailToDeadLetter_NoRecord(c) ==
  LET d == Current(c) IN
    /\ pc[c] \in {"handle", "ack"}
    /\ deliveries[d].status # "none"
    /\ Exhausted(deliveries[d])
    /\ deliveries' = [deliveries EXCEPT ![d] = DeadRow(@)]
    /\ NextInBatch(c)
    /\ UNCHANGED <<now, log, returned, deadLetters, performed>>

FailToDeadLetter(c) ==
  LET d == Current(c) IN
    /\ pc[c] \in {"handle", "ack"}
    /\ deliveries[d].status # "none"
    /\ Exhausted(deliveries[d])
    /\ deliveries' = [deliveries EXCEPT ![d] = DeadRow(@)]
    /\ deadLetters' = [deadLetters EXCEPT ![d] = @ + 1]
    /\ NextInBatch(c)
    /\ UNCHANGED <<now, log, returned, performed>>

(* The row has been removed meanwhile: failDelivery returns at once. *)
FailMissing(c) ==
  /\ pc[c] \in {"handle", "ack"}
  /\ deliveries[Current(c)].status = "none"
  /\ NextInBatch(c)
  /\ UNCHANGED <<now, tables, performed>>

-----------------------------------------------------------------------------
(* The process ends between two steps and is started again: all its loops scan. *)
Crash(p) ==
  /\ \E c \in Consumer : c[1] = p /\ batch[c] # <<>>
  /\ batch' = [c \in Consumer |-> IF c[1] = p THEN <<>> ELSE batch[c]]
  /\ pc' = [c \in Consumer |-> IF c[1] = p THEN "scan" ELSE pc[c]]
  /\ UNCHANGED <<now, tables, performed>>

(* Mutant: the deletion looks at the age of a row and not at its status. *)
IsExpendable_ByAge(d) ==
  /\ deliveries[d].status # "none"
  /\ deliveries[d].ackedAt + Retention < now

IsExpendable(d) ==
  /\ deliveries[d].status = "acked"
  /\ deliveries[d].ackedAt + Retention < now

(* DELETE in the handler of event.cleanup.requested, sidecars/cleanup.ts; here at any time. *)
Cleanup ==
  /\ \E d \in Delivery : IsExpendable(d)
  /\ deliveries' = [d \in Delivery |-> IF IsExpendable(d) THEN NoRow ELSE deliveries[d]]
  /\ UNCHANGED <<now, log, returned, deadLetters, loops, performed>>

Tick ==
  /\ now < MaxNow
  /\ now' = now + 1
  /\ UNCHANGED <<tables, loops, performed>>

Next ==
  \/ \E m \in Message : AppendNew(m) \/ AppendDuplicate(m)
  \/ \E c \in Consumer :
       \/ Claim(c)
       \/ HandlerReturns(c)
       \/ Ack(c)
       \/ FailToRetry(c)
       \/ FailToDeadLetter(c)
       \/ FailMissing(c)
  \/ \E p \in Daemon : Crash(p)
  \/ Cleanup
  \/ Tick

Spec == Init /\ [][Next]_vars

-----------------------------------------------------------------------------
(* Properties *)

TypeOK ==
  /\ now \in Nat
  /\ log \in SUBSET Message
  /\ returned \in [Message -> Message \cup {NoMessage}]
  /\ deliveries \in [Delivery -> Row]
  /\ deadLetters \in [Delivery -> Nat]
  /\ pc \in [Consumer -> {"scan", "handle", "ack"}]
  /\ batch \in [Consumer -> Seq(Delivery)]
  /\ performed \in SUBSET Delivery

(* However claims, retries, crashes, stale leases and cleanups interleave, a logged     *)
(* message keeps in every routed group a row that is due, leased or dead-lettered until *)
(* the group's handler has run to its end: neither an ack nor the cleanup of old acked  *)
(* rows can drop work that nobody did.                                                  *)
NoDeliveryLost ==
  \A d \in Delivery :
    d[1] \in log => deliveries[d].status \in {"pending", "running", "dead_letter"}
                   \/ d \in performed

(* A row waits for a retry only while attempts are left, although a claim never looks   *)
(* at attempts and a crash or a lapsed lease lets them run past the limit.              *)
PendingHasAttemptsLeft ==
  \A d \in Delivery : deliveries[d].status = "pending" => deliveries[d].attempts < MaxAttempts

(* A row goes out of circulation as dead_letter only with a record that says so.        *)
DeadLettersRecorded ==
  \A d \in Delivery : deliveries[d].status = "dead_letter" => deadLetters[d] > 0

(* The next ones hold when one daemon runs, which architecture.md assumes and nothing in *)
(* the code enforces.                                                                    *)

(* What a loop still has in memory the table still calls running, for as long as the    *)
(* batch takes: leases that lapse under a long batch, cleanups and the other groups do  *)
(* not touch it.                                                                        *)
HeldRowsAreRunning ==
  \A c \in Consumer : \A i \in DOMAIN batch[c] : deliveries[batch[c][i]].status = "running"

(* dead_letters has one row for a dead-lettered delivery and none for any other.        *)
DeadLettersExact ==
  \A d \in Delivery :
    deadLetters[d] = IF deliveries[d].status = "dead_letter" THEN 1 ELSE 0

(* A settled row never comes back: an acked one only disappears, a dead-lettered one    *)
(* stays.                                                                               *)
SettledIsFinal ==
  [][\A d \in Delivery :
       /\ deliveries[d].status = "acked" => deliveries'[d].status \in {"acked", "none"}
       /\ deliveries[d].status = "dead_letter" => deliveries'[d] = deliveries[d]]_deliveries

OutcomeOf(d) ==
  CASE d[1] \notin log -> "none"
    [] d[1] \in log /\ deliveries[d].status \in {"pending", "running"} -> "open"
    [] d[1] \in log /\ deliveries[d].status = "dead_letter" -> "dead"
    [] d[1] \in log /\ deliveries[d].status \in {"acked", "none"} -> "done"

Promise == INSTANCE DeliveryPromise WITH
  Job <- Delivery,
  Bundles <- {{d \in Delivery : d[1] = m} : m \in Message},
  outcome <- [d \in Delivery |-> OutcomeOf(d)],
  performed <- performed

(* The hub implements the promise: no handler ends on a delivery that is already closed, *)
(* and a delivery is closed once.                                                        *)
ImplementsPromise == Promise!Spec
=============================================================================
