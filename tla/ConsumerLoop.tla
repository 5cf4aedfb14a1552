---------------------------- MODULE ConsumerLoop ----------------------------
(***************************************************************************)
(* The loops of one daemon seen from their waiting side: runConsumerLoop,  *)
(* the notifier whose wake-ups can be missed, the fallback scan, the abort *)
(* signal that stops the loops, and the restart after a stop or a crash.   *)
(*                                                                         *)
(* There is no clock: a retry becomes due, a lease lapses and a timer      *)
(* fires at some time, and fairness says that the time comes.  The order   *)
(* of rows within a claim is that of EventHub and is left open here.       *)
(* JavaScript runs a callback to its end, so everything between two awaits *)
(* is one step.                                                            *)
(***************************************************************************)
EXTENDS Naturals, FiniteSets

CONSTANTS
  Message,
  Group,
  Route,         \* Route[m]: the groups that m is delivered to
  BatchSize,     \* BatchSize[g]: rows per claim
  MaxAttempts,
  MaxRestarts    \* bound: how often the daemon is stopped or crashes

ASSUME RouteAssumption == Route \in [Message -> SUBSET Group]

ASSUME LimitsAssumption ==
  /\ BatchSize \in [Group -> Nat \ {0}]
  /\ MaxAttempts \in Nat \ {0}
  /\ MaxRestarts \in Nat

VARIABLES
  row,        \* row[d]: the state of a delivery in event_deliveries
  attempts,   \* attempts[d]
  loop,       \* loop[g]: where the loop of group g is
  held,       \* held[g]: the claimed rows that the loop has not settled
  waiters,    \* groups whose loop is registered with the notifier
  timers,     \* groups whose fallback timer is running
  listeners,  \* groups whose waiter listens to the abort signal
  aborted,    \* the abort signal
  restarts    \* stops and crashes so far

vars == <<row, attempts, loop, held, waiters, timers, listeners, aborted, restarts>>

Delivery == {d \in Message \X Group : d[2] \in Route[d[1]]}

(* "cooling" is pending with available_at ahead, "due" pending and available;       *)
(* "lapsed" is running with lease_until behind.                                     *)
RowState == {"none", "cooling", "due", "running", "lapsed", "acked", "dead_letter"}

LoopState == {"claim", "empty", "waiting", "handle", "stopped", "down"}

Init ==
  /\ row = [d \in Delivery |-> "none"]
  /\ attempts = [d \in Delivery |-> 0]
  /\ loop = [g \in Group |-> "claim"]
  /\ held = [g \in Group |-> {}]
  /\ waiters = {}
  /\ timers = {}
  /\ listeners = {}
  /\ aborted = FALSE
  /\ restarts = 0

Alive == \E g \in Group : loop[g] \notin {"stopped", "down"}

-----------------------------------------------------------------------------
(* The notifier: notifier.ts *)

(* Mutant: removeWaiter forgets removeEventListener. *)
Resolve_ListenerLeft(G) ==
  LET woken == waiters \cap G IN
    /\ waiters' = waiters \ woken
    /\ timers' = timers \ woken
    /\ loop' = [g \in Group |-> IF g \in woken THEN "claim" ELSE loop[g]]
    /\ UNCHANGED listeners

(* waiter.resolve for the waiters of G: each leaves the map, its timer is cleared, its  *)
(* listener removed, and its loop goes on.                                              *)
Resolve(G) ==
  LET woken == waiters \cap G IN
    /\ waiters' = waiters \ woken
    /\ timers' = timers \ woken
    /\ listeners' = listeners \ woken
    /\ loop' = [g \in Group |-> IF g \in woken THEN "claim" ELSE loop[g]]

(* A message is committed with one due or delayed row per group. *)
Insert(m) ==
  \E s \in {"due", "cooling"} :
    row' = [d \in Delivery |-> IF d[1] = m THEN s ELSE row[d]]

IsNew(m) == \A d \in Delivery : d[1] = m => row[d] = "none"

(* appendHubMessage inside the daemon: commit, then wake the routed groups. *)
AppendAndWake(m) ==
  /\ Alive
  /\ IsNew(m)
  /\ Insert(m)
  /\ Resolve(Route[m])
  /\ UNCHANGED <<attempts, held, aborted, restarts>>

(* appendHubMessage in another process (cli send): no loop is woken. *)
AppendElsewhere(m) ==
  /\ IsNew(m)
  /\ Insert(m)
  /\ UNCHANGED <<attempts, loop, held, waiters, timers, listeners, aborted, restarts>>

(* Mutant: wait() registers the waiter without a fallback timer. *)
Wait_NoTimer(g) ==
  /\ loop[g] = "empty"
  /\ ~aborted
  /\ waiters' = waiters \cup {g}
  /\ listeners' = listeners \cup {g}
  /\ loop' = [loop EXCEPT ![g] = "waiting"]
  /\ UNCHANGED <<row, attempts, held, timers, aborted, restarts>>

(* notifier.wait: the waiter, its timer and its listener are registered together. *)
Wait(g) ==
  /\ loop[g] = "empty"
  /\ ~aborted
  /\ waiters' = waiters \cup {g}
  /\ timers' = timers \cup {g}
  /\ listeners' = listeners \cup {g}
  /\ loop' = [loop EXCEPT ![g] = "waiting"]
  /\ UNCHANGED <<row, attempts, held, aborted, restarts>>

(* notifier.wait on a signal that has fired: resolved at once. *)
WaitAborted(g) ==
  /\ loop[g] = "empty"
  /\ aborted
  /\ loop' = [loop EXCEPT ![g] = "claim"]
  /\ UNCHANGED <<row, attempts, held, waiters, timers, listeners, aborted, restarts>>

(* setTimeout fires: the fallback scan. *)
Timeout(g) ==
  /\ g \in timers
  /\ Resolve({g})
  /\ UNCHANGED <<row, attempts, held, aborted, restarts>>

(* SIGINT or SIGTERM, or a component that failed: every listener hears it. *)
Abort ==
  /\ Alive
  /\ ~aborted
  /\ restarts < MaxRestarts
  /\ aborted' = TRUE
  /\ restarts' = restarts + 1
  /\ Resolve(listeners)
  /\ UNCHANGED <<row, attempts, held>>

-----------------------------------------------------------------------------
(* The loop: runConsumerLoop and runConsumerOnce, consumer-runner.ts *)

(* Mutant: the query forgets group_id. *)
Claimable_AnyGroup(g) == {d \in Delivery : row[d] \in {"due", "lapsed"}}

Claimable(g) == {d \in Delivery : d[2] = g /\ row[d] \in {"due", "lapsed"}}

Claim(g) ==
  /\ loop[g] = "claim"
  /\ ~aborted
  /\ \E B \in SUBSET Claimable(g) :
       /\ B # {}
       /\ Cardinality(B) <= BatchSize[g]
       /\ Cardinality(B) < BatchSize[g] => B = Claimable(g)
       /\ held' = [held EXCEPT ![g] = B]
       /\ row' = [d \in Delivery |-> IF d \in B THEN "running" ELSE row[d]]
       /\ attempts' = [d \in Delivery |-> IF d \in B THEN attempts[d] + 1 ELSE attempts[d]]
  /\ loop' = [loop EXCEPT ![g] = "handle"]
  /\ UNCHANGED <<waiters, timers, listeners, aborted, restarts>>

(* Nothing was claimable; by the time the loop waits, something may be. *)
ClaimNothing(g) ==
  /\ loop[g] = "claim"
  /\ ~aborted
  /\ Claimable(g) = {}
  /\ loop' = [loop EXCEPT ![g] = "empty"]
  /\ UNCHANGED <<row, attempts, held, waiters, timers, listeners, aborted, restarts>>

(* The handler and the ack succeeded, or one of them threw. *)
SettleAs(g, d, s) ==
  /\ loop[g] = "handle"
  /\ d \in held[g]
  /\ row' = [row EXCEPT ![d] = s]
  /\ held' = [held EXCEPT ![g] = @ \ {d}]
  /\ loop' = [loop EXCEPT ![g] = IF held[g] = {d} THEN "claim" ELSE "handle"]
  /\ UNCHANGED <<attempts, waiters, timers, listeners, aborted, restarts>>

Ack(g, d) == SettleAs(g, d, "acked")

FailToRetry(g, d) == attempts[d] < MaxAttempts /\ SettleAs(g, d, "cooling")

FailToDeadLetter(g, d) == attempts[d] >= MaxAttempts /\ SettleAs(g, d, "dead_letter")

Settle(g) == \E d \in Delivery : Ack(g, d) \/ FailToRetry(g, d) \/ FailToDeadLetter(g, d)

(* while (!signal?.aborted): tested between batches only. *)
Stop(g) ==
  /\ loop[g] = "claim"
  /\ aborted
  /\ loop' = [loop EXCEPT ![g] = "stopped"]
  /\ UNCHANGED <<row, attempts, held, waiters, timers, listeners, aborted, restarts>>

-----------------------------------------------------------------------------
(* Time, and the life of the process *)

(* available_at of a retried or scheduled row is reached. *)
BecomeDue(d) ==
  /\ row[d] = "cooling"
  /\ row' = [row EXCEPT ![d] = "due"]
  /\ UNCHANGED <<attempts, loop, held, waiters, timers, listeners, aborted, restarts>>

(* lease_until of a claimed row is reached, under a live loop or a dead one. *)
Lapse(d) ==
  /\ row[d] = "running"
  /\ row' = [row EXCEPT ![d] = "lapsed"]
  /\ UNCHANGED <<attempts, loop, held, waiters, timers, listeners, aborted, restarts>>

(* The process dies with everything it has in memory. *)
Crash ==
  /\ Alive
  /\ restarts < MaxRestarts
  /\ restarts' = restarts + 1
  /\ loop' = [g \in Group |-> "down"]
  /\ held' = [g \in Group |-> {}]
  /\ waiters' = {}
  /\ timers' = {}
  /\ listeners' = {}
  /\ aborted' = FALSE
  /\ UNCHANGED <<row, attempts>>

(* The daemon is started again after a crash or after all its loops have stopped. *)
Start ==
  /\ ~Alive
  /\ loop' = [g \in Group |-> "claim"]
  /\ aborted' = FALSE
  /\ UNCHANGED <<row, attempts, held, waiters, timers, listeners, restarts>>

LoopStep(g) ==
  Claim(g) \/ ClaimNothing(g) \/ Wait(g) \/ WaitAborted(g) \/ Settle(g) \/ Stop(g)

Next ==
  \/ \E m \in Message : AppendAndWake(m) \/ AppendElsewhere(m)
  \/ \E g \in Group : LoopStep(g) \/ Timeout(g)
  \/ \E d \in Delivery : BecomeDue(d) \/ Lapse(d)
  \/ Abort
  \/ Crash
  \/ Start

(* A runnable loop runs, handlers settle, timers fire and time passes; the daemon is     *)
(* started again.  Nobody has to append, to stop the daemon or to be lucky.              *)
Fairness ==
  /\ \A g \in Group : WF_vars(LoopStep(g)) /\ WF_vars(Timeout(g))
  /\ \A d \in Delivery : WF_vars(BecomeDue(d)) /\ WF_vars(Lapse(d))
  /\ WF_vars(Start)

Spec == Init /\ [][Next]_vars /\ Fairness

-----------------------------------------------------------------------------
(* Properties *)

TypeOK ==
  /\ row \in [Delivery -> RowState]
  /\ attempts \in [Delivery -> Nat]
  /\ loop \in [Group -> LoopState]
  /\ \A g \in Group : held[g] \subseteq {d \in Delivery : d[2] = g}
  /\ waiters \subseteq Group
  /\ timers \subseteq Group
  /\ listeners \subseteq Group
  /\ aborted \in BOOLEAN
  /\ restarts \in 0..MaxRestarts

(* A loop is registered, with its running timer and its listener on the abort signal,    *)
(* just while it sleeps: a loop that runs has left nothing behind, neither in the        *)
(* notifier nor on the signal, and one that sleeps is woken by the timer and by a stop.  *)
NotifierMatchesLoops ==
  \A g \in Group :
    /\ g \in waiters <=> loop[g] = "waiting"
    /\ g \in timers <=> loop[g] = "waiting"
    /\ g \in listeners <=> loop[g] = "waiting"

(* Every delivery is acked or dead-lettered in the end, although the wake-up of its      *)
(* append may be missed or never sent, its lease may lapse, its handler may fail and the *)
(* daemon may stop or crash.                                                             *)
EverythingSettles ==
  \A d \in Delivery : row[d] # "none" ~> row[d] \in {"acked", "dead_letter"}
=============================================================================
