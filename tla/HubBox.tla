------------------------------- MODULE HubBox -------------------------------
(***************************************************************************)
(* The event hub as one daemon's components see it, for the modules that   *)
(* model what the components do with messages.  It is what EventHub and    *)
(* ConsumerLoop establish of the code: rows are claimed in the order of    *)
(* priority, available_at and creation, batch by batch; a row whose        *)
(* handler failed is retried until MaxAttempts claims are used up; what a  *)
(* dead process held is claimable again after its lease.                   *)
(*                                                                         *)
(* There is no clock: available_at is the length of the log when a row     *)
(* became due, so that a retried row comes after all that was logged by    *)
(* then, and a row of a dead process keeps its place.                      *)
(***************************************************************************)
EXTENDS Naturals, Sequences, FiniteSets, FiniteSetsExt

CONSTANTS
  Group,
  BatchSize,    \* BatchSize[g]: rows per claim
  MaxAttempts

ASSUME HubAssumption ==
  /\ BatchSize \in [Group -> Nat \ {0}]
  /\ MaxAttempts \in Nat \ {0}

VARIABLES
  log,     \* event_log: messages with at least a type and a priority, in order of insertion
  box,     \* box[g][i]: the delivery of message i to group g
  batch    \* batch[g]: the claimed messages that the loop of g has not settled

hub == <<log, box, batch>>

(* "cooling" is pending with available_at ahead; "orphaned" is running, held by a process *)
(* that is dead, with lease_until ahead; "due" is pending or running, and claimable.      *)
RowState == {"none", "due", "cooling", "running", "orphaned", "acked", "dead_letter"}

HubInit ==
  /\ log = <<>>
  /\ box = [g \in Group |-> <<>>]
  /\ batch = [g \in Group |-> <<>>]

(* appendHubMessage: the message and a row for each group that it is routed to. *)
LogFor(m, readers) ==
  /\ log' = Append(log, m)
  /\ box' = [g \in Group |->
               Append(box[g], [state |-> IF g \in readers THEN "due" ELSE "none",
                               at |-> Len(log) + 1, attempts |-> 0])]

Before(g, i, k) ==
  \/ log[i].priority < log[k].priority
  \/ /\ log[i].priority = log[k].priority
     /\ box[g][i].at < box[g][k].at \/ (box[g][i].at = box[g][k].at /\ i < k)

Due(g) == {i \in DOMAIN log : box[g][i].state = "due"}

(* The batches that a claim may take, which is one: each row is the first of those that   *)
(* are due and not before it in the batch, up to the size of a batch.                     *)
NextBatch(g) ==
  {B \in [1..Min({BatchSize[g], Cardinality(Due(g))}) -> Due(g)] :
     \A n \in DOMAIN B :
       LET left == Due(g) \ {B[m] : m \in 1..(n - 1)}
       IN  B[n] \in left /\ \A i \in left \ {B[n]} : Before(g, B[n], i)}

(* claimReadyDeliveries: each row that is claimed is one attempt older. *)
ClaimBatch(g) ==
  /\ batch[g] = <<>>
  /\ Due(g) # {}
  /\ \E B \in NextBatch(g) :
       /\ batch' = [batch EXCEPT ![g] = B]
       /\ box' = [box EXCEPT ![g] =
                    [i \in DOMAIN log |->
                       IF \E n \in DOMAIN B : B[n] = i
                         THEN [box[g][i] EXCEPT !.state = "running", !.attempts = @ + 1]
                         ELSE box[g][i]]]
  /\ UNCHANGED log

Settle(g, s) ==
  /\ box' = [box EXCEPT ![g][Head(batch[g])].state = s]
  /\ batch' = [batch EXCEPT ![g] = Tail(@)]
  /\ UNCHANGED log

(* Mutant: a handler that throws is acked. *)
Fail_Acked(g) == Settle(g, "acked")

(* failDelivery of the head of g's batch. *)
Fail(g) ==
  Settle(g, IF box[g][Head(batch[g])].attempts >= MaxAttempts THEN "dead_letter" ELSE "cooling")

(* available_at of a failed row is reached: it now comes after all that is in the log.    *)
DelayEnds(g, i) ==
  /\ box[g][i].state = "cooling"
  /\ box' = [box EXCEPT ![g][i].state = "due", ![g][i].at = Len(log) + 1]
  /\ UNCHANGED <<log, batch>>

(* The lease of a dead process is over: the row keeps its place. *)
LeaseEnds(g, i) ==
  /\ box[g][i].state = "orphaned"
  /\ box' = [box EXCEPT ![g][i].state = "due"]
  /\ UNCHANGED <<log, batch>>

(* The process dies: what it held stays running, without a holder. *)
Orphan ==
  /\ box' = [g \in Group |->
               [i \in DOMAIN log |->
                  IF box[g][i].state = "running" THEN [box[g][i] EXCEPT !.state = "orphaned"]
                                                 ELSE box[g][i]]]
  /\ batch' = [g \in Group |-> <<>>]
  /\ UNCHANGED log
=============================================================================
