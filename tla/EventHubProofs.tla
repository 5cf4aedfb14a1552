--------------------------- MODULE EventHubProofs ---------------------------
(***************************************************************************)
(* Proofs about EventHub for any messages, groups, daemons and limits.     *)
(* The second part is about at most one daemon over the file: then two     *)
(* loops never serve one group, what a loop holds is what the table calls  *)
(* running, and the hub implements DeliveryPromise.                        *)
(***************************************************************************)
EXTENDS EventHub, TLAPS

Assumptions ==
  /\ Route \in [Message -> SUBSET Group]
  /\ Delay \in [Message -> Nat]
  /\ BatchSize \in [Group -> Nat \ {0}]
  /\ Lease \in Nat
  /\ RetryDelay \in Nat

LEMMA AssumptionsHold == Assumptions
BY RouteAssumption, MessageAssumption, LimitsAssumption DEF Assumptions

(* A loop holds rows exactly while it is not scanning. *)
LoopOK == \A c \in Consumer : pc[c] = "scan" <=> batch[c] = <<>>

LEMMA NoRowIsRow == NoRow \in Row
BY DEF NoRow, Row, Status, NoLease

(* What an UPDATE makes of a row is a row. *)
LEMMA UpdatesAreRows ==
  ASSUME TypeOK, NEW r \in Row
  PROVE  /\ ClaimedRow(r) \in Row
         /\ AckedRow(r) \in Row
         /\ DeadRow(r) \in Row
         /\ RetryRow(r) \in Row
<1>1. now \in Nat /\ Lease \in Nat /\ RetryDelay \in Nat
  BY AssumptionsHold DEF TypeOK, Assumptions
<1> r.attempts \in Nat
  BY DEF Row
<1>2. ClaimedRow(r) \in Row
  <2>1. ASSUME NEW n \in Nat, NEW t \in Nat
        PROVE  [r EXCEPT !.status = "running", !.attempts = n, !.leaseUntil = t] \in Row
    BY DEF Row, Status
  <2>2. r.attempts + 1 \in Nat /\ now + Lease \in Nat
    BY <1>1
  <2> QED
    BY <2>1, <2>2 DEF ClaimedRow
<1>3. AckedRow(r) \in Row
  BY <1>1 DEF AckedRow, Row, Status, NoLease
<1>4. DeadRow(r) \in Row
  BY DEF DeadRow, Row, Status, NoLease
<1>5. RetryRow(r) \in Row
  <2>1. ASSUME NEW t \in Nat
        PROVE  [r EXCEPT !.status = "pending", !.availableAt = t, !.leaseUntil = NoLease] \in Row
    BY DEF Row, Status, NoLease
  <2>2. now + RetryDelay \in Nat
    BY <1>1
  <2> QED
    BY <2>1, <2>2 DEF RetryRow
<1> QED
  BY <1>2, <1>3, <1>4, <1>5

LEMMA PendingRowIsRow ==
  ASSUME TypeOK, NEW m \in Message
  PROVE  PendingRow(m) \in Row
<1>1. now \in Nat /\ now + Delay[m] \in Nat
  BY AssumptionsHold DEF TypeOK, Assumptions
<1> QED
  BY <1>1 DEF PendingRow, Row, Status, NoLease

LEMMA DeliveryMessage ==
  ASSUME NEW d \in Delivery
  PROVE  d[1] \in Message /\ d[2] \in Group
BY DEF Delivery

(* A selection is a non-empty sequence of ready deliveries of the group. *)
LEMMA SelectionType ==
  ASSUME NEW g \in Group, NEW s \in Selections(g)
  PROVE  /\ s \in Seq(Delivery)
         /\ s # <<>>
         /\ \A i \in DOMAIN s : s[i] \in Ready(g)
<1>1. PICK k \in 1..BatchSize[g] : s \in [1..k -> Ready(g)]
  BY DEF Selections
<1>2. k \in Nat /\ k >= 1
  BY <1>1, AssumptionsHold DEF Assumptions
<1>3. Ready(g) \subseteq Delivery
  BY DEF Ready
<1>4. s \in [1..k -> Delivery]
  BY <1>1, <1>3
<1>5. s \in Seq(Delivery) /\ Len(s) = k
  BY <1>2, <1>4
<1> QED
  BY <1>1, <1>2, <1>5

(* The current row of a busy loop, and what is left after it. *)
LEMMA CurrentType ==
  ASSUME TypeOK, LoopOK, NEW c \in Consumer, pc[c] # "scan"
  PROVE  /\ Current(c) \in Delivery
         /\ Tail(batch[c]) \in Seq(Delivery)
BY DEF TypeOK, LoopOK, Current

LEMMA NextInBatchType ==
  ASSUME TypeOK, LoopOK, NEW c \in Consumer, pc[c] # "scan", NextInBatch(c)
  PROVE  /\ pc' \in [Consumer -> {"scan", "handle", "ack"}]
         /\ batch' \in [Consumer -> Seq(Delivery)]
         /\ LoopOK'
BY CurrentType DEF TypeOK, LoopOK, NextInBatch

-----------------------------------------------------------------------------
(* One lemma per action for the types. *)

TypeInv == TypeOK /\ LoopOK

LEMMA AppendNewType ==
  ASSUME TypeInv, NEW m \in Message, AppendNew(m)
  PROVE  TypeInv'
<1>1. PendingRow(m) \in Row
  BY PendingRowIsRow DEF TypeInv
<1>2. deliveries' \in [Delivery -> Row]
  BY <1>1 DEF AppendNew, TypeInv, TypeOK
<1> QED
  BY <1>2 DEF AppendNew, TypeInv, TypeOK, LoopOK, loops

LEMMA AppendDuplicateType ==
  ASSUME TypeInv, NEW m \in Message, AppendDuplicate(m)
  PROVE  TypeInv'
BY DEF AppendDuplicate, SameKey, TypeInv, TypeOK, LoopOK, loops

LEMMA ClaimType ==
  ASSUME TypeInv, NEW c \in Consumer, Claim(c)
  PROVE  TypeInv'
<1>1. c[2] \in Group
  BY DEF Consumer
<1>2. PICK s \in Selections(c[2]) :
        /\ deliveries' = [d \in Delivery |-> IF \E i \in DOMAIN s : s[i] = d
                                               THEN ClaimedRow(deliveries[d])
                                               ELSE deliveries[d]]
        /\ batch' = [batch EXCEPT ![c] = s]
  BY DEF Claim
<1>3. s \in Seq(Delivery) /\ s # <<>>
  BY <1>1, SelectionType
<1>4. \A d \in Delivery : ClaimedRow(deliveries[d]) \in Row
  BY UpdatesAreRows DEF TypeInv, TypeOK
<1>5. deliveries' \in [Delivery -> Row]
  BY <1>2, <1>4 DEF TypeInv, TypeOK
<1>6. batch' \in [Consumer -> Seq(Delivery)]
  BY <1>2, <1>3 DEF TypeInv, TypeOK
<1>7. LoopOK'
  BY <1>2, <1>3 DEF Claim, TypeInv, TypeOK, LoopOK
<1> QED
  BY <1>5, <1>6, <1>7 DEF Claim, TypeInv, TypeOK

LEMMA HandlerReturnsType ==
  ASSUME TypeInv, NEW c \in Consumer, HandlerReturns(c)
  PROVE  TypeInv'
<1>1. Current(c) \in Delivery
  BY CurrentType DEF HandlerReturns, TypeInv
<1> QED
  BY <1>1 DEF HandlerReturns, TypeInv, TypeOK, LoopOK, tables

LEMMA AckType ==
  ASSUME TypeInv, NEW c \in Consumer, Ack(c)
  PROVE  TypeInv'
<1>1. pc[c] # "scan" /\ NextInBatch(c)
  BY DEF Ack
<1>2. Current(c) \in Delivery
  BY <1>1, CurrentType DEF TypeInv
<1>3. AckedRow(deliveries[Current(c)]) \in Row
  BY <1>2, UpdatesAreRows DEF TypeInv, TypeOK
<1>4. deliveries' \in [Delivery -> Row]
  BY <1>2, <1>3 DEF Ack, TypeInv, TypeOK
<1> QED
  BY <1>1, <1>4, NextInBatchType DEF Ack, TypeInv, TypeOK

LEMMA FailToRetryType ==
  ASSUME TypeInv, NEW c \in Consumer, FailToRetry(c)
  PROVE  TypeInv'
<1>1. pc[c] # "scan" /\ NextInBatch(c)
  BY DEF FailToRetry
<1>2. Current(c) \in Delivery
  BY <1>1, CurrentType DEF TypeInv
<1>3. RetryRow(deliveries[Current(c)]) \in Row
  BY <1>2, UpdatesAreRows DEF TypeInv, TypeOK
<1>4. deliveries' \in [Delivery -> Row]
  BY <1>2, <1>3 DEF FailToRetry, TypeInv, TypeOK
<1> QED
  BY <1>1, <1>4, NextInBatchType DEF FailToRetry, TypeInv, TypeOK

LEMMA FailToDeadLetterType ==
  ASSUME TypeInv, NEW c \in Consumer, FailToDeadLetter(c)
  PROVE  TypeInv'
<1>1. pc[c] # "scan" /\ NextInBatch(c)
  BY DEF FailToDeadLetter
<1>2. Current(c) \in Delivery
  BY <1>1, CurrentType DEF TypeInv
<1>3. DeadRow(deliveries[Current(c)]) \in Row
  BY <1>2, UpdatesAreRows DEF TypeInv, TypeOK
<1>4. deliveries' \in [Delivery -> Row] /\ deadLetters' \in [Delivery -> Nat]
  BY <1>2, <1>3 DEF FailToDeadLetter, TypeInv, TypeOK
<1> QED
  BY <1>1, <1>4, NextInBatchType DEF FailToDeadLetter, TypeInv, TypeOK

LEMMA FailMissingType ==
  ASSUME TypeInv, NEW c \in Consumer, FailMissing(c)
  PROVE  TypeInv'
<1>1. pc[c] # "scan" /\ NextInBatch(c)
  BY DEF FailMissing
<1> QED
  BY <1>1, NextInBatchType DEF FailMissing, TypeInv, TypeOK, tables

LEMMA CrashType ==
  ASSUME TypeInv, NEW p \in Daemon, Crash(p)
  PROVE  TypeInv'
BY DEF Crash, TypeInv, TypeOK, LoopOK, tables

LEMMA CleanupType ==
  ASSUME TypeInv, Cleanup
  PROVE  TypeInv'
BY NoRowIsRow DEF Cleanup, TypeInv, TypeOK, LoopOK, loops

LEMMA TickType ==
  ASSUME TypeInv, Tick
  PROVE  TypeInv'
BY DEF Tick, TypeInv, TypeOK, LoopOK, tables, loops

LEMMA TypeInvStep == TypeInv /\ [Next]_vars => TypeInv'
<1> SUFFICES ASSUME TypeInv, [Next]_vars PROVE TypeInv'
  OBVIOUS
<1>1. ASSUME NEW m \in Message, AppendNew(m) PROVE TypeInv'
  BY <1>1, AppendNewType
<1>2. ASSUME NEW m \in Message, AppendDuplicate(m) PROVE TypeInv'
  BY <1>2, AppendDuplicateType
<1>3. ASSUME NEW c \in Consumer, Claim(c) PROVE TypeInv'
  BY <1>3, ClaimType
<1>4. ASSUME NEW c \in Consumer, HandlerReturns(c) PROVE TypeInv'
  BY <1>4, HandlerReturnsType
<1>5. ASSUME NEW c \in Consumer, Ack(c) PROVE TypeInv'
  BY <1>5, AckType
<1>6. ASSUME NEW c \in Consumer, FailToRetry(c) PROVE TypeInv'
  BY <1>6, FailToRetryType
<1>7. ASSUME NEW c \in Consumer, FailToDeadLetter(c) PROVE TypeInv'
  BY <1>7, FailToDeadLetterType
<1>8. ASSUME NEW c \in Consumer, FailMissing(c) PROVE TypeInv'
  BY <1>8, FailMissingType
<1>9. ASSUME NEW p \in Daemon, Crash(p) PROVE TypeInv'
  BY <1>9, CrashType
<1>10. CASE Cleanup
  BY <1>10, CleanupType
<1>11. CASE Tick
  BY <1>11, TickType
<1>12. CASE UNCHANGED vars
  BY <1>12 DEF vars, TypeInv, TypeOK, LoopOK
<1> QED
  BY <1>1, <1>2, <1>3, <1>4, <1>5, <1>6, <1>7, <1>8, <1>9, <1>10, <1>11, <1>12 DEF Next

LEMMA TypeInvInit == Init => TypeInv
BY NoRowIsRow DEF Init, TypeInv, TypeOK, LoopOK

LEMMA TypeInvariant == Spec => []TypeInv
<1>1. Init => TypeInv
  BY TypeInvInit
<1>2. TypeInv /\ [Next]_vars => TypeInv'
  BY TypeInvStep
<1> QED
  BY <1>1, <1>2, PTL DEF Spec

(* Every variable keeps its type, for any instance of the constants. *)
THEOREM TypeCorrect == Spec => []TypeOK
BY TypeInvariant, PTL DEF TypeInv

-----------------------------------------------------------------------------
(* Safety for any number of daemons.  NoDeliveryLost is not inductive as it stands: an   *)
(* ack is safe only because a loop reaches it after the handler of its current row.      *)

AcksPerformed == \A c \in Consumer : pc[c] = "ack" => Current(c) \in performed

HubInv ==
  /\ TypeInv
  /\ AcksPerformed
  /\ NoDeliveryLost
  /\ PendingHasAttemptsLeft
  /\ DeadLettersRecorded

LEMMA HubInvInit == Init => HubInv
<1> SUFFICES ASSUME Init PROVE HubInv
  OBVIOUS
<1>1. TypeInv
  BY TypeInvInit
<1>2. AcksPerformed /\ NoDeliveryLost /\ PendingHasAttemptsLeft /\ DeadLettersRecorded
  BY DEF Init, AcksPerformed, NoDeliveryLost, PendingHasAttemptsLeft, DeadLettersRecorded, NoRow
<1> QED
  BY <1>1, <1>2 DEF HubInv

(* Going on in the batch leaves no loop about to ack a row that it did not handle.       *)
LEMMA NextInBatchAcks ==
  ASSUME HubInv, NEW c \in Consumer, NextInBatch(c), performed' = performed
  PROVE  AcksPerformed'
BY DEF HubInv, TypeInv, TypeOK, NextInBatch, AcksPerformed, Current

LEMMA AppendNewSafe ==
  ASSUME HubInv, NEW m \in Message, AppendNew(m)
  PROVE  (AcksPerformed /\ NoDeliveryLost /\ PendingHasAttemptsLeft /\ DeadLettersRecorded)'
<1>1. AcksPerformed'
  BY DEF AppendNew, HubInv, AcksPerformed, Current, loops
<1>2. NoDeliveryLost'
  BY DEF AppendNew, HubInv, TypeInv, TypeOK, NoDeliveryLost, PendingRow
<1>3. PendingHasAttemptsLeft'
  BY LimitsAssumption
     DEF AppendNew, HubInv, TypeInv, TypeOK, PendingHasAttemptsLeft, PendingRow
<1>4. DeadLettersRecorded'
  BY DEF AppendNew, HubInv, TypeInv, TypeOK, DeadLettersRecorded, PendingRow
<1> QED
  BY <1>1, <1>2, <1>3, <1>4

LEMMA ClaimSafe ==
  ASSUME HubInv, NEW c \in Consumer, Claim(c)
  PROVE  (AcksPerformed /\ NoDeliveryLost /\ PendingHasAttemptsLeft /\ DeadLettersRecorded)'
<1>1. PICK s \in Selections(c[2]) :
        /\ deliveries' = [d \in Delivery |-> IF \E i \in DOMAIN s : s[i] = d
                                               THEN ClaimedRow(deliveries[d])
                                               ELSE deliveries[d]]
        /\ batch' = [batch EXCEPT ![c] = s]
  BY DEF Claim
<1>2. \A d \in Delivery : \/ deliveries'[d] = deliveries[d]
                          \/ deliveries'[d].status = "running"
  BY <1>1 DEF ClaimedRow, HubInv, TypeInv, TypeOK, Row
<1>3. AcksPerformed'
  BY <1>1 DEF Claim, HubInv, TypeInv, TypeOK, AcksPerformed, Current
<1>4. NoDeliveryLost'
  BY <1>2 DEF Claim, HubInv, NoDeliveryLost
<1>5. PendingHasAttemptsLeft' /\ DeadLettersRecorded'
  BY <1>2 DEF Claim, HubInv, PendingHasAttemptsLeft, DeadLettersRecorded
<1> QED
  BY <1>3, <1>4, <1>5

LEMMA HandlerReturnsSafe ==
  ASSUME HubInv, NEW c \in Consumer, HandlerReturns(c)
  PROVE  (AcksPerformed /\ NoDeliveryLost /\ PendingHasAttemptsLeft /\ DeadLettersRecorded)'
BY DEF HandlerReturns, HubInv, TypeInv, TypeOK, AcksPerformed, NoDeliveryLost,
       PendingHasAttemptsLeft, DeadLettersRecorded, Current, tables

LEMMA AckSafe ==
  ASSUME HubInv, NEW c \in Consumer, Ack(c)
  PROVE  (AcksPerformed /\ NoDeliveryLost /\ PendingHasAttemptsLeft /\ DeadLettersRecorded)'
<1> DEFINE d == Current(c)
<1>1. d \in Delivery /\ d \in performed
  BY CurrentType DEF Ack, HubInv, TypeInv, AcksPerformed
<1>2. \A e \in Delivery \ {d} : deliveries'[e] = deliveries[e]
  BY DEF Ack, HubInv, TypeInv, TypeOK
<1>3. deliveries'[d].status \in {"none", "acked"}
  BY <1>1 DEF Ack, AckedRow, HubInv, TypeInv, TypeOK, Row
<1>4. AcksPerformed'
  BY NextInBatchAcks DEF Ack
<1>5. NoDeliveryLost'
  BY <1>1, <1>2 DEF Ack, HubInv, NoDeliveryLost
<1>6. PendingHasAttemptsLeft' /\ DeadLettersRecorded'
  BY <1>2, <1>3 DEF Ack, HubInv, PendingHasAttemptsLeft, DeadLettersRecorded
<1> QED
  BY <1>4, <1>5, <1>6

LEMMA FailToRetrySafe ==
  ASSUME HubInv, NEW c \in Consumer, FailToRetry(c)
  PROVE  (AcksPerformed /\ NoDeliveryLost /\ PendingHasAttemptsLeft /\ DeadLettersRecorded)'
<1> DEFINE d == Current(c)
<1>1. d \in Delivery
  BY CurrentType DEF FailToRetry, HubInv, TypeInv
<1>2. \A e \in Delivery \ {d} : deliveries'[e] = deliveries[e]
  BY DEF FailToRetry, HubInv, TypeInv, TypeOK
<1>3. /\ deliveries'[d].status = "pending"
      /\ deliveries'[d].attempts = deliveries[d].attempts
  BY <1>1 DEF FailToRetry, RetryRow, HubInv, TypeInv, TypeOK, Row
<1>4. deliveries[d].attempts < MaxAttempts
  BY <1>1, LimitsAssumption DEF FailToRetry, Exhausted, HubInv, TypeInv, TypeOK, Row
<1>5. AcksPerformed'
  BY NextInBatchAcks DEF FailToRetry
<1>6. NoDeliveryLost'
  BY <1>2, <1>3 DEF FailToRetry, HubInv, NoDeliveryLost
<1>7. PendingHasAttemptsLeft'
  BY <1>2, <1>3, <1>4 DEF HubInv, PendingHasAttemptsLeft
<1>8. DeadLettersRecorded'
  BY <1>2, <1>3 DEF FailToRetry, HubInv, DeadLettersRecorded
<1> QED
  BY <1>5, <1>6, <1>7, <1>8

LEMMA FailToDeadLetterSafe ==
  ASSUME HubInv, NEW c \in Consumer, FailToDeadLetter(c)
  PROVE  (AcksPerformed /\ NoDeliveryLost /\ PendingHasAttemptsLeft /\ DeadLettersRecorded)'
<1> DEFINE d == Current(c)
<1>1. d \in Delivery
  BY CurrentType DEF FailToDeadLetter, HubInv, TypeInv
<1>2. \A e \in Delivery \ {d} : /\ deliveries'[e] = deliveries[e]
                                /\ deadLetters'[e] = deadLetters[e]
  BY DEF FailToDeadLetter, HubInv, TypeInv, TypeOK
<1>3. deliveries'[d].status = "dead_letter"
  BY <1>1 DEF FailToDeadLetter, DeadRow, HubInv, TypeInv, TypeOK, Row
<1>4. deadLetters'[d] > 0
  BY <1>1 DEF FailToDeadLetter, HubInv, TypeInv, TypeOK
<1>5. AcksPerformed'
  BY NextInBatchAcks DEF FailToDeadLetter
<1>6. NoDeliveryLost'
  BY <1>2, <1>3 DEF FailToDeadLetter, HubInv, NoDeliveryLost
<1>7. PendingHasAttemptsLeft'
  BY <1>2, <1>3 DEF HubInv, PendingHasAttemptsLeft
<1>8. DeadLettersRecorded'
  BY <1>2, <1>3, <1>4 DEF HubInv, DeadLettersRecorded
<1> QED
  BY <1>5, <1>6, <1>7, <1>8

LEMMA CleanupSafe ==
  ASSUME HubInv, Cleanup
  PROVE  (AcksPerformed /\ NoDeliveryLost /\ PendingHasAttemptsLeft /\ DeadLettersRecorded)'
<1>1. \A d \in Delivery : \/ deliveries'[d] = deliveries[d]
                          \/ /\ deliveries[d].status = "acked"
                             /\ deliveries'[d].status = "none"
  BY DEF Cleanup, IsExpendable, NoRow
<1>2. AcksPerformed'
  BY DEF Cleanup, HubInv, AcksPerformed, Current, loops
<1>3. NoDeliveryLost'
  BY <1>1 DEF Cleanup, HubInv, NoDeliveryLost
<1>4. PendingHasAttemptsLeft' /\ DeadLettersRecorded'
  BY <1>1 DEF Cleanup, HubInv, PendingHasAttemptsLeft, DeadLettersRecorded
<1> QED
  BY <1>2, <1>3, <1>4

(* The steps that leave all tables alone, or only record a duplicate's answer.           *)
LEMMA QuietSafe ==
  ASSUME HubInv, UNCHANGED <<log, deliveries, deadLetters, performed>>, AcksPerformed'
  PROVE  (NoDeliveryLost /\ PendingHasAttemptsLeft /\ DeadLettersRecorded)'
BY DEF HubInv, NoDeliveryLost, PendingHasAttemptsLeft, DeadLettersRecorded

LEMMA HubInvStep == HubInv /\ [Next]_vars => HubInv'
<1> SUFFICES ASSUME HubInv, [Next]_vars
             PROVE  (AcksPerformed /\ NoDeliveryLost /\ PendingHasAttemptsLeft
                       /\ DeadLettersRecorded)'
  BY TypeInvStep DEF HubInv
<1> DEFINE Goal == (AcksPerformed /\ NoDeliveryLost /\ PendingHasAttemptsLeft
                       /\ DeadLettersRecorded)'
<1>1. ASSUME NEW m \in Message, AppendNew(m) PROVE Goal
  BY <1>1, AppendNewSafe
<1>2. ASSUME NEW m \in Message, AppendDuplicate(m) PROVE Goal
  <2>1. AcksPerformed'
    BY <1>2 DEF AppendDuplicate, HubInv, AcksPerformed, Current, loops
  <2> QED
    BY <1>2, <2>1, QuietSafe DEF AppendDuplicate
<1>3. ASSUME NEW c \in Consumer, Claim(c) PROVE Goal
  BY <1>3, ClaimSafe
<1>4. ASSUME NEW c \in Consumer, HandlerReturns(c) PROVE Goal
  BY <1>4, HandlerReturnsSafe
<1>5. ASSUME NEW c \in Consumer, Ack(c) PROVE Goal
  BY <1>5, AckSafe
<1>6. ASSUME NEW c \in Consumer, FailToRetry(c) PROVE Goal
  BY <1>6, FailToRetrySafe
<1>7. ASSUME NEW c \in Consumer, FailToDeadLetter(c) PROVE Goal
  BY <1>7, FailToDeadLetterSafe
<1>8. ASSUME NEW c \in Consumer, FailMissing(c) PROVE Goal
  <2>1. AcksPerformed'
    BY <1>8, NextInBatchAcks DEF FailMissing
  <2> QED
    BY <1>8, <2>1, QuietSafe DEF FailMissing, tables
<1>9. ASSUME NEW p \in Daemon, Crash(p) PROVE Goal
  <2>1. AcksPerformed'
    BY <1>9 DEF Crash, HubInv, AcksPerformed, Current
  <2> QED
    BY <1>9, <2>1, QuietSafe DEF Crash, tables
<1>10. CASE Cleanup
  BY <1>10, CleanupSafe
<1>11. CASE Tick
  <2>1. AcksPerformed'
    BY <1>11 DEF Tick, HubInv, AcksPerformed, Current, loops
  <2> QED
    BY <1>11, <2>1, QuietSafe DEF Tick, tables
<1>12. CASE UNCHANGED vars
  <2>1. AcksPerformed'
    BY <1>12 DEF vars, HubInv, AcksPerformed, Current
  <2> QED
    BY <1>12, <2>1, QuietSafe DEF vars
<1> QED
  BY <1>1, <1>2, <1>3, <1>4, <1>5, <1>6, <1>7, <1>8, <1>9, <1>10, <1>11, <1>12 DEF Next

LEMMA HubInvariant == Spec => []HubInv
<1>1. Init => HubInv
  BY HubInvInit
<1>2. HubInv /\ [Next]_vars => HubInv'
  BY HubInvStep
<1> QED
  BY <1>1, <1>2, PTL DEF Spec

(* Work that was accepted is due, leased, dead-lettered or done, however many daemons    *)
(* share the file and whenever they crash.                                               *)
THEOREM NothingIsLost == Spec => []NoDeliveryLost
BY HubInvariant, PTL DEF HubInv

(* A row that waits for a retry has attempts left.                                       *)
THEOREM RetriesAreBounded == Spec => []PendingHasAttemptsLeft
BY HubInvariant, PTL DEF HubInv

(* No row is dead-lettered without a record.                                             *)
THEOREM DeadLettersAreRecorded == Spec => []DeadLettersRecorded
BY HubInvariant, PTL DEF HubInv

-----------------------------------------------------------------------------
(* One daemon *)

OneDaemon == \A p, q \in Daemon : p = q

(* What a loop holds: running rows of its own group, each once. *)
HeldOK ==
  \A c \in Consumer : \A i \in DOMAIN batch[c] :
    /\ batch[c][i][2] = c[2]
    /\ deliveries[batch[c][i]].status = "running"
    /\ \A j \in DOMAIN batch[c] : i # j => batch[c][i] # batch[c][j]

(* Nothing is known of a message before it is logged. *)
LogOK ==
  /\ \A m \in Message : returned[m] = NoMessage => m \notin log
  /\ \A d \in Delivery : d[1] \notin log => deliveries[d].status = "none"

SoloInv == HubInv /\ HeldOK /\ LogOK /\ DeadLettersExact

LEMMA SoloInvInit == Init => SoloInv
BY HubInvInit DEF Init, SoloInv, HeldOK, LogOK, DeadLettersExact, NoRow

(* Two loops of one daemon hold rows of different groups. *)
LEMMA LoopsDiffer ==
  ASSUME OneDaemon, NEW c \in Consumer, NEW e \in Consumer, c # e
  PROVE  c[2] # e[2]
BY DEF OneDaemon, Consumer

LEMMA TailFacts ==
  ASSUME NEW S, NEW s \in Seq(S), s # <<>>
  PROVE  /\ Head(s) = s[1]
         /\ 1 \in DOMAIN s
         /\ \A i \in DOMAIN Tail(s) : i + 1 \in DOMAIN s /\ Tail(s)[i] = s[i + 1]
OBVIOUS

(* A loop whose current row is settled holds only rows that the step did not touch.      *)
LEMMA SettleHeld ==
  ASSUME OneDaemon, SoloInv, NEW c \in Consumer, pc[c] # "scan", NextInBatch(c),
         \A e \in Delivery \ {Current(c)} : deliveries'[e] = deliveries[e]
  PROVE  HeldOK'
<1> USE DEF SoloInv, HubInv, TypeInv, TypeOK
<1>1. batch[c] \in Seq(Delivery) /\ batch[c] # <<>>
  BY DEF LoopOK
<1>2. Current(c) = batch[c][1] /\ 1 \in DOMAIN batch[c]
  BY <1>1, TailFacts DEF Current
<1>3. \A i \in DOMAIN Tail(batch[c]) :
        i + 1 \in DOMAIN batch[c] /\ Tail(batch[c])[i] = batch[c][i + 1]
  BY <1>1, TailFacts
<1>4. batch'[c] = Tail(batch[c]) /\ \A e \in Consumer \ {c} : batch'[e] = batch[e]
  BY DEF NextInBatch
<1> SUFFICES ASSUME NEW e \in Consumer, NEW i \in DOMAIN batch'[e]
             PROVE  /\ batch'[e][i][2] = e[2]
                    /\ deliveries'[batch'[e][i]].status = "running"
                    /\ \A j \in DOMAIN batch'[e] : i # j => batch'[e][i] # batch'[e][j]
  BY DEF HeldOK
<1>5. CASE e = c
  <2>1. i \in Nat /\ i >= 1
    BY <1>1, <1>4, <1>5
  <2>2. /\ i + 1 \in DOMAIN batch[c]
        /\ batch'[c][i] = batch[c][i + 1]
        /\ i + 1 # 1
    <3>1. i \in DOMAIN Tail(batch[c])
      BY <1>4, <1>5
    <3>2. i + 1 \in DOMAIN batch[c] /\ Tail(batch[c])[i] = batch[c][i + 1]
      BY <1>3, <3>1
    <3> QED
      BY <1>4, <2>1, <3>2
  <2>3. batch[c][i + 1] # Current(c) /\ batch[c][i + 1] \in Delivery
    BY <1>1, <1>2, <2>2 DEF HeldOK
  <2>4. deliveries'[batch'[c][i]].status = "running" /\ batch'[c][i][2] = c[2]
    BY <2>2, <2>3 DEF HeldOK
  <2>5. ASSUME NEW j \in DOMAIN batch'[c], i # j PROVE batch'[c][i] # batch'[c][j]
    <3>1. j + 1 \in DOMAIN batch[c] /\ batch'[c][j] = batch[c][j + 1] /\ j \in Nat
      BY <1>1, <1>3, <1>4
    <3>2. i + 1 # j + 1
      BY <2>1, <2>5, <3>1
    <3> QED
      BY <2>2, <3>1, <3>2 DEF HeldOK
  <2> QED
    BY <1>5, <2>4, <2>5
<1>6. CASE e # c
  <2>1. batch'[e] = batch[e] /\ batch[e] \in Seq(Delivery)
    BY <1>4, <1>6
  <2>2. batch[e][i] \in Delivery /\ batch[e][i][2] = e[2]
    BY <2>1 DEF HeldOK
  <2>3. Current(c)[2] = c[2]
    BY <1>2 DEF HeldOK
  <2>4. batch[e][i] # Current(c)
    BY <1>6, <2>2, <2>3, LoopsDiffer
  <2> QED
    BY <2>1, <2>2, <2>4 DEF HeldOK
<1> QED
  BY <1>5, <1>6

(* The current row of a busy loop is running and belongs to a logged message.            *)
LEMMA CurrentIsRunning ==
  ASSUME SoloInv, NEW c \in Consumer, pc[c] # "scan"
  PROVE  /\ Current(c) \in Delivery
         /\ deliveries[Current(c)].status = "running"
         /\ Current(c)[1] \in log
<1> USE DEF SoloInv, HubInv, TypeInv
<1>1. Current(c) \in Delivery
  BY CurrentType
<1>2. Current(c) = batch[c][1] /\ 1 \in DOMAIN batch[c]
  BY TailFacts DEF Current, TypeOK, LoopOK
<1>3. deliveries[Current(c)].status = "running"
  BY <1>2 DEF HeldOK
<1> QED
  BY <1>1, <1>3 DEF LogOK

-----------------------------------------------------------------------------
(* One lemma per action that changes a row. *)

LEMMA AppendNewSolo ==
  ASSUME OneDaemon, SoloInv, NEW m \in Message, AppendNew(m)
  PROVE  (HeldOK /\ LogOK /\ DeadLettersExact)'
<1> USE DEF SoloInv, HubInv, TypeInv, TypeOK
<1>1. m \notin log
  BY DEF AppendNew, LogOK
<1>2. \A d \in Delivery : d[1] = m => /\ deliveries[d].status = "none"
                                      /\ deliveries'[d].status = "pending"
  BY <1>1 DEF AppendNew, LogOK, PendingRow
<1>3. \A d \in Delivery : d[1] # m => deliveries'[d] = deliveries[d]
  BY DEF AppendNew
<1>4. HeldOK'
  BY <1>2, <1>3 DEF AppendNew, HeldOK, loops
<1>5. LogOK'
  BY <1>2, <1>3, SetsAssumption DEF AppendNew, LogOK
<1>6. DeadLettersExact'
  BY <1>2, <1>3 DEF AppendNew, DeadLettersExact
<1> QED
  BY <1>4, <1>5, <1>6

(* What a claim selects, and what it makes of the rows. *)
LEMMA ReadyRows ==
  ASSUME NEW g, NEW d \in Ready(g)
  PROVE  deliveries[d].status \in {"pending", "running"}
BY DEF Ready, IsReady

LEMMA ClaimedRows ==
  ASSUME TypeOK, NEW d \in Delivery
  PROVE  ClaimedRow(deliveries[d]).status = "running"
BY DEF TypeOK, ClaimedRow, Row

LEMMA ClaimSolo ==
  ASSUME OneDaemon, SoloInv, NEW c \in Consumer, Claim(c)
  PROVE  (HeldOK /\ LogOK /\ DeadLettersExact)'
<1> USE DEF SoloInv, HubInv, TypeInv, TypeOK
<1>1. PICK s \in Selections(c[2]) :
        /\ deliveries' = [d \in Delivery |-> IF \E i \in DOMAIN s : s[i] = d
                                               THEN ClaimedRow(deliveries[d])
                                               ELSE deliveries[d]]
        /\ batch' = [batch EXCEPT ![c] = s]
  BY DEF Claim
<1>2. s \in Seq(Delivery) /\ \A i \in DOMAIN s : s[i] \in Ready(c[2])
  BY SelectionType DEF Consumer
<1>3. \A i \in DOMAIN s : s[i][2] = c[2]
  BY <1>2 DEF Ready
<1>4. \A i, j \in DOMAIN s : i < j => s[i] # s[j]
  BY <1>1 DEF Selections
<1>5. \A i, j \in DOMAIN s : i # j => s[i] # s[j]
  <2> SUFFICES ASSUME NEW i \in DOMAIN s, NEW j \in DOMAIN s, i # j PROVE s[i] # s[j]
    OBVIOUS
  <2>1. i \in Nat /\ j \in Nat
    BY <1>2
  <2>2. i < j \/ j < i
    BY <2>1
  <2> QED
    BY <1>4, <2>2
<1>6. \A d \in Delivery :
        \/ deliveries'[d] = deliveries[d]
        \/ /\ deliveries[d].status \in {"pending", "running"}
           /\ deliveries'[d].status = "running"
  <2> SUFFICES ASSUME NEW d \in Delivery
               PROVE  \/ deliveries'[d] = deliveries[d]
                      \/ /\ deliveries[d].status \in {"pending", "running"}
                         /\ deliveries'[d].status = "running"
    OBVIOUS
  <2>1. CASE \E i \in DOMAIN s : s[i] = d
    <3>1. d \in Ready(c[2]) /\ deliveries'[d] = ClaimedRow(deliveries[d])
      BY <1>1, <1>2, <2>1
    <3> QED BY <3>1, ReadyRows, ClaimedRows
  <2>2. CASE ~\E i \in DOMAIN s : s[i] = d
    BY <1>1, <2>2
  <2> QED BY <2>1, <2>2
<1>7. \A i \in DOMAIN s : deliveries'[s[i]].status = "running"
  <2> SUFFICES ASSUME NEW i \in DOMAIN s PROVE deliveries'[s[i]].status = "running"
    OBVIOUS
  <2>1. s[i] \in Delivery
    BY <1>2 DEF Ready
  <2>2. deliveries'[s[i]] = ClaimedRow(deliveries[s[i]])
    BY <1>1, <2>1
  <2>3. deliveries[s[i]] \in Row
    BY <2>1
  <2> QED
    BY <2>2, <2>3 DEF ClaimedRow, Row
<1>8. HeldOK'
  <2> SUFFICES ASSUME NEW e \in Consumer, NEW i \in DOMAIN batch'[e]
               PROVE  /\ batch'[e][i][2] = e[2]
                      /\ deliveries'[batch'[e][i]].status = "running"
                      /\ \A j \in DOMAIN batch'[e] : i # j => batch'[e][i] # batch'[e][j]
    BY DEF HeldOK
  <2>1. CASE e = c
    <3>1. batch'[e] = s
      BY <1>1, <2>1
    <3> QED
      BY <1>3, <1>5, <1>7, <2>1, <3>1
  <2>2. CASE e # c
    <3>1. batch'[e] = batch[e] /\ batch[e] \in Seq(Delivery)
      BY <1>1, <2>2
    <3>2. batch[e][i] \in Delivery /\ deliveries[batch[e][i]].status = "running"
      BY <3>1 DEF HeldOK
    <3>3. deliveries'[batch[e][i]].status = "running"
      BY <1>6, <3>2
    <3> QED
      BY <3>1, <3>3 DEF HeldOK
  <2> QED
    BY <2>1, <2>2
<1>9. LogOK'
  BY <1>6 DEF Claim, LogOK
<1>10. DeadLettersExact'
  BY <1>6 DEF Claim, DeadLettersExact
<1> QED
  BY <1>8, <1>9, <1>10

LEMMA AckSolo ==
  ASSUME OneDaemon, SoloInv, NEW c \in Consumer, Ack(c)
  PROVE  /\ (HeldOK /\ LogOK /\ DeadLettersExact)'
         /\ deliveries'[Current(c)].status = "acked"
<1> USE DEF SoloInv, HubInv, TypeInv, TypeOK
<1> DEFINE d == Current(c)
<1>1. d \in Delivery /\ deliveries[d].status = "running" /\ d[1] \in log
  BY CurrentIsRunning DEF Ack
<1>2. \A e \in Delivery \ {d} : deliveries'[e] = deliveries[e]
  BY DEF Ack
<1>3. deliveries'[d].status = "acked"
  BY <1>1 DEF Ack, AckedRow, Row
<1>4. HeldOK'
  BY <1>2, SettleHeld DEF Ack
<1>5. LogOK'
  BY <1>1, <1>2 DEF Ack, LogOK
<1>6. DeadLettersExact'
  BY <1>1, <1>2, <1>3 DEF Ack, DeadLettersExact
<1> QED
  BY <1>3, <1>4, <1>5, <1>6

LEMMA FailToRetrySolo ==
  ASSUME OneDaemon, SoloInv, NEW c \in Consumer, FailToRetry(c)
  PROVE  /\ (HeldOK /\ LogOK /\ DeadLettersExact)'
         /\ deliveries'[Current(c)].status = "pending"
<1> USE DEF SoloInv, HubInv, TypeInv, TypeOK
<1> DEFINE d == Current(c)
<1>1. d \in Delivery /\ deliveries[d].status = "running" /\ d[1] \in log
  BY CurrentIsRunning DEF FailToRetry
<1>2. \A e \in Delivery \ {d} : deliveries'[e] = deliveries[e]
  BY DEF FailToRetry
<1>3. deliveries'[d].status = "pending"
  BY <1>1 DEF FailToRetry, RetryRow, Row
<1>4. HeldOK'
  BY <1>2, SettleHeld DEF FailToRetry
<1>5. LogOK'
  BY <1>1, <1>2 DEF FailToRetry, LogOK
<1>6. DeadLettersExact'
  BY <1>1, <1>2, <1>3 DEF FailToRetry, DeadLettersExact
<1> QED
  BY <1>3, <1>4, <1>5, <1>6

LEMMA FailToDeadLetterSolo ==
  ASSUME OneDaemon, SoloInv, NEW c \in Consumer, FailToDeadLetter(c)
  PROVE  /\ (HeldOK /\ LogOK /\ DeadLettersExact)'
         /\ deliveries'[Current(c)].status = "dead_letter"
<1> USE DEF SoloInv, HubInv, TypeInv, TypeOK
<1> DEFINE d == Current(c)
<1>1. d \in Delivery /\ deliveries[d].status = "running" /\ d[1] \in log
  BY CurrentIsRunning DEF FailToDeadLetter
<1>2. \A e \in Delivery \ {d} : /\ deliveries'[e] = deliveries[e]
                                /\ deadLetters'[e] = deadLetters[e]
  BY DEF FailToDeadLetter
<1>3. deliveries'[d].status = "dead_letter"
  BY <1>1 DEF FailToDeadLetter, DeadRow, Row
<1>4. deadLetters'[d] = 1
  <2>1. deadLetters[d] = 0
    BY <1>1 DEF DeadLettersExact
  <2>2. deadLetters'[d] = deadLetters[d] + 1
    BY <1>1 DEF FailToDeadLetter
  <2> QED
    BY <2>1, <2>2
<1>5. HeldOK'
  BY <1>2, SettleHeld DEF FailToDeadLetter
<1>6. LogOK'
  BY <1>1, <1>2 DEF FailToDeadLetter, LogOK
<1>7. DeadLettersExact'
  BY <1>1, <1>2, <1>3, <1>4 DEF DeadLettersExact
<1> QED
  BY <1>3, <1>5, <1>6, <1>7

LEMMA CrashSolo ==
  ASSUME SoloInv, NEW p \in Daemon, Crash(p)
  PROVE  (HeldOK /\ LogOK /\ DeadLettersExact)'
<1> USE DEF SoloInv
<1>1. HeldOK'
  BY DEF Crash, HeldOK, tables
<1>2. LogOK' /\ DeadLettersExact'
  BY DEF Crash, LogOK, DeadLettersExact, tables
<1> QED
  BY <1>1, <1>2

LEMMA CleanupSolo ==
  ASSUME SoloInv, Cleanup
  PROVE  (HeldOK /\ LogOK /\ DeadLettersExact)'
<1> USE DEF SoloInv, HubInv, TypeInv, TypeOK
<1>1. \A d \in Delivery : \/ deliveries'[d] = deliveries[d]
                          \/ /\ deliveries[d].status = "acked"
                             /\ deliveries'[d].status = "none"
  BY DEF Cleanup, IsExpendable, NoRow
<1>2. \A c \in Consumer : \A i \in DOMAIN batch[c] : batch[c][i] \in Delivery
  OBVIOUS
<1>3. batch' = batch
  BY DEF Cleanup, loops
<1>4. \A c \in Consumer : \A i \in DOMAIN batch[c] :
        deliveries'[batch[c][i]].status = "running"
  BY <1>1, <1>2 DEF HeldOK
<1>5. HeldOK'
  BY <1>3, <1>4 DEF HeldOK
<1>6. LogOK' /\ DeadLettersExact'
  BY <1>1 DEF Cleanup, LogOK, DeadLettersExact
<1> QED
  BY <1>5, <1>6

LEMMA AppendDuplicateSolo ==
  ASSUME SoloInv, NEW m \in Message, AppendDuplicate(m)
  PROVE  (HeldOK /\ LogOK /\ DeadLettersExact)'
<1> USE DEF SoloInv, HubInv, TypeInv, TypeOK
<1>1. HeldOK' /\ DeadLettersExact'
  BY DEF AppendDuplicate, HeldOK, DeadLettersExact, loops
<1>2. LogOK'
  BY SetsAssumption DEF AppendDuplicate, SameKey, LogOK
<1> QED
  BY <1>1, <1>2

(* Steps that change neither the tables nor what the loops hold. *)
LEMMA QuietSolo ==
  ASSUME SoloInv, UNCHANGED <<log, returned, deliveries, deadLetters, batch>>
  PROVE  (HeldOK /\ LogOK /\ DeadLettersExact)'
BY DEF SoloInv, HeldOK, LogOK, DeadLettersExact

LEMMA SoloInvStep ==
  ASSUME OneDaemon
  PROVE  SoloInv /\ [Next]_vars => SoloInv'
<1> SUFFICES ASSUME SoloInv, [Next]_vars PROVE (HeldOK /\ LogOK /\ DeadLettersExact)'
  BY HubInvStep DEF SoloInv
<1> DEFINE Goal == (HeldOK /\ LogOK /\ DeadLettersExact)'
<1>1. ASSUME NEW m \in Message, AppendNew(m) PROVE Goal
  BY <1>1, AppendNewSolo
<1>2. ASSUME NEW m \in Message, AppendDuplicate(m) PROVE Goal
  BY <1>2, AppendDuplicateSolo
<1>3. ASSUME NEW c \in Consumer, Claim(c) PROVE Goal
  BY <1>3, ClaimSolo
<1>4. ASSUME NEW c \in Consumer, HandlerReturns(c) PROVE Goal
  BY <1>4, QuietSolo DEF HandlerReturns, tables
<1>5. ASSUME NEW c \in Consumer, Ack(c) PROVE Goal
  BY <1>5, AckSolo
<1>6. ASSUME NEW c \in Consumer, FailToRetry(c) PROVE Goal
  BY <1>6, FailToRetrySolo
<1>7. ASSUME NEW c \in Consumer, FailToDeadLetter(c) PROVE Goal
  BY <1>7, FailToDeadLetterSolo
<1>8. ASSUME NEW c \in Consumer, FailMissing(c) PROVE Goal
  BY <1>8, CurrentIsRunning DEF FailMissing
<1>9. ASSUME NEW p \in Daemon, Crash(p) PROVE Goal
  BY <1>9, CrashSolo
<1>10. CASE Cleanup
  BY <1>10, CleanupSolo
<1>11. CASE Tick
  BY <1>11, QuietSolo DEF Tick, tables, loops
<1>12. CASE UNCHANGED vars
  BY <1>12, QuietSolo DEF vars
<1> QED
  BY <1>1, <1>2, <1>3, <1>4, <1>5, <1>6, <1>7, <1>8, <1>9, <1>10, <1>11, <1>12 DEF Next

LEMMA SoloInvariant ==
  ASSUME OneDaemon
  PROVE  Spec => []SoloInv
<1>1. Init => SoloInv
  BY SoloInvInit
<1>2. SoloInv /\ [Next]_vars => SoloInv'
  BY SoloInvStep
<1> QED
  BY <1>1, <1>2, PTL DEF Spec

(* With one daemon, a loop's memory and the table agree about every row it holds.        *)
THEOREM HeldRowsStayRunning ==
  ASSUME OneDaemon
  PROVE  Spec => []HeldRowsAreRunning
<1>1. SoloInv => HeldRowsAreRunning
  BY DEF SoloInv, HeldOK, HeldRowsAreRunning
<1> QED
  BY <1>1, SoloInvariant, PTL

(* With one daemon, a dead-lettered delivery has one record, and no other has any.       *)
THEOREM DeadLettersAreExact ==
  ASSUME OneDaemon
  PROVE  Spec => []DeadLettersExact
<1>1. SoloInv => DeadLettersExact
  BY DEF SoloInv
<1> QED
  BY <1>1, SoloInvariant, PTL

-----------------------------------------------------------------------------
(* The life of a row, and what each step is in DeliveryPromise. *)

(* The changes of status that a step can make. *)
RowChange ==
  {<<"none", "pending">>, <<"pending", "running">>, <<"running", "running">>,
   <<"running", "acked">>, <<"running", "pending">>, <<"running", "dead_letter">>,
   <<"acked", "none">>}

RowsChange ==
  \A d \in Delivery : \/ deliveries'[d] = deliveries[d]
                      \/ <<deliveries[d].status, deliveries'[d].status>> \in RowChange

LEMMA OneRowChanges ==
  ASSUME SoloInv, NEW d \in Delivery, NEW s, deliveries[d].status = "running",
         deliveries'[d].status = s, s \in {"acked", "pending", "dead_letter"},
         \A e \in Delivery \ {d} : deliveries'[e] = deliveries[e]
  PROVE  RowsChange
BY DEF RowsChange, RowChange

LEMMA RowsChangeStep ==
  ASSUME OneDaemon, SoloInv, [Next]_vars
  PROVE  RowsChange
<1> USE DEF SoloInv, HubInv, TypeInv, TypeOK
<1>1. ASSUME NEW m \in Message, AppendNew(m) PROVE RowsChange
  <2>1. \A d \in Delivery : d[1] = m => deliveries[d].status = "none"
    BY <1>1 DEF AppendNew, LogOK
  <2> QED
    BY <1>1, <2>1 DEF AppendNew, PendingRow, RowsChange, RowChange
<1>2. ASSUME NEW c \in Consumer, Claim(c) PROVE RowsChange
  <2>1. PICK s \in Selections(c[2]) :
          deliveries' = [d \in Delivery |-> IF \E i \in DOMAIN s : s[i] = d
                                              THEN ClaimedRow(deliveries[d])
                                              ELSE deliveries[d]]
    BY <1>2 DEF Claim
  <2>2. \A i \in DOMAIN s : s[i] \in Ready(c[2])
    BY SelectionType DEF Consumer
  <2>3. \A d \in Delivery : ClaimedRow(deliveries[d]).status = "running"
    BY DEF ClaimedRow, Row
  <2>4. \A d \in Delivery :
          \/ deliveries'[d] = deliveries[d]
          \/ /\ deliveries[d].status \in {"pending", "running"}
             /\ deliveries'[d].status = "running"
    BY <2>1, <2>2, <2>3 DEF Ready, IsReady
  <2> QED
    BY <2>4 DEF RowsChange, RowChange
<1>3. ASSUME NEW c \in Consumer, Ack(c) PROVE RowsChange
  <2>1. pc[c] # "scan"
    BY <1>3 DEF Ack
  <2>2. \A e \in Delivery \ {Current(c)} : deliveries'[e] = deliveries[e]
    BY <1>3 DEF Ack
  <2> QED
    BY <1>3, <2>1, <2>2, AckSolo, CurrentIsRunning, OneRowChanges
<1>4. ASSUME NEW c \in Consumer, FailToRetry(c) PROVE RowsChange
  <2>1. pc[c] # "scan"
    BY <1>4 DEF FailToRetry
  <2>2. \A e \in Delivery \ {Current(c)} : deliveries'[e] = deliveries[e]
    BY <1>4 DEF FailToRetry
  <2> QED
    BY <1>4, <2>1, <2>2, FailToRetrySolo, CurrentIsRunning, OneRowChanges
<1>5. ASSUME NEW c \in Consumer, FailToDeadLetter(c) PROVE RowsChange
  <2>1. pc[c] # "scan"
    BY <1>5 DEF FailToDeadLetter
  <2>2. \A e \in Delivery \ {Current(c)} : deliveries'[e] = deliveries[e]
    BY <1>5 DEF FailToDeadLetter
  <2> QED
    BY <1>5, <2>1, <2>2, FailToDeadLetterSolo, CurrentIsRunning, OneRowChanges
<1>6. CASE Cleanup
  BY <1>6 DEF Cleanup, IsExpendable, NoRow, RowsChange, RowChange
<1>7. CASE deliveries' = deliveries
  BY <1>7 DEF RowsChange
<1> QED
  BY <1>1, <1>2, <1>3, <1>4, <1>5, <1>6, <1>7
     DEF Next, AppendDuplicate, HandlerReturns, FailMissing, Crash, Tick, tables, vars

(* With one daemon, an acked row can only be cleaned up and a dead-lettered one stays.   *)
THEOREM SettledStaysSettled ==
  ASSUME OneDaemon
  PROVE  Spec => SettledIsFinal
<1>1. SoloInv /\ [Next]_vars =>
        [\A d \in Delivery :
           /\ deliveries[d].status = "acked" => deliveries'[d].status \in {"acked", "none"}
           /\ deliveries[d].status = "dead_letter" => deliveries'[d] = deliveries[d]]_deliveries
  BY RowsChangeStep DEF RowsChange, RowChange
<1> QED
  BY <1>1, SoloInvariant, PTL DEF Spec, SettledIsFinal

LEMMA OutcomeFacts ==
  ASSUME SoloInv, NEW d \in Delivery
  PROVE  /\ d[1] \notin log => OutcomeOf(d) = "none"
         /\ d[1] \in log =>
              /\ deliveries[d].status \in {"pending", "running"} => OutcomeOf(d) = "open"
              /\ deliveries[d].status = "dead_letter" => OutcomeOf(d) = "dead"
              /\ deliveries[d].status \in {"acked", "none"} => OutcomeOf(d) = "done"
BY DEF OutcomeOf

LEMMA OutcomeFactsNext ==
  ASSUME NEW d \in Delivery
  PROVE  /\ d[1] \notin log' => OutcomeOf(d)' = "none"
         /\ d[1] \in log' =>
              /\ deliveries'[d].status \in {"pending", "running"} => OutcomeOf(d)' = "open"
              /\ deliveries'[d].status = "dead_letter" => OutcomeOf(d)' = "dead"
              /\ deliveries'[d].status \in {"acked", "none"} => OutcomeOf(d)' = "done"
BY DEF OutcomeOf

LEMMA PromiseInit == Init => Promise!Init
BY DEF Init, Promise!Init, OutcomeOf

LEMMA PromiseStep ==
  ASSUME OneDaemon, SoloInv, SoloInv', [Next]_vars
  PROVE  [Promise!Next]_(Promise!vars)
<1> USE DEF SoloInv, HubInv, TypeInv, TypeOK
<1> DEFINE Same(d) == OutcomeOf(d)' = OutcomeOf(d)
           Stutter == performed' = performed /\ \A d \in Delivery : Same(d)
<1>0. Stutter => UNCHANGED Promise!vars
  BY DEF Promise!vars
<1>1. ASSUME NEW m \in Message, AppendNew(m) PROVE Promise!Next
  <2> DEFINE B == {d \in Delivery : d[1] = m}
  <2>1. m \notin log /\ log' = log \cup {m} /\ performed' = performed
    BY <1>1 DEF AppendNew, LogOK
  <2>2. \A d \in B : OutcomeOf(d) = "none"
    BY <2>1, OutcomeFacts
  <2>3. \A d \in B : deliveries'[d].status = "pending"
    BY <1>1 DEF AppendNew, PendingRow
  <2>4. \A d \in B : OutcomeOf(d)' = "open"
    BY <2>1, <2>3, OutcomeFactsNext
  <2>5. \A d \in Delivery \ B : deliveries'[d] = deliveries[d] /\ (d[1] \in log' <=> d[1] \in log)
    BY <1>1, <2>1 DEF AppendNew
  <2>6. \A d \in Delivery \ B : Same(d)
    BY <2>5 DEF OutcomeOf
  <2>7. Promise!Open(B)
    BY <2>1, <2>2, <2>4, <2>6 DEF Promise!Open
  <2> QED
    BY <2>7 DEF Promise!Next
<1>2. ASSUME NEW m \in Message, AppendDuplicate(m) PROVE Stutter
  BY <1>2 DEF AppendDuplicate, OutcomeOf
<1>3. ASSUME NEW c \in Consumer, Claim(c) PROVE Stutter
  <2>1. log' = log /\ performed' = performed
    BY <1>3 DEF Claim
  <2>2. PICK s \in Selections(c[2]) :
          deliveries' = [d \in Delivery |-> IF \E i \in DOMAIN s : s[i] = d
                                              THEN ClaimedRow(deliveries[d])
                                              ELSE deliveries[d]]
    BY <1>3 DEF Claim
  <2>3. \A i \in DOMAIN s : s[i] \in Ready(c[2])
    BY SelectionType DEF Consumer
  <2>4. \A d \in Delivery : \/ deliveries'[d] = deliveries[d]
                            \/ /\ deliveries[d].status \in {"pending", "running"}
                               /\ deliveries'[d].status = "running"
    <3> SUFFICES ASSUME NEW d \in Delivery
                 PROVE  \/ deliveries'[d] = deliveries[d]
                        \/ /\ deliveries[d].status \in {"pending", "running"}
                           /\ deliveries'[d].status = "running"
      OBVIOUS
    <3>1. CASE \E i \in DOMAIN s : s[i] = d
      <4>1. d \in Ready(c[2]) /\ deliveries'[d] = ClaimedRow(deliveries[d])
        BY <2>2, <2>3, <3>1
      <4> QED BY <4>1, ReadyRows, ClaimedRows
    <3>2. CASE ~\E i \in DOMAIN s : s[i] = d
      BY <2>2, <3>2
    <3> QED BY <3>1, <3>2
  <2> QED
    BY <2>1, <2>4 DEF OutcomeOf
<1>4. ASSUME NEW c \in Consumer, HandlerReturns(c) PROVE Promise!Next
  <2>1. OutcomeOf(Current(c)) = "open" /\ Current(c) \in Delivery
    BY <1>4, CurrentIsRunning, OutcomeFacts DEF HandlerReturns
  <2>2. \A d \in Delivery : Same(d)
    BY <1>4 DEF HandlerReturns, tables, OutcomeOf
  <2>3. Promise!Perform(Current(c))
    BY <1>4, <2>1, <2>2 DEF HandlerReturns, Promise!Perform
  <2> QED
    BY <2>1, <2>3 DEF Promise!Next
<1>5. ASSUME NEW c \in Consumer, Ack(c) PROVE Promise!Next
  <2>1. PICK d \in Delivery :
          d = Current(c) /\ deliveries[d].status = "running" /\ d[1] \in log
    BY <1>5, CurrentIsRunning DEF Ack
  <2>2. d \in performed /\ log' = log /\ performed' = performed
    BY <1>5, <2>1 DEF Ack, AcksPerformed
  <2>3. OutcomeOf(d) = "open"
    BY <2>1, OutcomeFacts
  <2>4. OutcomeOf(d)' = "done"
    BY <1>5, <2>1, <2>2, AckSolo, OutcomeFactsNext
  <2>5. \A e \in Delivery \ {d} : deliveries'[e] = deliveries[e]
    BY <1>5, <2>1 DEF Ack
  <2>6. \A e \in Delivery \ {d} : Same(e)
    BY <2>2, <2>5 DEF OutcomeOf
  <2>7. Promise!Finish(d)
    BY <2>1, <2>2, <2>3, <2>4, <2>6 DEF Promise!Finish
  <2> QED
    BY <2>1, <2>7 DEF Promise!Next
<1>6. ASSUME NEW c \in Consumer, FailToRetry(c) PROVE Stutter
  <2>1. PICK d \in Delivery :
          d = Current(c) /\ deliveries[d].status = "running" /\ d[1] \in log
    BY <1>6, CurrentIsRunning DEF FailToRetry
  <2>2. log' = log /\ performed' = performed
    BY <1>6 DEF FailToRetry
  <2>3. OutcomeOf(d) = "open"
    BY <2>1, OutcomeFacts
  <2>4. OutcomeOf(d)' = "open"
    BY <1>6, <2>1, <2>2, FailToRetrySolo, OutcomeFactsNext
  <2>5. \A e \in Delivery \ {d} : deliveries'[e] = deliveries[e]
    BY <1>6, <2>1 DEF FailToRetry
  <2> QED
    BY <2>2, <2>3, <2>4, <2>5 DEF OutcomeOf
<1>7. ASSUME NEW c \in Consumer, FailToDeadLetter(c) PROVE Promise!Next
  <2>1. PICK d \in Delivery :
          d = Current(c) /\ deliveries[d].status = "running" /\ d[1] \in log
    BY <1>7, CurrentIsRunning DEF FailToDeadLetter
  <2>2. log' = log /\ performed' = performed
    BY <1>7 DEF FailToDeadLetter
  <2>3. OutcomeOf(d) = "open"
    BY <2>1, OutcomeFacts
  <2>4. OutcomeOf(d)' = "dead"
    BY <1>7, <2>1, <2>2, FailToDeadLetterSolo, OutcomeFactsNext
  <2>5. \A e \in Delivery \ {d} : deliveries'[e] = deliveries[e]
    BY <1>7, <2>1 DEF FailToDeadLetter
  <2>6. \A e \in Delivery \ {d} : Same(e)
    BY <2>2, <2>5 DEF OutcomeOf
  <2>7. Promise!Abandon(d)
    BY <2>1, <2>2, <2>3, <2>4, <2>6 DEF Promise!Abandon
  <2> QED
    BY <2>1, <2>7 DEF Promise!Next
<1>8. ASSUME NEW c \in Consumer, FailMissing(c) PROVE FALSE
  BY <1>8, CurrentIsRunning DEF FailMissing
<1>9. ASSUME NEW p \in Daemon, Crash(p) PROVE Stutter
  BY <1>9 DEF Crash, tables, OutcomeOf
<1>10. ASSUME Cleanup PROVE Stutter
  <2>1. log' = log /\ performed' = performed
    BY <1>10 DEF Cleanup
  <2>2. \A d \in Delivery : \/ deliveries'[d] = deliveries[d]
                            \/ /\ deliveries[d].status = "acked"
                               /\ deliveries'[d].status = "none"
    BY <1>10 DEF Cleanup, IsExpendable, NoRow
  <2> QED
    BY <2>1, <2>2 DEF OutcomeOf
<1>11. ASSUME Tick PROVE Stutter
  BY <1>11 DEF Tick, tables, OutcomeOf
<1>12. ASSUME UNCHANGED vars PROVE Stutter
  BY <1>12 DEF vars, OutcomeOf
<1> QED
  BY <1>0, <1>1, <1>2, <1>3, <1>4, <1>5, <1>6, <1>7, <1>8, <1>9, <1>10, <1>11, <1>12 DEF Next

(* One daemon implements the promise: every step of the hub opens the deliveries of one  *)
(* message, performs, finishes or abandons one that is open, or changes no outcome.      *)
THEOREM HubKeepsPromise ==
  ASSUME OneDaemon
  PROVE  Spec => ImplementsPromise
<1>1. Init => Promise!Init
  BY PromiseInit
<1>2. SoloInv /\ SoloInv' /\ [Next]_vars => [Promise!Next]_(Promise!vars)
  BY PromiseStep
<1> QED
  BY <1>1, <1>2, SoloInvariant, PTL DEF Spec, ImplementsPromise, Promise!Spec

=============================================================================
