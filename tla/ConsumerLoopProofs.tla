------------------------- MODULE ConsumerLoopProofs -------------------------
(***************************************************************************)
(* Proofs about ConsumerLoop for any groups, messages and routes: what the *)
(* notifier remembers of the loops is true of them, however they are woken *)
(* and whenever the daemon stops, dies or is started again.                *)
(***************************************************************************)
EXTENDS ConsumerLoop, TLAPS

(* A loop holds rows of its own group only. *)
HeldOK ==
  /\ held \in [Group -> SUBSET Delivery]
  /\ \A g \in Group : \A d \in held[g] : d[2] = g

LoopInv ==
  /\ row \in [Delivery -> RowState] /\ attempts \in [Delivery -> Nat]
  /\ loop \in [Group -> LoopState]
  /\ HeldOK
  /\ waiters \subseteq Group /\ timers \subseteq Group /\ listeners \subseteq Group
  /\ aborted \in BOOLEAN /\ restarts \in 0..MaxRestarts
  /\ NotifierMatchesLoops

(* waiter.resolve takes a loop from the map, and its timer and listener, as it wakes it. *)
LEMMA ResolveEffect ==
  ASSUME LoopInv, NEW G, Resolve(G)
  PROVE  /\ loop' \in [Group -> LoopState]
         /\ waiters' \subseteq Group /\ timers' \subseteq Group /\ listeners' \subseteq Group
         /\ NotifierMatchesLoops'
<1> DEFINE woken == waiters \cap G
<1>1. /\ waiters' = waiters \ woken /\ timers' = timers \ woken /\ listeners' = listeners \ woken
      /\ loop' = [g \in Group |-> IF g \in woken THEN "claim" ELSE loop[g]]
  BY DEF Resolve
<1>2. loop' \in [Group -> LoopState]
  BY <1>1 DEF LoopInv, LoopState
<1>3. \A g \in Group : loop'[g] = IF g \in woken THEN "claim" ELSE loop[g]
  BY <1>1
<1>4. NotifierMatchesLoops'
  BY <1>1, <1>3 DEF LoopInv, NotifierMatchesLoops
<1> QED BY <1>1, <1>2, <1>4 DEF LoopInv

(* One loop goes from a place where it does not sleep to another. *)
LEMMA LoopGoesOn ==
  ASSUME LoopInv, NEW g \in Group, NEW s \in LoopState \ {"waiting"}, loop[g] # "waiting",
         loop' = [loop EXCEPT ![g] = s], UNCHANGED <<waiters, timers, listeners>>
  PROVE  /\ loop' \in [Group -> LoopState]
         /\ waiters' \subseteq Group /\ timers' \subseteq Group /\ listeners' \subseteq Group
         /\ NotifierMatchesLoops'
BY DEF LoopInv, NotifierMatchesLoops

LEMMA LoopInvInit ==
  ASSUME Init
  PROVE  LoopInv
<1>1. row \in [Delivery -> RowState] /\ attempts \in [Delivery -> Nat] /\ loop \in [Group -> LoopState]
  BY DEF Init, RowState, LoopState
<1>2. HeldOK /\ NotifierMatchesLoops
  BY DEF Init, HeldOK, NotifierMatchesLoops
<1>3. waiters \subseteq Group /\ timers \subseteq Group /\ listeners \subseteq Group /\ aborted \in BOOLEAN
  BY DEF Init
<1>4. restarts \in 0..MaxRestarts
  BY LimitsAssumption DEF Init
<1> QED BY <1>1, <1>2, <1>3, <1>4 DEF LoopInv

LEMMA LoopInvStep ==
  ASSUME LoopInv, [Next]_vars
  PROVE  LoopInv'
<1>0. /\ row \in [Delivery -> RowState] /\ attempts \in [Delivery -> Nat]
      /\ loop \in [Group -> LoopState] /\ HeldOK
      /\ aborted \in BOOLEAN /\ restarts \in 0..MaxRestarts /\ MaxRestarts \in Nat
      /\ NotifierMatchesLoops
  BY LimitsAssumption DEF LoopInv
<1>1. ASSUME NEW m \in Message, AppendAndWake(m) \/ AppendElsewhere(m)
      PROVE  LoopInv'
  <2>1. row' \in [Delivery -> RowState]
    BY <1>0, <1>1 DEF AppendAndWake, AppendElsewhere, Insert, RowState
  <2>2. CASE AppendAndWake(m)
    <3>1. /\ loop' \in [Group -> LoopState] /\ waiters' \subseteq Group
          /\ timers' \subseteq Group /\ listeners' \subseteq Group
          /\ NotifierMatchesLoops'
      BY <2>2, ResolveEffect DEF AppendAndWake
    <3> QED BY <1>0, <2>1, <2>2, <3>1 DEF AppendAndWake, LoopInv, HeldOK
  <2>3. CASE AppendElsewhere(m)
    BY <2>1, <2>3 DEF AppendElsewhere, LoopInv, HeldOK, NotifierMatchesLoops
  <2> QED BY <1>1, <2>2, <2>3
<1>2. ASSUME NEW g \in Group, Timeout(g)
      PROVE  LoopInv'
  <2>1. /\ loop' \in [Group -> LoopState] /\ waiters' \subseteq Group
        /\ timers' \subseteq Group /\ listeners' \subseteq Group
        /\ NotifierMatchesLoops'
    BY <1>2, ResolveEffect DEF Timeout
  <2> QED BY <1>0, <1>2, <2>1 DEF Timeout, LoopInv, HeldOK
<1>3. CASE Abort
  <2>1. /\ loop' \in [Group -> LoopState] /\ waiters' \subseteq Group
        /\ timers' \subseteq Group /\ listeners' \subseteq Group
        /\ NotifierMatchesLoops'
    BY <1>3, ResolveEffect DEF Abort
  <2>2. restarts' \in 0..MaxRestarts
    BY <1>0, <1>3 DEF Abort
  <2> QED BY <1>0, <1>3, <2>1, <2>2 DEF Abort, LoopInv, HeldOK
<1>4. ASSUME NEW g \in Group, Claim(g)
      PROVE  LoopInv'
  <2>1. PICK B \in SUBSET Claimable(g) :
          /\ held' = [held EXCEPT ![g] = B]
          /\ row' = [d \in Delivery |-> IF d \in B THEN "running" ELSE row[d]]
          /\ attempts' = [d \in Delivery |-> IF d \in B THEN attempts[d] + 1 ELSE attempts[d]]
    BY <1>4 DEF Claim
  <2>2. HeldOK'
    <3>1. B \subseteq Delivery /\ \A d \in B : d[2] = g
      BY DEF Claimable
    <3> QED BY <1>0, <2>1, <3>1 DEF HeldOK
  <2>3. row' \in [Delivery -> RowState] /\ attempts' \in [Delivery -> Nat]
    BY <1>0, <2>1 DEF RowState
  <2>4. /\ loop' \in [Group -> LoopState] /\ waiters' \subseteq Group
        /\ timers' \subseteq Group /\ listeners' \subseteq Group
        /\ NotifierMatchesLoops'
    BY <1>4, LoopGoesOn DEF Claim, LoopState
  <2> QED BY <1>0, <1>4, <2>2, <2>3, <2>4 DEF Claim, LoopInv
<1>5. ASSUME NEW g \in Group, ClaimNothing(g) \/ WaitAborted(g) \/ Stop(g)
      PROVE  LoopInv'
  <2>1. /\ loop' \in [Group -> LoopState] /\ waiters' \subseteq Group
        /\ timers' \subseteq Group /\ listeners' \subseteq Group
        /\ NotifierMatchesLoops'
    BY <1>5, LoopGoesOn DEF ClaimNothing, WaitAborted, Stop, LoopState
  <2> QED BY <1>0, <1>5, <2>1 DEF ClaimNothing, WaitAborted, Stop, LoopInv, HeldOK
<1>6. ASSUME NEW g \in Group, Wait(g)
      PROVE  LoopInv'
  <2>1. loop' \in [Group -> LoopState] /\ \A f \in Group : loop'[f] = IF f = g THEN "waiting" ELSE loop[f]
    BY <1>0, <1>6 DEF Wait, LoopState
  <2>2. NotifierMatchesLoops'
    BY <1>0, <1>6, <2>1 DEF Wait, NotifierMatchesLoops
  <2> QED BY <1>0, <1>6, <2>1, <2>2 DEF Wait, LoopInv, HeldOK
<1>7. ASSUME NEW g \in Group, Settle(g)
      PROVE  LoopInv'
  <2>1. PICK d \in Delivery, s \in {"acked", "cooling", "dead_letter"} : SettleAs(g, d, s)
    BY <1>7 DEF Settle, Ack, FailToRetry, FailToDeadLetter
  <2>2. /\ row' = [row EXCEPT ![d] = s] /\ held' = [held EXCEPT ![g] = held[g] \ {d}]
        /\ UNCHANGED <<attempts, aborted, restarts, waiters, timers, listeners>>
    BY <2>1 DEF SettleAs
  <2>3. row' \in [Delivery -> RowState]
    BY <1>0, <2>2 DEF RowState
  <2>4. HeldOK'
    BY <1>0, <2>2 DEF HeldOK
  <2>5. /\ loop' \in [Group -> LoopState] /\ waiters' \subseteq Group
        /\ timers' \subseteq Group /\ listeners' \subseteq Group
        /\ NotifierMatchesLoops'
    <3>1. PICK p \in {"claim", "handle"} : loop' = [loop EXCEPT ![g] = p] /\ loop[g] = "handle"
      BY <2>1 DEF SettleAs
    <3> QED BY <2>2, <3>1, LoopGoesOn DEF LoopState
  <2> QED BY <1>0, <2>2, <2>3, <2>4, <2>5 DEF LoopInv
<1>8. ASSUME NEW d \in Delivery, BecomeDue(d) \/ Lapse(d)
      PROVE  LoopInv'
  <2>1. row' \in [Delivery -> RowState]
    BY <1>0, <1>8 DEF BecomeDue, Lapse, RowState
  <2> QED BY <1>8, <2>1 DEF BecomeDue, Lapse, LoopInv, HeldOK, NotifierMatchesLoops
<1>9. CASE Crash
  <2>1. restarts' \in 0..MaxRestarts
    BY <1>0, <1>9 DEF Crash
  <2> QED BY <1>0, <1>9, <2>1 DEF Crash, LoopInv, HeldOK, NotifierMatchesLoops, LoopState
(* Loops that have returned, or are down, left nothing with the notifier. *)
<1>10. CASE Start
  <2>1. waiters = {} /\ timers = {} /\ listeners = {}
    BY <1>10 DEF Start, Alive, LoopInv, NotifierMatchesLoops
  <2>2. /\ loop' \in [Group -> LoopState] /\ \A g \in Group : loop'[g] = "claim"
    BY <1>10 DEF Start, LoopState
  <2>3. NotifierMatchesLoops'
    BY <1>10, <2>1, <2>2 DEF Start, NotifierMatchesLoops
  <2> QED BY <1>0, <1>10, <2>1, <2>2, <2>3 DEF Start, LoopInv, HeldOK
<1>11. CASE UNCHANGED vars
  BY <1>11 DEF vars, LoopInv, HeldOK, NotifierMatchesLoops
<1> QED
  BY <1>1, <1>2, <1>3, <1>4, <1>5, <1>6, <1>7, <1>8, <1>9, <1>10, <1>11 DEF Next, LoopStep

LEMMA LoopInvHolds == Spec => []LoopInv
<1>1. Init => LoopInv
  BY LoopInvInit
<1>2. LoopInv /\ [Next]_vars => LoopInv'
  BY LoopInvStep
<1> QED BY <1>1, <1>2, PTL DEF Spec

-----------------------------------------------------------------------------
(* Every delivery and loop has its type, and a loop holds rows of its own group only.     *)
THEOREM LoopTypes == Spec => []TypeOK
<1>1. LoopInv => TypeOK
  BY DEF LoopInv, TypeOK, HeldOK
<1> QED BY <1>1, LoopInvHolds, PTL

(* A loop is in the notifier's map, with its timer and its listener, just while it sleeps, *)
(* for any number of groups and in any order of appends, timers, aborts, crashes, starts.  *)
THEOREM NotifierIsTrue == Spec => []NotifierMatchesLoops
<1>1. LoopInv => NotifierMatchesLoops
  BY DEF LoopInv
<1> QED BY <1>1, LoopInvHolds, PTL
=============================================================================
