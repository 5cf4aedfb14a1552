------------------------ MODULE TaskLifecycleProofs ------------------------
(***************************************************************************)
(* Proofs about TaskLifecycle for any tasks, priorities, outcomes, batch   *)
(* sizes and bounds.                                                       *)
(***************************************************************************)
EXTENDS TaskLifecycle, FiniteSetTheorems, SequenceTheorems, TLAPS

Row == [state : RowState, at : Nat, attempts : Nat]

(* The log is a sequence, of whatever its messages are, and every group has a row of each *)
(* message; the loop of a group holds rows that are running, each once.                   *)
BoxOK ==
  /\ box \in [Group -> Seq(Row)]
  /\ \A g \in Group : Len(box[g]) = Len(log)

BatchOK ==
  /\ batch \in [Group -> Seq(DOMAIN log)]
  /\ \A g \in Group : \A n \in DOMAIN batch[g] :
       /\ box[g][batch[g][n]].state = "running"
       /\ \A m \in DOMAIN batch[g] : n # m => batch[g][n] # batch[g][m]

HubOK == BoxOK /\ BatchOK

-----------------------------------------------------------------------------
(* Sequences *)

LEMMA FunctionIsSequence ==
  ASSUME NEW S, NEW n \in Nat, NEW f \in [1..n -> S]
  PROVE  f \in Seq(S) /\ Len(f) = n /\ DOMAIN f = 1..n
OBVIOUS

LEMMA IsIndexed ==
  ASSUME NEW S, NEW q \in Seq(S)
  PROVE  /\ Len(q) \in Nat
         /\ DOMAIN q = 1..Len(q)
         /\ \A n \in DOMAIN q : q[n] \in S
OBVIOUS

LEMMA EntryChanges ==
  ASSUME NEW S, NEW q \in Seq(S), NEW i \in DOMAIN q, NEW e \in S
  PROVE  /\ [q EXCEPT ![i] = e] \in Seq(S)
         /\ Len([q EXCEPT ![i] = e]) = Len(q)
         /\ DOMAIN [q EXCEPT ![i] = e] = DOMAIN q
         /\ \A k \in DOMAIN q : [q EXCEPT ![i] = e][k] = IF k = i THEN e ELSE q[k]
<1>1. Len(q) \in Nat /\ DOMAIN q = 1..Len(q)
  OBVIOUS
<1>2. [q EXCEPT ![i] = e] \in Seq(S) /\ Len([q EXCEPT ![i] = e]) = Len(q)
  BY <1>1, ExceptSeq
<1> QED BY <1>1, <1>2

LEMMA Appended ==
  ASSUME NEW S, NEW q \in Seq(S), NEW e \in S
  PROVE  /\ Append(q, e) \in Seq(S)
         /\ Len(Append(q, e)) = Len(q) + 1
         /\ DOMAIN Append(q, e) = DOMAIN q \cup {Len(q) + 1}
         /\ \A n \in DOMAIN q : n # Len(q) + 1 /\ Append(q, e)[n] = q[n]
         /\ Append(q, e)[Len(q) + 1] = e
<1>1. Len(q) \in Nat /\ DOMAIN q = 1..Len(q)
  OBVIOUS
<1>2. Append(q, e) \in Seq(S) /\ Len(Append(q, e)) = Len(q) + 1
  BY AppendProperties
<1>3. \A n \in 1..Len(q) : Append(q, e)[n] = q[n]
  BY AppendProperties
<1>4. Append(q, e)[Len(q) + 1] = e
  BY AppendProperties
<1> QED BY <1>1, <1>2, <1>3, <1>4

(* What is left of a sequence without its head. *)
LEMMA TailFacts ==
  ASSUME NEW S, NEW q \in Seq(S), q # <<>>
  PROVE  /\ Head(q) = q[1] /\ 1 \in DOMAIN q /\ Head(q) \in S
         /\ Tail(q) \in Seq(S)
         /\ \A n \in DOMAIN Tail(q) : n + 1 \in DOMAIN q /\ n + 1 # 1 /\ Tail(q)[n] = q[n + 1]
OBVIOUS

LEMMA WiderSequence ==
  ASSUME NEW S, NEW T, S \subseteq T, NEW q \in Seq(S)
  PROVE  q \in Seq(T)
BY SeqMonotonic

-----------------------------------------------------------------------------
(* The event hub *)

LEMMA BoxFacts ==
  ASSUME BoxOK, NEW S, log \in Seq(S), NEW g \in Group
  PROVE  /\ Len(log) \in Nat /\ DOMAIN log = 1..Len(log)
         /\ DOMAIN box[g] = DOMAIN log
         /\ box[g] \in [1..Len(log) -> Row]
         /\ \A i \in DOMAIN log : box[g][i] \in Row
<1>1. box[g] \in Seq(Row) /\ Len(box[g]) = Len(log)
  BY DEF BoxOK
<1>2. Len(log) \in Nat /\ DOMAIN log = 1..Len(log)
  BY IsIndexed
<1> QED BY <1>1, <1>2, LenProperties

LEMMA LogForEffect ==
  ASSUME HubOK, NEW S, log \in Seq(S), NEW m \in S, NEW R, LogFor(m, R), UNCHANGED batch
  PROVE  /\ log' \in Seq(S) /\ Len(log') = Len(log) + 1
         /\ DOMAIN log' = DOMAIN log \cup {Len(log) + 1}
         /\ \A i \in DOMAIN log : i # Len(log) + 1 /\ log'[i] = log[i]
         /\ log'[Len(log) + 1] = m
         /\ \A g \in Group :
              /\ \A i \in DOMAIN log : box'[g][i] = box[g][i]
              /\ box'[g][Len(log) + 1].state = IF g \in R THEN "due" ELSE "none"
              /\ box'[g][Len(log) + 1].at = Len(log) + 1
         /\ HubOK'
<1> DEFINE new(g) == [state |-> IF g \in R THEN "due" ELSE "none", at |-> Len(log) + 1, attempts |-> 0]
<1>1. /\ log' = Append(log, m)
      /\ \A g \in Group : box'[g] = Append(box[g], new(g))
      /\ DOMAIN box' = Group
  BY DEF LogFor
<1>2. /\ log' \in Seq(S) /\ Len(log') = Len(log) + 1
      /\ DOMAIN log' = DOMAIN log \cup {Len(log) + 1}
      /\ \A i \in DOMAIN log : i # Len(log) + 1 /\ log'[i] = log[i]
      /\ log'[Len(log) + 1] = m
  BY <1>1, Appended
<1>3. ASSUME NEW g \in Group
      PROVE  /\ box'[g] \in Seq(Row) /\ Len(box'[g]) = Len(log')
             /\ \A i \in DOMAIN log : box'[g][i] = box[g][i]
             /\ box'[g][Len(log) + 1] = new(g)
  <2>1. new(g) \in Row
    <3>1. Len(log) + 1 \in Nat
      BY BoxFacts DEF HubOK
    <3>2. (IF g \in R THEN "due" ELSE "none") \in RowState
      BY DEF RowState
    <3> QED BY <3>1, <3>2 DEF Row
  <2>2. box[g] \in Seq(Row) /\ Len(box[g]) = Len(log) /\ DOMAIN box[g] = DOMAIN log
    BY BoxFacts DEF HubOK, BoxOK
  <2>3. PICK r \in Row : r = new(g)
    BY <2>1
  <2> HIDE DEF new
  <2>4. box'[g] = Append(box[g], r)
    BY <1>1, <2>3
  <2>5. /\ box'[g] \in Seq(Row) /\ Len(box'[g]) = Len(box[g]) + 1
        /\ \A i \in DOMAIN box[g] : box'[g][i] = box[g][i]
        /\ box'[g][Len(box[g]) + 1] = r
    BY <2>2, <2>4, Appended
  <2> QED BY <1>2, <2>2, <2>3, <2>5
<1>4. BoxOK'
  <2>1. box' = [g \in Group |-> box'[g]]
    BY DEF LogFor
  <2>2. box' \in [Group -> Seq(Row)]
    BY <1>3, <2>1
  <2> QED BY <1>3, <2>2 DEF BoxOK
<1>5. BatchOK'
  <2>1. ASSUME NEW g \in Group
        PROVE  /\ batch'[g] = batch[g] /\ batch'[g] \in Seq(DOMAIN log')
               /\ \A n \in DOMAIN batch[g] : batch[g][n] \in DOMAIN log
    <3>1. batch[g] \in Seq(DOMAIN log)
      BY DEF HubOK, BatchOK
    <3>2. DOMAIN log \subseteq DOMAIN log'
      BY <1>2
    <3> QED BY <3>1, <3>2, WiderSequence, IsIndexed
  <2>2. batch' \in [Group -> Seq(DOMAIN log')]
    BY <2>1 DEF HubOK, BatchOK
  <2>3. ASSUME NEW g \in Group, NEW n \in DOMAIN batch'[g]
        PROVE  /\ box'[g][batch'[g][n]].state = "running"
               /\ \A k \in DOMAIN batch'[g] : n # k => batch'[g][n] # batch'[g][k]
    <3>1. batch'[g] = batch[g] /\ n \in DOMAIN batch[g] /\ batch[g][n] \in DOMAIN log
      BY <2>1, <2>3
    <3>2. /\ box[g][batch[g][n]].state = "running"
          /\ \A k \in DOMAIN batch[g] : n # k => batch[g][n] # batch[g][k]
      BY <3>1 DEF HubOK, BatchOK
    <3>3. box'[g][batch[g][n]] = box[g][batch[g][n]]
      BY <3>1, <1>3
    <3> QED BY <3>1, <3>2, <3>3
  <2> QED BY <2>2, <2>3 DEF BatchOK
<1>6. \A g \in Group : new(g).state = (IF g \in R THEN "due" ELSE "none") /\ new(g).at = Len(log) + 1
  OBVIOUS
<1> HIDE DEF new
<1> QED BY <1>2, <1>3, <1>4, <1>5, <1>6 DEF HubOK

LEMMA ClaimEffect ==
  ASSUME HubOK, NEW S, log \in Seq(S), NEW g \in Group, ClaimBatch(g)
  PROVE  /\ UNCHANGED log
         /\ batch[g] = <<>> /\ batch'[g] # <<>>
         /\ batch'[g] \in NextBatch(g)
         /\ \A h \in Group \ {g} : batch'[h] = batch[h] /\ box'[h] = box[h]
         /\ \A i \in DOMAIN log :
              \/ box'[g][i] = box[g][i] /\ \A n \in DOMAIN batch'[g] : batch'[g][n] # i
              \/ /\ box[g][i].state = "due" /\ box'[g][i].state = "running"
                 /\ box'[g][i].at = box[g][i].at
                 /\ \E n \in DOMAIN batch'[g] : batch'[g][n] = i
         /\ HubOK'
<1> DEFINE claimed(B) == [i \in DOMAIN log |->
                           IF \E n \in DOMAIN B : B[n] = i
                             THEN [box[g][i] EXCEPT !.state = "running", !.attempts = @ + 1]
                             ELSE box[g][i]]
<1>1. PICK B \in NextBatch(g) :
        /\ batch' = [batch EXCEPT ![g] = B]
        /\ box' = [box EXCEPT ![g] =
                     [i \in DOMAIN log |->
                        IF \E n \in DOMAIN B : B[n] = i
                          THEN [box[g][i] EXCEPT !.state = "running", !.attempts = @ + 1]
                          ELSE box[g][i]]]
  BY DEF ClaimBatch
<1>2. /\ batch[g] = <<>> /\ Due(g) # {} /\ UNCHANGED log
      /\ DOMAIN batch = Group /\ DOMAIN box = Group
  BY DEF ClaimBatch, HubOK, BoxOK, BatchOK
<1>3. Due(g) \subseteq DOMAIN log /\ \A i \in Due(g) : box[g][i].state = "due"
  BY DEF Due
<1>4. PICK k \in Nat \ {0} : k = Min({BatchSize[g], Cardinality(Due(g))})
  <2>1. IsFiniteSet(Due(g))
    <3>1. Len(log) \in Nat /\ DOMAIN log = 1..Len(log)
      BY IsIndexed
    <3>2. IsFiniteSet(1..Len(log))
      BY <3>1, FS_Interval
    <3> QED BY <1>3, <3>1, <3>2, FS_Subset
  <2>2. Cardinality(Due(g)) \in Nat \ {0}
    BY <2>1, <1>2, FS_CardinalityType, FS_EmptySet
  <2>3. BatchSize[g] \in Nat \ {0}
    BY HubAssumption
  <2> QED BY <2>2, <2>3 DEF Min
<1>5. /\ B \in [1..k -> Due(g)] /\ DOMAIN B = 1..k
      /\ \A n \in 1..k : B[n] \notin {B[m] : m \in 1..(n - 1)}
  BY <1>4 DEF NextBatch
<1>6. \A n, m \in 1..k : n # m => B[n] # B[m]
  <2>1. \A n, m \in 1..k : m < n => B[n] # B[m]
    <3>1. \A n, m \in 1..k : m < n => m \in 1..(n - 1)
      OBVIOUS
    <3> QED BY <1>5, <3>1
  <2> QED BY <2>1
<1>7. B \in Seq(DOMAIN log) /\ B # <<>>
  <2>1. B \in [1..k -> DOMAIN log]
    BY <1>3, <1>5
  <2> QED BY <2>1, FunctionIsSequence
<1>8. /\ batch'[g] = B /\ \A h \in Group \ {g} : batch'[h] = batch[h] /\ box'[h] = box[h]
      /\ box'[g] = claimed(B) /\ DOMAIN batch' = Group /\ DOMAIN box' = Group
  <2>1. box'[g] = claimed(B)
    BY <1>1, <1>2, Zenon
  <2>2. /\ \A h \in Group \ {g} : box'[h] = box[h]
        /\ DOMAIN box' = Group
    BY <1>1, <1>2, Zenon
  <2>3. batch'[g] = B /\ DOMAIN batch' = Group /\ \A h \in Group \ {g} : batch'[h] = batch[h]
    BY <1>1, <1>2, Zenon
  <2> QED BY <2>1, <2>2, <2>3
<1>9. ASSUME NEW i \in DOMAIN log
      PROVE  /\ box'[g][i] \in Row
             /\ (\E n \in DOMAIN B : B[n] = i) =>
                  /\ box[g][i].state = "due" /\ box'[g][i].state = "running"
                  /\ box'[g][i].at = box[g][i].at
             /\ (\A n \in DOMAIN B : B[n] # i) => box'[g][i] = box[g][i]
  <2>1. box[g][i] \in Row
    BY BoxFacts DEF HubOK
  <2>2. box[g][i].attempts + 1 \in Nat
    BY <2>1 DEF Row
  <2>3. PICK n : n = box[g][i].attempts + 1
    OBVIOUS
  <2>4. /\ [box[g][i] EXCEPT !.state = "running", !.attempts = n] \in Row
        /\ [box[g][i] EXCEPT !.state = "running", !.attempts = n].state = "running"
        /\ [box[g][i] EXCEPT !.state = "running", !.attempts = n].at = box[g][i].at
    BY <2>1, <2>2, <2>3 DEF Row, RowState
  <2>5. box'[g][i] = IF \E j \in DOMAIN B : B[j] = i
                       THEN [box[g][i] EXCEPT !.state = "running", !.attempts = n]
                       ELSE box[g][i]
    BY <1>8, <2>3
  <2>6. \A j \in DOMAIN B : B[j] = i => box[g][i].state = "due"
    BY <1>3, <1>5
  <2> QED BY <2>1, <2>4, <2>5, <2>6
<1>10. BoxOK'
  <2>1. box'[g] \in Seq(Row) /\ Len(box'[g]) = Len(log')
    <3>1. Len(log) \in Nat /\ DOMAIN log = 1..Len(log)
      BY BoxFacts DEF HubOK
    <3>2. box'[g] \in [1..Len(log) -> Row]
      BY <1>8, <1>9, <3>1
    <3> QED BY <3>1, <3>2, <1>2, FunctionIsSequence
  <2>2. box' \in [Group -> Seq(Row)]
    <3>1. box' = [box EXCEPT ![g] = box'[g]]
      BY <1>1, <1>2
    <3> QED BY <2>1, <3>1, <1>8 DEF HubOK, BoxOK
  <2> QED BY <2>1, <2>2, <1>2, <1>8 DEF HubOK, BoxOK
<1>11. BatchOK'
  <2>1. batch' \in [Group -> Seq(DOMAIN log')]
    BY <1>1, <1>2, <1>7 DEF HubOK, BatchOK
  <2>2. ASSUME NEW n \in DOMAIN B
        PROVE  box'[g][B[n]].state = "running" /\ \A m \in DOMAIN B : n # m => B[n] # B[m]
    BY <1>3, <1>5, <1>6, <1>9
  <2>3. ASSUME NEW h \in Group, NEW n \in DOMAIN batch'[h]
        PROVE  /\ box'[h][batch'[h][n]].state = "running"
               /\ \A m \in DOMAIN batch'[h] : n # m => batch'[h][n] # batch'[h][m]
    <3>1. CASE h = g
      BY <3>1, <2>2, <2>3, <1>8
    <3>2. CASE h # g
      <4>1. batch'[h] = batch[h] /\ box'[h] = box[h]
        BY <3>2, <1>8
      <4> QED BY <4>1, <2>3 DEF HubOK, BatchOK
    <3> QED BY <3>1, <3>2
  <2> QED BY <2>1, <2>3 DEF BatchOK
<1>12. \A i \in DOMAIN log :
         \/ box'[g][i] = box[g][i] /\ \A n \in DOMAIN B : B[n] # i
         \/ /\ box[g][i].state = "due" /\ box'[g][i].state = "running"
            /\ box'[g][i].at = box[g][i].at
            /\ \E n \in DOMAIN B : B[n] = i
  BY <1>9
<1> HIDE DEF claimed
<1> QED BY <1>2, <1>7, <1>8, <1>10, <1>11, <1>12 DEF HubOK

LEMMA SettleEffect ==
  ASSUME HubOK, NEW S, log \in Seq(S), NEW g \in Group, batch[g] # <<>>, NEW s \in RowState,
         Settle(g, s)
  PROVE  /\ UNCHANGED log
         /\ Head(batch[g]) \in DOMAIN log /\ box[g][Head(batch[g])].state = "running"
         /\ batch'[g] = Tail(batch[g])
         /\ \A h \in Group \ {g} : batch'[h] = batch[h] /\ box'[h] = box[h]
         /\ box'[g][Head(batch[g])] = [box[g][Head(batch[g])] EXCEPT !.state = s]
         /\ box'[g][Head(batch[g])].state = s
         /\ \A i \in DOMAIN log : i # Head(batch[g]) => box'[g][i] = box[g][i]
         /\ HubOK'
<1> DEFINE i == Head(batch[g])
<1>1. /\ box' = [box EXCEPT ![g] = [box[g] EXCEPT ![i] = [box[g][i] EXCEPT !.state = s]]]
      /\ batch' = [batch EXCEPT ![g] = Tail(batch[g])]
      /\ UNCHANGED log
  BY DEF Settle
<1>2. DOMAIN box = Group /\ DOMAIN batch = Group /\ batch[g] \in Seq(DOMAIN log)
  BY DEF HubOK, BoxOK, BatchOK
<1>3. /\ i = batch[g][1] /\ 1 \in DOMAIN batch[g] /\ i \in DOMAIN log
      /\ Tail(batch[g]) \in Seq(DOMAIN log)
      /\ \A n \in DOMAIN Tail(batch[g]) :
           n + 1 \in DOMAIN batch[g] /\ n + 1 # 1 /\ Tail(batch[g])[n] = batch[g][n + 1]
  BY <1>2, TailFacts
<1>4. box[g][i] \in Row /\ box[g] \in Seq(Row) /\ DOMAIN box[g] = DOMAIN log
  BY <1>3, BoxFacts DEF HubOK, BoxOK
<1>5. /\ [box[g][i] EXCEPT !.state = s] \in Row
      /\ [box[g][i] EXCEPT !.state = s].state = s
  BY <1>4 DEF Row
<1>6. /\ box'[g] = [box[g] EXCEPT ![i] = [box[g][i] EXCEPT !.state = s]]
      /\ batch'[g] = Tail(batch[g])
      /\ \A h \in Group \ {g} : batch'[h] = batch[h] /\ box'[h] = box[h]
      /\ DOMAIN box' = Group
  BY <1>1, <1>2
<1> HIDE DEF i
<1>7. /\ box'[g] \in Seq(Row) /\ Len(box'[g]) = Len(box[g])
      /\ \A k \in DOMAIN log : box'[g][k] = IF k = i THEN [box[g][i] EXCEPT !.state = s] ELSE box[g][k]
  BY <1>3, <1>4, <1>5, <1>6, EntryChanges
<1>8. BoxOK'
  BY <1>1, <1>6, <1>7 DEF HubOK, BoxOK
<1>9. BatchOK'
  <2>1. batch' \in [Group -> Seq(DOMAIN log')]
    BY <1>1, <1>2, <1>3 DEF HubOK, BatchOK
  <2>2. ASSUME NEW n \in DOMAIN Tail(batch[g])
        PROVE  /\ box'[g][Tail(batch[g])[n]].state = "running"
               /\ \A m \in DOMAIN Tail(batch[g]) : n # m => Tail(batch[g])[n] # Tail(batch[g])[m]
    <3>1. Tail(batch[g])[n] \in DOMAIN log /\ Tail(batch[g])[n] # i
      BY <1>2, <1>3, IsIndexed DEF HubOK, BatchOK
    <3>2. box[g][Tail(batch[g])[n]].state = "running"
      BY <1>3 DEF HubOK, BatchOK
    <3>3. \A m \in DOMAIN Tail(batch[g]) : n # m => n + 1 # m + 1
      BY <1>3, IsIndexed
    <3> QED BY <3>1, <3>2, <3>3, <1>3, <1>7 DEF HubOK, BatchOK
  <2>3. ASSUME NEW h \in Group, NEW n \in DOMAIN batch'[h]
        PROVE  /\ box'[h][batch'[h][n]].state = "running"
               /\ \A m \in DOMAIN batch'[h] : n # m => batch'[h][n] # batch'[h][m]
    <3>1. CASE h = g
      BY <3>1, <2>2, <2>3, <1>6
    <3>2. CASE h # g
      <4>1. batch'[h] = batch[h] /\ box'[h] = box[h]
        BY <3>2, <1>6
      <4> QED BY <4>1, <2>3 DEF HubOK, BatchOK
    <3> QED BY <3>1, <3>2
  <2> QED BY <2>1, <2>3 DEF BatchOK
<1>10. box[g][i].state = "running"
  BY <1>3 DEF HubOK, BatchOK
<1> QED BY <1>1, <1>3, <1>5, <1>6, <1>7, <1>8, <1>9, <1>10 DEF HubOK, i

(* A row that is not running changes state or place: no loop holds it. *)
LEMMA RowChanges ==
  ASSUME HubOK, NEW S, log \in Seq(S), NEW g \in Group, NEW i \in DOMAIN log,
         NEW r \in Row, box[g][i].state # "running",
         box' = [box EXCEPT ![g] = [box[g] EXCEPT ![i] = r]], UNCHANGED <<log, batch>>
  PROVE  /\ \A h \in Group \ {g} : box'[h] = box[h]
         /\ box'[g][i] = r
         /\ \A k \in DOMAIN log : k # i => box'[g][k] = box[g][k]
         /\ HubOK'
<1>1. DOMAIN box = Group /\ box[g] \in Seq(Row) /\ DOMAIN box[g] = DOMAIN log
  BY BoxFacts DEF HubOK, BoxOK
<1>2. /\ box'[g] = [box[g] EXCEPT ![i] = r] /\ DOMAIN box' = Group
      /\ \A h \in Group \ {g} : box'[h] = box[h]
  BY <1>1
<1>3. /\ box'[g] \in Seq(Row) /\ Len(box'[g]) = Len(box[g])
      /\ \A k \in DOMAIN log : box'[g][k] = IF k = i THEN r ELSE box[g][k]
  BY <1>1, <1>2, EntryChanges
<1>4. BoxOK'
  BY <1>2, <1>3 DEF HubOK, BoxOK
<1>5. ASSUME NEW h \in Group, NEW n \in DOMAIN batch'[h]
      PROVE  /\ box'[h][batch'[h][n]].state = "running"
             /\ \A m \in DOMAIN batch'[h] : n # m => batch'[h][n] # batch'[h][m]
  <2>1. /\ box[h][batch[h][n]].state = "running"
        /\ \A m \in DOMAIN batch[h] : n # m => batch[h][n] # batch[h][m]
    BY <1>5 DEF HubOK, BatchOK
  <2>2. batch[h][n] \in DOMAIN log
    BY <1>5, IsIndexed DEF HubOK, BatchOK
  <2>3. box'[h][batch[h][n]] = box[h][batch[h][n]]
    BY <2>1, <2>2, <1>2, <1>3
  <2> QED BY <2>1, <2>3
<1>6. BatchOK'
  BY <1>5 DEF HubOK, BatchOK
<1> QED BY <1>2, <1>3, <1>4, <1>6 DEF HubOK

LEMMA DelayEndsEffect ==
  ASSUME HubOK, NEW S, log \in Seq(S), NEW g \in Group, NEW i \in DOMAIN log, DelayEnds(g, i)
  PROVE  /\ UNCHANGED <<log, batch>>
         /\ box[g][i].state = "cooling"
         /\ \A h \in Group \ {g} : box'[h] = box[h]
         /\ box'[g][i].state = "due"
         /\ \A k \in DOMAIN log : k # i => box'[g][k] = box[g][k]
         /\ HubOK'
<1>1. box[g][i] \in Row /\ Len(log) + 1 \in Nat /\ DOMAIN box = Group
  BY BoxFacts DEF HubOK, BoxOK
<1>2. PICK n \in Nat : n = Len(log) + 1
  BY <1>1
<1>3. /\ [box[g][i] EXCEPT !.state = "due", !.at = n] \in Row
      /\ [box[g][i] EXCEPT !.state = "due", !.at = n].state = "due"
  BY <1>1 DEF Row, RowState
<1>4. PICK r \in Row : r = [box[g][i] EXCEPT !.state = "due", !.at = n]
  BY <1>3
<1>5. /\ box' = [box EXCEPT ![g] = [box[g] EXCEPT ![i] = r]]
      /\ UNCHANGED <<log, batch>> /\ box[g][i].state = "cooling"
  <2>1. /\ box' = [box EXCEPT ![g][i].state = "due", ![g][i].at = n]
        /\ UNCHANGED <<log, batch>> /\ box[g][i].state = "cooling"
    BY <1>2 DEF DelayEnds
  <2>2. box[g] \in [DOMAIN log -> Row] /\ DOMAIN box[g] = DOMAIN log
    BY BoxFacts DEF HubOK
  <2> QED BY <2>1, <2>2, <1>1, <1>4
<1>6. box[g][i].state # "running"
  BY <1>5
<1>7. /\ \A h \in Group \ {g} : box'[h] = box[h]
      /\ box'[g][i] = r
      /\ \A j \in DOMAIN log : j # i => box'[g][j] = box[g][j]
      /\ HubOK'
  BY <1>5, <1>6, RowChanges
<1> QED BY <1>3, <1>4, <1>5, <1>7

LEMMA LeaseEndsEffect ==
  ASSUME HubOK, NEW S, log \in Seq(S), NEW g \in Group, NEW i \in DOMAIN log, LeaseEnds(g, i)
  PROVE  /\ UNCHANGED <<log, batch>>
         /\ box[g][i].state = "orphaned"
         /\ \A h \in Group \ {g} : box'[h] = box[h]
         /\ box'[g][i].state = "due"
         /\ \A k \in DOMAIN log : k # i => box'[g][k] = box[g][k]
         /\ HubOK'
<1>1. box[g][i] \in Row /\ DOMAIN box = Group
  BY BoxFacts DEF HubOK, BoxOK
<1>2. /\ [box[g][i] EXCEPT !.state = "due"] \in Row
      /\ [box[g][i] EXCEPT !.state = "due"].state = "due"
  BY <1>1 DEF Row, RowState
<1>3. PICK r \in Row : r = [box[g][i] EXCEPT !.state = "due"]
  BY <1>2
<1>4. /\ box' = [box EXCEPT ![g] = [box[g] EXCEPT ![i] = r]]
      /\ UNCHANGED <<log, batch>> /\ box[g][i].state = "orphaned"
  BY <1>3 DEF LeaseEnds
<1>5. box[g][i].state # "running"
  BY <1>4
<1>6. /\ \A h \in Group \ {g} : box'[h] = box[h]
      /\ box'[g][i] = r
      /\ \A j \in DOMAIN log : j # i => box'[g][j] = box[g][j]
      /\ HubOK'
  BY <1>4, <1>5, RowChanges
<1> QED BY <1>2, <1>3, <1>4, <1>6

LEMMA OrphanEffect ==
  ASSUME HubOK, NEW S, log \in Seq(S), Orphan
  PROVE  /\ UNCHANGED log
         /\ \A g \in Group : batch'[g] = <<>>
         /\ \A g \in Group : \A i \in DOMAIN log :
              IF box[g][i].state = "running"
                THEN box'[g][i].state = "orphaned" /\ box'[g][i].at = box[g][i].at
                ELSE box'[g][i] = box[g][i]
         /\ HubOK'
<1>1. /\ batch' = [g \in Group |-> <<>>] /\ UNCHANGED log
      /\ DOMAIN box' = Group
  BY DEF Orphan
<1>2. ASSUME NEW g \in Group, NEW i \in DOMAIN log
      PROVE  /\ box'[g][i] \in Row
             /\ IF box[g][i].state = "running"
                  THEN box'[g][i].state = "orphaned" /\ box'[g][i].at = box[g][i].at
                  ELSE box'[g][i] = box[g][i]
  <2>1. box'[g][i] = IF box[g][i].state = "running" THEN [box[g][i] EXCEPT !.state = "orphaned"]
                                                    ELSE box[g][i]
    BY DEF Orphan
  <2>2. box[g][i] \in Row
    BY BoxFacts DEF HubOK
  <2>3. /\ [box[g][i] EXCEPT !.state = "orphaned"] \in Row
        /\ [box[g][i] EXCEPT !.state = "orphaned"].state = "orphaned"
        /\ [box[g][i] EXCEPT !.state = "orphaned"].at = box[g][i].at
    BY <2>2 DEF Row, RowState
  <2> QED BY <2>1, <2>2, <2>3
<1>3. ASSUME NEW g \in Group
      PROVE  box'[g] \in Seq(Row) /\ Len(box'[g]) = Len(log)
  <2>1. DOMAIN box'[g] = DOMAIN log /\ box'[g] = [i \in DOMAIN log |-> box'[g][i]]
    BY DEF Orphan
  <2>2. Len(log) \in Nat /\ DOMAIN log = 1..Len(log)
    BY IsIndexed
  <2>3. box'[g] \in [1..Len(log) -> Row]
    BY <2>1, <2>2, <1>2
  <2> QED BY <2>2, <2>3, FunctionIsSequence
<1>4. BoxOK'
  <2>1. box' = [g \in Group |-> box'[g]]
    BY DEF Orphan
  <2>2. box' \in [Group -> Seq(Row)]
    BY <1>3, <2>1
  <2> QED BY <1>1, <1>3, <2>2 DEF BoxOK
<1>5. BatchOK'
  <2>1. <<>> \in Seq(DOMAIN log')
    OBVIOUS
  <2>2. \A g \in Group : batch'[g] = <<>> /\ DOMAIN batch'[g] = {}
    BY <1>1
  <2>3. batch' \in [Group -> Seq(DOMAIN log')]
    BY <1>1, <2>1
  <2> QED BY <2>2, <2>3 DEF BatchOK
<1> QED BY <1>1, <1>2, <1>4, <1>5 DEF HubOK

LEMMA HubOKInit == HubInit => HubOK
<1> SUFFICES ASSUME HubInit PROVE HubOK
  OBVIOUS
<1> USE DEF HubInit
<1>1. BoxOK
  BY DEF BoxOK
<1>2. BatchOK
  BY DEF BatchOK
<1> QED BY <1>1, <1>2 DEF HubOK

-----------------------------------------------------------------------------
(* The invariant *)

LogEntry == [type : MessageType, task : Task, run : 0..Len(runs), status : TaskStatus, priority : Nat]

RunRow == [task : Task, command : DOMAIN log, status : TaskStatus]

TurnState == {"idle", "ensured", "created", "thinking", "reporting", "ending", "eventRow",
              "runRow", "taskRow", "cancelling", "handled"}

Turn == [pc : TurnState, run : 0..Len(runs), status : TaskStatus, caught : BOOLEAN]

RecordTypes ==
  /\ tasks \in [Task -> TaskStatus]
  /\ runs \in Seq(RunRow)
  /\ taskEvents \subseteq (DOMAIN runs) \X TaskStatus

ShownTypes ==
  /\ view \in [Task -> [status : TaskStatus, run : 0..Len(runs)]]
  /\ runView \in Seq(TaskStatus)
  /\ Len(runView) = Len(runs)
  /\ projected \in BOOLEAN
  /\ disturbed \in BOOLEAN
  /\ projected => batch["projection_group"] # <<>>

TurnTypes ==
  /\ turn \in Turn
  /\ starting \in Task \cup {NoTask}
  /\ budget \in Budgets
  /\ reports \in Nat /\ throws \in Nat /\ crashes \in Nat

(* From createTaskRun to the row of the task. *)
RunStates == {"created", "thinking", "reporting", "ending", "eventRow", "runRow", "taskRow"}

(* What an acked start or continue owes to those who wait for it. *)
Answered(i) ==
  \E r \in DOMAIN runs :
    /\ runs[r].command = i
    /\ runs[r].status \in Outcome
    /\ \E k \in DOMAIN log :
         log[k] = Event(ToEventType(runs[r].status), log[i].task, r, runs[r].status)

(* Between two steps of a turn the worker knows its command, its run and what it has      *)
(* already written of it.                                                                 *)
HandlingOK ==
  /\ turn.pc # "idle" => batch["worker_group"] # <<>>
  /\ turn.pc \in {"idle", "ensured", "cancelling"} => turn.run = 0
  /\ turn.pc = "cancelling" => log[Current].type \notin RunCommands
  /\ turn.pc \in RunStates => turn.run \in DOMAIN runs /\ runs[turn.run].command = Current
  /\ turn.pc \in {"ending", "eventRow", "runRow", "taskRow"} => turn.status \in Outcome
  /\ turn.pc \in {"runRow", "taskRow"} => runs[turn.run].status = turn.status
  /\ turn.pc = "handled" =>
       /\ log[Current].type \in RunCommands => Answered(Current)
       /\ turn.run # 0 => turn.run \in DOMAIN runs /\ runs[turn.run].status # "running"

LifeInv ==
  /\ log \in Seq(LogEntry)
  /\ HubOK
  /\ RecordTypes
  /\ ShownTypes
  /\ TurnTypes
  /\ HandlingOK

LEMMA TypesInParts == LifeInv => TypeOK
BY DEF LifeInv, HubOK, BoxOK, BatchOK, RecordTypes, ShownTypes, TurnTypes, TypeOK,
                    LogEntry, RunRow, Turn, TurnState, Row

LEMMA Constants ==
  /\ {"worker_group", "projection_group"} \subseteq Group
  /\ NoTask \notin Task
  /\ CommandPriority \cup {EventPriority} \subseteq Nat
  /\ "error" \in Outcome /\ Outcome \subseteq TaskStatus /\ "running" \notin Outcome
  /\ \A s \in Outcome : ToEventType(s) \in MessageType
  /\ {"none", "pending", "running", "needs_decision", "cancelled"} \subseteq TaskStatus
<1>1. \A s \in {"success", "warning", "error", "needs_decision", "cancelled", "timed_out"} :
        ToEventType(s) \in MessageType
  BY DEF ToEventType, MessageType
<1> QED BY <1>1, ConstantsAssumption DEF TaskStatus

(* The head of the worker's batch, when it has one. *)
LEMMA CurrentFacts ==
  ASSUME LifeInv, batch["worker_group"] # <<>>
  PROVE  /\ Current \in DOMAIN log
         /\ log[Current] \in LogEntry /\ CurrentTask \in Task
         /\ box["worker_group"][Current].state = "running"
<1>1. batch["worker_group"] \in Seq(DOMAIN log)
  BY Constants DEF LifeInv, HubOK, BatchOK
<1>2. Current = batch["worker_group"][1] /\ 1 \in DOMAIN batch["worker_group"]
      /\ Current \in DOMAIN log
  BY <1>1, TailFacts DEF Current
<1>3. log[Current] \in LogEntry
  BY <1>2, IsIndexed DEF LifeInv
<1>4. box["worker_group"][Current].state = "running"
  BY <1>2, Constants DEF LifeInv, HubOK, BatchOK
<1> QED BY <1>2, <1>3, <1>4 DEF CurrentTask, LogEntry

Append1 == AppendStart \/ AppendStarted \/ AppendReport \/ AppendOutcome \/ AppendCancelled

(* A message that is logged, and its rows. *)
LEMMA MessageEffect ==
  ASSUME HubOK, log \in Seq(LogEntry), NEW m \in LogEntry, LogMessage(m), UNCHANGED batch
  PROVE  /\ log' \in Seq(LogEntry) /\ Len(log') = Len(log) + 1
         /\ DOMAIN log' = DOMAIN log \cup {Len(log) + 1}
         /\ \A i \in DOMAIN log : i # Len(log) + 1 /\ log'[i] = log[i]
         /\ log'[Len(log) + 1] = m
         /\ \A g \in Group :
              /\ \A i \in DOMAIN log : box'[g][i] = box[g][i]
              /\ box'[g][Len(log) + 1].state = IF g \in Readers(m.type) THEN "due" ELSE "none"
              /\ box'[g][Len(log) + 1].at = Len(log) + 1
         /\ HubOK'
<1>1. LogFor(m, Readers(m.type))
  BY DEF LogMessage
<1>2. PICK S, R : S = LogEntry /\ R = Readers(m.type)
  OBVIOUS
<1>3. log \in Seq(S) /\ m \in S /\ LogFor(m, R)
  BY <1>1, <1>2
<1>4. /\ log' \in Seq(S) /\ Len(log') = Len(log) + 1
      /\ DOMAIN log' = DOMAIN log \cup {Len(log) + 1}
      /\ \A i \in DOMAIN log : i # Len(log) + 1 /\ log'[i] = log[i]
      /\ log'[Len(log) + 1] = m
      /\ \A g \in Group :
           /\ \A i \in DOMAIN log : box'[g][i] = box[g][i]
           /\ box'[g][Len(log) + 1].state = IF g \in R THEN "due" ELSE "none"
           /\ box'[g][Len(log) + 1].at = Len(log) + 1
      /\ HubOK'
  BY <1>3, LogForEffect
<1> QED BY <1>2, <1>4

(* What a tool asks for is a priority that the hub can sort by.                           *)
LEMMA PrioritiesAreKnown ==
  ASSUME LifeInv
  PROVE  budget.priorities \subseteq CommandPriority
BY ConstantsAssumption DEF LifeInv, TurnTypes

(* The steps that put a message on the hub. *)
LEMMA AppendsAreMessages ==
  ASSUME LifeInv,
         \/ Append1
         \/ \E t \in Task : ContinueTask(t) \/ CancelCommand(t)
  PROVE  /\ \E m \in LogEntry : LogMessage(m)
         /\ UNCHANGED <<batch, record, shown, bounds>>
<1>1. /\ turn \in Turn /\ starting \in Task \cup {NoTask}
      /\ turn.pc # "idle" => batch["worker_group"] # <<>>
      /\ turn.pc \in {"ending", "eventRow", "runRow", "taskRow"} => turn.status \in Outcome
  BY DEF LifeInv, TurnTypes, HandlingOK
<1>2. 0 \in 0..Len(runs)
  BY IsIndexed DEF LifeInv, RecordTypes
<1>3. CASE AppendStart
  <2>1. PICK p \in CommandPriority : LogMessage(Command("command.task.start", starting, p))
    BY <1>3, PrioritiesAreKnown DEF AppendStart
  <2>2. Command("command.task.start", starting, p) \in LogEntry
    BY <1>1, <1>2, <1>3, Constants DEF Command, LogEntry, MessageType, TaskCommands, RunCommands, AppendStart
  <2> QED BY <2>1, <2>2, <1>3 DEF AppendStart
<1>4. CASE \E t \in Task : ContinueTask(t)
  <2>1. PICK t \in Task, p \in CommandPriority :
          LogMessage(Command("command.task.continue", t, p))
    BY <1>4, PrioritiesAreKnown DEF ContinueTask
  <2>2. Command("command.task.continue", t, p) \in LogEntry
    BY <1>2, Constants DEF Command, LogEntry, MessageType, TaskCommands, RunCommands
  <2> QED BY <2>1, <2>2, <1>4 DEF ContinueTask
<1>5. CASE \E t \in Task : CancelCommand(t)
  <2>1. PICK t \in Task : LogMessage(Command("command.task.cancel", t, EventPriority))
    BY <1>5 DEF CancelCommand
  <2>2. Command("command.task.cancel", t, EventPriority) \in LogEntry
    BY <1>2, Constants DEF Command, LogEntry, MessageType, TaskCommands, RunCommands
  <2> QED BY <2>1, <2>2, <1>5 DEF CancelCommand
<1>6. ASSUME NEW type \in MessageType, NEW r \in 0..Len(runs), NEW s \in TaskStatus, turn.pc # "idle"
      PROVE  Event(type, CurrentTask, r, s) \in LogEntry
  BY <1>1, <1>6, CurrentFacts, Constants DEF Event, LogEntry
<1>7. turn.run \in 0..Len(runs) /\ turn.status \in TaskStatus
  BY <1>1 DEF Turn
<1>8. CASE AppendStarted
  BY <1>6, <1>7, <1>8, Constants DEF AppendStarted, MessageType
<1>9. CASE AppendReport
  <2>1. (IF turn.status = "running" THEN "event.task.progress_updated"
                                    ELSE "event.task.needs_decision") \in MessageType
    BY DEF MessageType
  <2> QED BY <1>6, <1>7, <1>9, <2>1 DEF AppendReport
<1>10. CASE AppendOutcome
  BY <1>1, <1>6, <1>7, <1>10, Constants DEF AppendOutcome
<1>11. CASE AppendCancelled
  BY <1>2, <1>6, <1>11, Constants DEF AppendCancelled, MessageType
<1> QED BY <1>3, <1>4, <1>5, <1>8, <1>9, <1>10, <1>11 DEF Append1

(* The steps that leave the hub alone, and those after which the worker is idle. *)
Quietly ==
  \/ UNCHANGED vars
  \/ \E t \in Task : StartTask(t)
  \/ EnsureTask \/ CancelRow \/ CreateRun
  \/ \E s \in {"running", "needs_decision"} : Report(s)
  \/ \E s \in Outcome : Answer(s)
  \/ AnswerFails \/ RecordEvent \/ RecordRun \/ RecordTask \/ Project

LEMMA ActionsAre ==
  [Next]_vars =>
    \/ Quietly
    \/ Append1
    \/ \E t \in Task : ContinueTask(t) \/ CancelCommand(t)
    \/ \E g \in Group : Claim(g)
    \/ \E g \in Group, i \in DOMAIN log : Retry(g, i) \/ Lapse(g, i)
    \/ Ack \/ AckProjection \/ ProjectionThrows \/ Throw \/ Crash
BY DEF Next, WorkerStep, Quietly, Append1

LEMMA FailSettles ==
  ASSUME NEW g, Fail(g)
  PROVE  Settle(g, "dead_letter") \/ Settle(g, "cooling")
BY DEF Fail

(* What every step does to the hub. *)
LEMMA HubStep ==
  ASSUME LifeInv, [Next]_vars
  PROVE  /\ HubOK'
         /\ log' \in Seq(LogEntry)
         /\ \A i \in DOMAIN log : i \in DOMAIN log' /\ log'[i] = log[i]
         /\ \A i \in DOMAIN log' :
              box'["worker_group"][i].state = "acked" =>
                \/ i \in DOMAIN log /\ box["worker_group"][i].state = "acked"
                \/ Ack /\ i = Current
         /\ turn'.pc # "idle" => batch'["worker_group"] # <<>> /\ Current' = Current
         /\ projected' => batch'["projection_group"] # <<>>
<1> DEFINE AckedOK ==
             \A i \in DOMAIN log' :
               box'["worker_group"][i].state = "acked" =>
                 \/ i \in DOMAIN log /\ box["worker_group"][i].state = "acked"
                 \/ Ack /\ i = Current
           Goal == /\ HubOK'
                   /\ log' \in Seq(LogEntry)
                   /\ \A i \in DOMAIN log : i \in DOMAIN log' /\ log'[i] = log[i]
                   /\ AckedOK
                   /\ turn'.pc # "idle" => batch'["worker_group"] # <<>> /\ Current' = Current
                   /\ projected' => batch'["projection_group"] # <<>>
<1> SUFFICES Goal
  OBVIOUS
<1>1. /\ HubOK /\ log \in Seq(LogEntry)
      /\ turn.pc # "idle" => batch["worker_group"] # <<>>
      /\ projected => batch["projection_group"] # <<>>
      /\ turn \in Turn
  BY DEF LifeInv, HandlingOK, ShownTypes, TurnTypes
<1>2. {"worker_group", "projection_group"} \subseteq Group /\ "worker_group" # "projection_group"
  BY Constants
<1>3. Idle.pc = "idle"
  BY DEF Idle
<1>4. ASSUME UNCHANGED hub, turn.pc # "idle" \/ turn' = turn \/ batch["worker_group"] # <<>>,
             projected' => projected \/ batch["projection_group"] # <<>>
      PROVE  Goal
  <2>1. HubOK'
    BY <1>1, <1>4 DEF HubOK, BoxOK, BatchOK, hub
  <2>2. turn'.pc # "idle" => batch["worker_group"] # <<>>
    BY <1>1, <1>4
  <2> QED BY <2>1, <2>2, <1>1, <1>4 DEF hub, Current
<1>5. CASE Quietly
  <2>1. CASE UNCHANGED vars
    BY <1>4, <2>1 DEF vars, hub
  <2>2. CASE \E t \in Task : StartTask(t)
    BY <1>4, <2>2 DEF StartTask, shown
  <2>3. CASE EnsureTask \/ CancelRow
    BY <1>4, <2>3 DEF EnsureTask, CancelRow, Handles, shown
  <2>4. CASE CreateRun \/ \E s \in {"running", "needs_decision"} : Report(s)
    BY <1>4, <2>4 DEF CreateRun, Report, shown
  <2>5. CASE AnswerFails \/ \E s \in Outcome : Answer(s)
    BY <1>4, <2>5 DEF AnswerFails, Answer, shown
  <2>6. CASE RecordEvent \/ RecordRun \/ RecordTask
    BY <1>4, <2>6 DEF RecordEvent, RecordRun, RecordTask, shown
  <2>7. CASE Project
    BY <1>4, <2>7 DEF Project
  <2> QED BY <1>5, <2>1, <2>2, <2>3, <2>4, <2>5, <2>6, <2>7 DEF Quietly
<1>6. CASE Append1 \/ \E t \in Task : ContinueTask(t) \/ CancelCommand(t)
  <2>1. PICK m \in LogEntry : LogMessage(m)
    BY <1>6, AppendsAreMessages
  <2>2. UNCHANGED <<batch, projected>>
    BY <1>6, AppendsAreMessages DEF shown
  <2>3. turn'.pc # "idle" => turn.pc # "idle"
    BY <1>6 DEF Append1, AppendStart, AppendStarted, AppendReport, AppendOutcome,
                AppendCancelled, ContinueTask, CancelCommand
  <2>4. /\ HubOK' /\ log' \in Seq(LogEntry)
        /\ DOMAIN log' = DOMAIN log \cup {Len(log) + 1}
        /\ \A i \in DOMAIN log : log'[i] = log[i]
        /\ \A i \in DOMAIN log : box'["worker_group"][i] = box["worker_group"][i]
        /\ box'["worker_group"][Len(log) + 1].state # "acked"
    <3>1. LogMessage(m) /\ UNCHANGED batch
      BY <2>1, <2>2
    <3>2. /\ HubOK' /\ log' \in Seq(LogEntry)
          /\ DOMAIN log' = DOMAIN log \cup {Len(log) + 1}
          /\ \A i \in DOMAIN log : log'[i] = log[i]
          /\ \A g \in Group :
               /\ \A i \in DOMAIN log : box'[g][i] = box[g][i]
               /\ box'[g][Len(log) + 1].state = IF g \in Readers(m.type) THEN "due" ELSE "none"
      BY <1>1, <2>1, <3>1, MessageEffect
    <3> QED BY <1>2, <3>2
  <2> QED BY <1>1, <2>2, <2>3, <2>4 DEF Current
<1>7. ASSUME NEW g \in Group, Claim(g)
      PROVE  Goal
  <2>1. ClaimBatch(g) /\ UNCHANGED <<turn, projected>>
    BY <1>7 DEF Claim, shown
  <2>2. /\ UNCHANGED log /\ batch[g] = <<>> /\ batch'[g] # <<>> /\ HubOK'
        /\ \A h \in Group \ {g} : batch'[h] = batch[h] /\ box'[h] = box[h]
        /\ \A i \in DOMAIN log : box'[g][i] = box[g][i] \/ box'[g][i].state = "running"
    BY <1>1, <2>1, ClaimEffect
  <2>3. AckedOK
    BY <1>2, <2>2
  <2>4. g = "worker_group" => turn'.pc = "idle"
    BY <1>1, <2>1, <2>2
  <2>5. turn'.pc # "idle" => batch'["worker_group"] = batch["worker_group"]
    BY <1>2, <2>2, <2>4
  <2> QED BY <1>1, <1>2, <2>1, <2>2, <2>3, <2>5 DEF Current
<1>8. ASSUME NEW g \in Group, NEW i \in DOMAIN log, Retry(g, i) \/ Lapse(g, i)
      PROVE  Goal
  <2>1. DelayEnds(g, i) \/ LeaseEnds(g, i)
    BY <1>8 DEF Retry, Lapse
  <2>2. UNCHANGED <<turn, projected>>
    BY <1>8 DEF Retry, Lapse, shown
  <2>3. /\ UNCHANGED <<log, batch>> /\ HubOK'
        /\ \A h \in Group \ {g} : box'[h] = box[h]
        /\ box'[g][i].state = "due"
        /\ \A k \in DOMAIN log : k # i => box'[g][k] = box[g][k]
    BY <1>1, <2>1, DelayEndsEffect, LeaseEndsEffect
  <2>4. AckedOK
    BY <1>2, <2>3
  <2> QED BY <1>1, <1>2, <2>2, <2>3, <2>4 DEF Current
<1>9. ASSUME NEW g \in Group, NEW s \in RowState, Settle(g, s), batch[g] # <<>>,
             g = "worker_group" => turn'.pc = "idle" /\ projected' = projected,
             g = "projection_group" => turn' = turn /\ ~projected',
             s = "acked" /\ g = "worker_group" => Ack
      PROVE  Goal
  <2>1. /\ UNCHANGED log /\ HubOK'
        /\ \A h \in Group \ {g} : batch'[h] = batch[h] /\ box'[h] = box[h]
        /\ box'[g][Head(batch[g])].state = s
        /\ \A i \in DOMAIN log : i # Head(batch[g]) => box'[g][i] = box[g][i]
    BY <1>1, <1>9, SettleEffect
  <2>2. g = "worker_group" \/ g = "projection_group"
    BY ConstantsAssumption
  <2>3. CASE g = "worker_group"
    <3>1. AckedOK
      BY <1>9, <2>1, <2>3 DEF Current
    <3> QED BY <1>1, <1>2, <1>9, <2>1, <2>3, <3>1
  <2>4. CASE g = "projection_group"
    <3>1. AckedOK
      BY <1>2, <2>1, <2>4
    <3> QED BY <1>1, <1>2, <1>9, <2>1, <2>4, <3>1 DEF Current
  <2> QED BY <2>2, <2>3, <2>4
<1>10. {"acked", "dead_letter", "cooling"} \subseteq RowState
  BY DEF RowState
<1>11. CASE Ack
  <2>1. Settle("worker_group", "acked") /\ turn.pc = "handled" /\ turn' = Idle
        /\ projected' = projected
    BY <1>11 DEF Ack, shown
  <2> QED BY <1>1, <1>2, <1>3, <1>9, <1>10, <1>11, <2>1
<1>12. CASE AckProjection
  <2>1. Settle("projection_group", "acked") /\ projected /\ ~projected' /\ turn' = turn
    BY <1>12 DEF AckProjection
  <2> QED BY <1>1, <1>2, <1>9, <1>10, <2>1
<1>13. CASE ProjectionThrows
  <2>1. /\ Settle("projection_group", "dead_letter") \/ Settle("projection_group", "cooling")
        /\ ~projected' /\ turn' = turn /\ batch["projection_group"] # <<>>
    BY <1>13, FailSettles DEF ProjectionThrows
  <2> QED BY <1>1, <1>2, <1>9, <1>10, <2>1
<1>14. CASE Throw
  <2>1. projected' = projected /\ WriteThrows
    BY <1>14 DEF Throw, shown
  <2>2. CASE /\ turn.pc # "idle" /\ Fail("worker_group") /\ turn' = Idle
    BY <1>1, <1>2, <1>3, <1>9, <1>10, <2>1, <2>2, FailSettles
  <2>3. CASE /\ turn.pc # "idle" \/ turn' = turn
             /\ UNCHANGED hub
    BY <1>4, <2>1, <2>3
  <2> QED BY <2>1, <2>2, <2>3 DEF WriteThrows
<1>15. CASE Crash
  <2>1. Orphan /\ turn' = Idle /\ ~projected'
    BY <1>15 DEF Crash
  <2>2. /\ UNCHANGED log /\ HubOK'
        /\ \A i \in DOMAIN log :
             \/ box'["worker_group"][i].state = "orphaned"
             \/ box'["worker_group"][i] = box["worker_group"][i]
    BY <1>1, <1>2, <2>1, OrphanEffect
  <2> QED BY <1>1, <1>3, <2>1, <2>2
<1> HIDE DEF Goal
<1>16. \/ Quietly
       \/ Append1
       \/ \E t \in Task : ContinueTask(t) \/ CancelCommand(t)
       \/ \E g \in Group : Claim(g)
       \/ \E g \in Group, i \in DOMAIN log : Retry(g, i) \/ Lapse(g, i)
       \/ Ack \/ AckProjection \/ ProjectionThrows \/ Throw \/ Crash
  BY ActionsAre
<1> QED BY ONLY <1>16, <1>5, <1>6, <1>7, <1>8, <1>11, <1>12, <1>13, <1>14, <1>15

LEMMA CreateRunEffect ==
  ASSUME LifeInv, CreateRun
  PROVE  /\ runs' \in Seq(RunRow) /\ Len(runs') = Len(runs) + 1
         /\ DOMAIN runs' = DOMAIN runs \cup {Len(runs) + 1}
         /\ \A r \in DOMAIN runs : r # Len(runs) + 1 /\ runs'[r] = runs[r]
         /\ runs'[Len(runs) + 1].command = Current
         /\ runs'[Len(runs) + 1].task = CurrentTask
         /\ runs'[Len(runs) + 1].status = "running"
         /\ turn' = [pc |-> "created", run |-> Len(runs) + 1, status |-> turn.status,
                     caught |-> turn.caught]
<1> DEFINE row == [task |-> CurrentTask, command |-> Current, status |-> "running"]
<1>1. turn.pc = "ensured" /\ runs' = Append(runs, row)
  BY DEF CreateRun
<1>2. batch["worker_group"] # <<>>
  BY <1>1 DEF LifeInv, HandlingOK
<1>3. row \in RunRow
  BY <1>2, CurrentFacts, Constants DEF RunRow
<1>4. row.command = Current /\ row.task = CurrentTask /\ row.status = "running"
  OBVIOUS
<1>5. runs \in Seq(RunRow) /\ turn \in Turn
  BY DEF LifeInv, RecordTypes, TurnTypes
<1>6. PICK n : n = Len(runs) + 1
  OBVIOUS
<1>7. turn' = [pc |-> "created", run |-> Len(runs) + 1, status |-> turn.status,
               caught |-> turn.caught]
  <2>1. turn' = [turn EXCEPT !.pc = "created", !.run = n]
    BY <1>6 DEF CreateRun
  <2> QED BY <2>1, <1>5, <1>6 DEF Turn
<1> HIDE DEF row
<1> QED BY <1>1, <1>3, <1>4, <1>5, <1>7, Appended

LEMMA RecordRunEffect ==
  ASSUME LifeInv, RecordRun
  PROVE  /\ turn.run \in DOMAIN runs
         /\ runs' \in Seq(RunRow) /\ Len(runs') = Len(runs) /\ DOMAIN runs' = DOMAIN runs
         /\ \A r \in DOMAIN runs : r # turn.run => runs'[r] = runs[r]
         /\ runs'[turn.run].command = runs[turn.run].command
         /\ runs'[turn.run].task = runs[turn.run].task
         /\ runs'[turn.run].status = turn.status
<1> DEFINE row == [runs[turn.run] EXCEPT !.status = turn.status]
<1>1. turn.pc = "eventRow" /\ runs' = [runs EXCEPT ![turn.run] = row]
  BY DEF RecordRun
<1>2. turn.run \in DOMAIN runs /\ turn.status \in TaskStatus /\ runs \in Seq(RunRow)
  BY <1>1 DEF LifeInv, HandlingOK, RunStates, TurnTypes, Turn, RecordTypes
<1>3. runs[turn.run] \in RunRow
  BY <1>2, IsIndexed
<1>4. /\ row \in RunRow /\ row.status = turn.status
      /\ row.command = runs[turn.run].command /\ row.task = runs[turn.run].task
  BY <1>2, <1>3 DEF RunRow
<1> HIDE DEF row
<1> QED BY <1>1, <1>2, <1>4, EntryChanges

LEMMA RunsOnlyHere == [Next]_vars => UNCHANGED runs \/ CreateRun \/ RecordRun
<1> SUFFICES ASSUME [Next]_vars PROVE UNCHANGED runs \/ CreateRun \/ RecordRun
  OBVIOUS
<1>1. CASE Quietly
  BY <1>1 DEF Quietly, vars, StartTask, EnsureTask, CancelRow, Report, Answer, AnswerFails,
              RecordEvent, RecordTask, Project, record
<1>2. CASE Append1 \/ \E t \in Task : ContinueTask(t) \/ CancelCommand(t)
  BY <1>2 DEF Append1, AppendStart, AppendStarted, AppendReport, AppendOutcome, AppendCancelled,
              ContinueTask, CancelCommand, record
<1>3. CASE \/ \E g \in Group : Claim(g)
           \/ \E g \in Group, i \in DOMAIN log : Retry(g, i) \/ Lapse(g, i)
  BY <1>3 DEF Claim, Retry, Lapse, record
<1>4. CASE Ack \/ AckProjection \/ ProjectionThrows \/ Throw \/ Crash
  BY <1>4 DEF Ack, AckProjection, ProjectionThrows, Throw, Crash, record
<1> QED BY <1>1, <1>2, <1>3, <1>4, ActionsAre

(* Runs are only added, and of a row only the status changes. *)
LEMMA RunsStep ==
  ASSUME LifeInv, [Next]_vars
  PROVE  /\ Len(runs) \in Nat /\ Len(runs') \in Nat /\ Len(runs) <= Len(runs')
         /\ runs' \in Seq(RunRow') /\ LogEntry \subseteq LogEntry'
         /\ DOMAIN runs = 1..Len(runs) /\ DOMAIN runs' = 1..Len(runs')
         /\ \A r \in DOMAIN runs : \/ runs'[r] = runs[r]
                                   \/ RecordRun /\ r = turn.run
         /\ \A r \in DOMAIN runs : runs'[r].command = runs[r].command /\ runs'[r].task = runs[r].task
         /\ runs' = runs \/ CreateRun \/ RecordRun
<1>1. runs \in Seq(RunRow)
  BY DEF LifeInv, RecordTypes
<1>2. runs' \in Seq(RunRow)
  BY <1>1, RunsOnlyHere, CreateRunEffect, RecordRunEffect
<1>3. RunRow \subseteq RunRow'
  <2>1. DOMAIN log \subseteq DOMAIN log'
    BY HubStep
  <2> QED BY <2>1 DEF RunRow, TaskStatus
<1>4. runs' \in Seq(RunRow')
  BY <1>2, <1>3, WiderSequence
<1>5. /\ Len(runs) \in Nat /\ DOMAIN runs = 1..Len(runs)
      /\ Len(runs') \in Nat /\ DOMAIN runs' = 1..Len(runs')
  BY <1>1, <1>2, IsIndexed
<1>6. Len(runs) <= Len(runs')
  <2>1. Len(runs') = Len(runs) \/ Len(runs') = Len(runs) + 1
    BY RunsOnlyHere, CreateRunEffect, RecordRunEffect
  <2>2. \A m, n \in Nat : n = m \/ n = m + 1 => m <= n
    OBVIOUS
  <2> QED BY ONLY <1>5, <2>1, <2>2
<1>7. LogEntry \subseteq LogEntry'
  BY <1>5, <1>6 DEF LogEntry, TaskStatus
<1>8. \A r \in DOMAIN runs : /\ runs'[r] = runs[r] \/ (RecordRun /\ r = turn.run)
                             /\ runs'[r].command = runs[r].command
                             /\ runs'[r].task = runs[r].task
  BY RunsOnlyHere, CreateRunEffect, RecordRunEffect
<1> QED BY <1>4, <1>5, <1>6, <1>7, <1>8, RunsOnlyHere

LEMMA RecordTypesStep ==
  ASSUME LifeInv, [Next]_vars
  PROVE  RecordTypes'
<1>1. /\ tasks \in [Task -> TaskStatus]
      /\ taskEvents \subseteq (DOMAIN runs) \X TaskStatus
      /\ turn \in Turn
      /\ turn.pc \in RunStates => turn.run \in DOMAIN runs
      /\ turn.pc # "idle" => batch["worker_group"] # <<>>
  BY DEF LifeInv, RecordTypes, TurnTypes, HandlingOK
<1>2. DOMAIN runs \subseteq DOMAIN runs' /\ runs' \in Seq(RunRow')
  BY RunsStep
<1>3. turn.status \in TaskStatus /\ TaskStatus' = TaskStatus
  BY <1>1 DEF Turn, TaskStatus
<1>4. SUFFICES /\ tasks' \in [Task -> TaskStatus]
               /\ taskEvents' \subseteq (DOMAIN runs') \X TaskStatus
  BY <1>2, <1>3 DEF RecordTypes
<1>5. ASSUME UNCHANGED tasks, \/ UNCHANGED taskEvents
                              \/ \E s \in TaskStatus : /\ turn.run \in DOMAIN runs
                                                       /\ taskEvents' = taskEvents \cup {<<turn.run, s>>}
      PROVE  /\ tasks' \in [Task -> TaskStatus]
             /\ taskEvents' \subseteq (DOMAIN runs') \X TaskStatus
  BY <1>1, <1>2, <1>5
<1>6. ASSUME UNCHANGED taskEvents, NEW t \in Task, NEW s \in TaskStatus, tasks' = [tasks EXCEPT ![t] = s]
      PROVE  /\ tasks' \in [Task -> TaskStatus]
             /\ taskEvents' \subseteq (DOMAIN runs') \X TaskStatus
  BY <1>1, <1>2, <1>6
<1>7. CASE Quietly
  <2>1. CASE UNCHANGED vars \/ CreateRun \/ RecordRun \/ Project \/ AnswerFails
               \/ \E s \in Outcome : Answer(s)
    BY <2>1, <1>5 DEF vars, CreateRun, RecordRun, Project, AnswerFails, Answer, record
  <2>2. CASE \E t \in Task : StartTask(t)
    BY <2>2, <1>6, Constants DEF StartTask
  <2>3. CASE EnsureTask \/ CancelRow
    <3>1. CurrentTask \in Task
      BY <2>3, CurrentFacts DEF EnsureTask, CancelRow, Handles
    <3> QED BY <2>3, <3>1, <1>6, Constants DEF EnsureTask, CancelRow
  <2>4. CASE \E s \in {"running", "needs_decision"} : Report(s)
    BY <2>4, <1>1, <1>5, Constants DEF Report, RunStates
  <2>5. CASE RecordEvent
    BY <2>5, <1>1, <1>3, <1>5 DEF RecordEvent, RunStates
  <2>6. CASE RecordTask
    <3>1. CurrentTask \in Task
      BY <2>6, <1>1, CurrentFacts DEF RecordTask
    <3> QED BY <2>6, <3>1, <1>3, <1>6 DEF RecordTask
  <2> QED BY <1>7, <2>1, <2>2, <2>3, <2>4, <2>5, <2>6 DEF Quietly
<1>8. CASE Append1 \/ \E t \in Task : ContinueTask(t) \/ CancelCommand(t)
  BY <1>5, <1>8, AppendsAreMessages DEF record
<1>9. CASE \/ \E g \in Group : Claim(g)
           \/ \E g \in Group, i \in DOMAIN log : Retry(g, i) \/ Lapse(g, i)
  BY <1>5, <1>9 DEF Claim, Retry, Lapse, record
<1>10. CASE Ack \/ AckProjection \/ ProjectionThrows \/ Throw \/ Crash
  BY <1>5, <1>10 DEF Ack, AckProjection, ProjectionThrows, Throw, Crash, record
<1> QED BY <1>7, <1>8, <1>9, <1>10, ActionsAre

LEMMA ProjectEffect ==
  ASSUME LifeInv, Project
  PROVE  /\ view' \in [Task -> [status : TaskStatus, run : 0..Len(runs)]]
         /\ runView' \in Seq(TaskStatus) /\ Len(runView') = Len(runs)
<1> DEFINE m == log[Head(batch["projection_group"])]
           old == view[m.task]
<1>1. /\ batch["projection_group"] # <<>>
      /\ view' = [view EXCEPT ![m.task] = Shown(m)]
      /\ runView' = IF m.run = 0 THEN runView ELSE [runView EXCEPT ![m.run] = m.status]
  BY DEF Project
<1>2. m \in LogEntry
  <2>1. batch["projection_group"] \in Seq(DOMAIN log)
    BY Constants DEF LifeInv, HubOK, BatchOK
  <2>2. Head(batch["projection_group"]) \in DOMAIN log
    BY <1>1, <2>1, TailFacts
  <2> QED BY <2>2, IsIndexed DEF LifeInv
<1>3. m.task \in Task /\ m.run \in 0..Len(runs) /\ m.status \in TaskStatus
  BY <1>2 DEF LogEntry
<1>4. /\ view \in [Task -> [status : TaskStatus, run : 0..Len(runs)]]
      /\ runView \in Seq(TaskStatus) /\ Len(runView) = Len(runs) /\ Len(runs) \in Nat
  BY IsIndexed DEF LifeInv, ShownTypes, RecordTypes
<1>5. old \in [status : TaskStatus, run : 0..Len(runs)]
  BY <1>3, <1>4
<1> HIDE DEF m
<1>6. Shown(m) \in [status : TaskStatus, run : 0..Len(runs)]
  <2>1. \/ Shown(m) = old
        \/ Shown(m) = [old EXCEPT !.status = "pending"]
        \/ Shown(m) = [status |-> "running", run |-> m.run]
        \/ Shown(m) = [status |-> m.status, run |-> IF m.run = 0 THEN old.run ELSE m.run]
    BY DEF Shown
  <2>2. [old EXCEPT !.status = "pending"] \in [status : TaskStatus, run : 0..Len(runs)]
    BY <1>5, Constants
  <2>3. [status |-> "running", run |-> m.run] \in [status : TaskStatus, run : 0..Len(runs)]
    BY <1>3, Constants
  <2>4. (IF m.run = 0 THEN old.run ELSE m.run) \in 0..Len(runs)
    BY <1>3, <1>5
  <2>5. [status |-> m.status, run |-> IF m.run = 0 THEN old.run ELSE m.run]
          \in [status : TaskStatus, run : 0..Len(runs)]
    BY <1>3, <2>4
  <2> QED BY <1>5, <2>1, <2>2, <2>3, <2>5
<1>7. m.run # 0 => m.run \in DOMAIN runView
  BY <1>3, <1>4
<1> QED BY <1>1, <1>3, <1>4, <1>6, <1>7, EntryChanges

LEMMA ShownTypesStep ==
  ASSUME LifeInv, [Next]_vars
  PROVE  ShownTypes'
<1>1. /\ view \in [Task -> [status : TaskStatus, run : 0..Len(runs)]]
      /\ runView \in Seq(TaskStatus)
      /\ Len(runView) = Len(runs)
      /\ projected \in BOOLEAN
      /\ disturbed \in BOOLEAN
  BY DEF LifeInv, ShownTypes
<1>2. projected' => batch'["projection_group"] # <<>>
  BY HubStep
<1>3. TaskStatus' = TaskStatus
  BY DEF TaskStatus
<1>4. ASSUME view' \in [Task -> [status : TaskStatus, run : 0..Len(runs)]],
             runView' \in Seq(TaskStatus), Len(runView') = Len(runs'),
             projected' \in BOOLEAN, disturbed' \in BOOLEAN
      PROVE  ShownTypes'
  <2>1. 0..Len(runs) \subseteq 0..Len(runs')
    BY RunsStep
  <2>2. \A t \in Task : view'[t] \in [status : TaskStatus, run : 0..Len(runs')]
    BY <1>4, <2>1
  <2>3. view' \in [Task -> [status : TaskStatus, run : 0..Len(runs')]]
    BY <1>4, <2>2
  <2> QED BY <1>2, <1>3, <1>4, <2>3 DEF ShownTypes
<1>5. ASSUME UNCHANGED <<view, runView, runs>>, projected' \in BOOLEAN, disturbed' \in BOOLEAN
      PROVE  ShownTypes'
  BY <1>1, <1>4, <1>5
<1>6. CASE Quietly
  <2>1. CASE \/ UNCHANGED vars
             \/ \E t \in Task : StartTask(t)
             \/ EnsureTask \/ CancelRow
             \/ \E s \in {"running", "needs_decision"} : Report(s)
             \/ \E s \in Outcome : Answer(s)
             \/ AnswerFails \/ RecordEvent \/ RecordTask
    BY <1>1, <1>5, <2>1 DEF vars, StartTask, EnsureTask, CancelRow, Report, Answer, AnswerFails,
                            RecordEvent, RecordTask, shown, record
  <2>2. CASE RecordRun
    <3>1. Len(runs') = Len(runs)
      BY <2>2, RecordRunEffect
    <3>2. UNCHANGED shown
      BY <2>2 DEF RecordRun
    <3> QED BY <1>1, <1>4, <3>1, <3>2 DEF shown
  <2>3. CASE CreateRun
    <3>1. Len(runs') = Len(runs) + 1
      BY <2>3, CreateRunEffect
    <3>2. runView' = Append(runView, "none") /\ UNCHANGED <<view, projected, disturbed>>
      BY <2>3 DEF CreateRun
    <3>3. runView' \in Seq(TaskStatus) /\ Len(runView') = Len(runView) + 1
      BY <1>1, <3>2, Appended, Constants
    <3> QED BY <1>1, <1>4, <3>1, <3>2, <3>3
  <2>4. CASE Project
    <3>1. UNCHANGED <<runs, disturbed>> /\ projected' \in BOOLEAN
      BY <2>4 DEF Project, record
    <3> QED BY <1>1, <1>4, <2>4, <3>1, ProjectEffect
  <2> QED BY <1>6, <2>1, <2>2, <2>3, <2>4 DEF Quietly
<1>7. CASE Append1 \/ \E t \in Task : ContinueTask(t) \/ CancelCommand(t)
  BY <1>1, <1>5, <1>7, AppendsAreMessages DEF record, shown
<1>8. CASE \/ \E g \in Group : Claim(g)
           \/ \E g \in Group, i \in DOMAIN log : Retry(g, i) \/ Lapse(g, i)
  BY <1>1, <1>5, <1>8 DEF Claim, Retry, Lapse, record, shown
<1>9. CASE Ack \/ AckProjection \/ ProjectionThrows \/ Throw \/ Crash
  BY <1>1, <1>5, <1>9 DEF Ack, AckProjection, ProjectionThrows, Throw, Crash, record, shown
<1> QED BY <1>6, <1>7, <1>8, <1>9, ActionsAre

LEMMA TurnTypesStep ==
  ASSUME LifeInv, [Next]_vars
  PROVE  TurnTypes'
<1>1. /\ turn \in Turn
      /\ starting \in Task \cup {NoTask}
      /\ budget \in Budgets
      /\ reports \in Nat /\ throws \in Nat /\ crashes \in Nat
      /\ Len(runs) \in Nat /\ Len(runs') \in Nat /\ Len(runs) <= Len(runs')
      /\ turn.pc \in {"ending", "eventRow", "runRow", "taskRow"} => turn.status \in Outcome
  BY RunsStep DEF LifeInv, TurnTypes, HandlingOK
<1>2. TaskStatus' = TaskStatus /\ Turn \subseteq Turn'
  BY <1>1 DEF TaskStatus, Turn, TurnState
<1>3. SUFFICES /\ turn' \in Turn'
               /\ starting' \in Task \cup {NoTask}
               /\ budget' \in Budgets
               /\ reports' \in Nat /\ throws' \in Nat /\ crashes' \in Nat
  BY DEF TurnTypes
<1>4. Idle \in Turn
  BY <1>1, Constants DEF Idle, Turn, TurnState
<1>5. ASSUME NEW pc \in TurnState, NEW s \in TaskStatus
      PROVE  /\ [turn EXCEPT !.pc = pc] \in Turn
             /\ [turn EXCEPT !.pc = pc, !.status = s] \in Turn
             /\ [turn EXCEPT !.pc = pc, !.status = s, !.caught = TRUE] \in Turn
  BY <1>1 DEF Turn
<1>6. CASE Quietly
  <2>1. CASE UNCHANGED vars \/ Project
    BY <1>1, <1>2, <2>1 DEF vars, Project, bounds
  <2>2. CASE \E t \in Task : StartTask(t)
    BY <1>1, <1>2, <2>2 DEF StartTask, bounds
  <2>3. CASE EnsureTask \/ CancelRow \/ RecordEvent \/ RecordRun \/ RecordTask
    BY <1>1, <1>2, <1>5, <2>3, Constants
       DEF EnsureTask, CancelRow, RecordEvent, RecordRun, RecordTask, Goto, bounds, TurnState
  <2>4. CASE CreateRun
    <3>1. turn' = [pc |-> "created", run |-> Len(runs) + 1, status |-> turn.status,
                   caught |-> turn.caught] /\ Len(runs') = Len(runs) + 1
      BY <2>4, CreateRunEffect
    <3>2. Len(runs) + 1 \in 0..Len(runs')
      BY <1>1, <3>1
    <3>3. turn' \in Turn'
      BY <1>1, <1>2, <3>1, <3>2 DEF Turn, TurnState
    <3> QED BY <1>1, <2>4, <3>3 DEF CreateRun, bounds
  <2>5. ASSUME NEW s \in {"running", "needs_decision"}, Report(s)
        PROVE  /\ turn' \in Turn'
               /\ starting' \in Task \cup {NoTask}
               /\ budget' \in Budgets
               /\ reports' \in Nat /\ throws' \in Nat /\ crashes' \in Nat
    <3>1. turn' = [turn EXCEPT !.pc = "reporting", !.status = s]
      BY <2>5 DEF Report
    <3>2. s \in TaskStatus /\ "reporting" \in TurnState
      BY Constants DEF TurnState
    <3>3. turn' \in Turn'
      BY <1>2, <1>5, <3>1, <3>2
    <3> QED BY <1>1, <2>5, <3>3 DEF Report
  <2>6. CASE AnswerFails \/ \E s \in Outcome : Answer(s)
    BY <1>1, <1>2, <1>5, <2>6, Constants DEF AnswerFails, Answer, CatchError, TurnState, bounds
  <2> QED BY <1>6, <2>1, <2>2, <2>3, <2>4, <2>5, <2>6 DEF Quietly
<1>7. CASE AppendStart \/ \E t \in Task : ContinueTask(t) \/ CancelCommand(t)
  BY <1>1, <1>2, <1>7 DEF AppendStart, ContinueTask, CancelCommand, bounds
<1>8. CASE AppendStarted \/ AppendReport \/ AppendOutcome \/ AppendCancelled
  BY <1>1, <1>2, <1>5, <1>8, Constants
     DEF AppendStarted, AppendReport, AppendOutcome, AppendCancelled, Goto, bounds, TurnState
<1>9. CASE \/ \E g \in Group : Claim(g)
           \/ \E g \in Group, i \in DOMAIN log : Retry(g, i) \/ Lapse(g, i)
  BY <1>1, <1>2, <1>9 DEF Claim, Retry, Lapse, bounds
<1>10. CASE Ack \/ AckProjection \/ ProjectionThrows \/ Crash
  BY <1>1, <1>2, <1>4, <1>10 DEF Ack, AckProjection, ProjectionThrows, Crash, bounds
<1>11. CASE Throw
  <2>1. turn' \in Turn /\ starting' \in Task \cup {NoTask}
    <3>1. {"ending", "thinking"} \subseteq TurnState /\ {"error", "none"} \subseteq TaskStatus
      BY Constants DEF TurnState
    <3>2. CASE turn' = Idle /\ UNCHANGED starting
      BY <1>1, <1>4, <3>2
    <3>3. CASE CatchError /\ UNCHANGED starting
      BY <1>1, <1>5, <3>1, <3>3 DEF CatchError
    <3>4. CASE turn' = [turn EXCEPT !.pc = "thinking", !.status = "none"] /\ UNCHANGED starting
      BY <1>1, <1>5, <3>1, <3>4
    <3>5. CASE starting' = NoTask /\ UNCHANGED turn
      BY <1>1, <3>5
    <3>6. WriteThrows
      BY <1>11 DEF Throw
    <3> QED BY <3>2, <3>3, <3>4, <3>5, <3>6 DEF WriteThrows
  <2> QED BY <1>1, <1>2, <1>11, <2>1 DEF Throw
<1> QED BY <1>6, <1>7, <1>8, <1>9, <1>10, <1>11, ActionsAre DEF Append1

-----------------------------------------------------------------------------
(* A turn of the worker *)

(* What has been answered stays so: runs of other commands are left alone. *)
LEMMA AnsweredStays ==
  ASSUME LifeInv, [Next]_vars, NEW i \in DOMAIN log, Answered(i), RecordRun => i # Current
  PROVE  Answered(i)'
<1>1. PICK r \in DOMAIN runs, k \in DOMAIN log :
        /\ runs[r].command = i
        /\ runs[r].status \in Outcome
        /\ log[k] = Event(ToEventType(runs[r].status), log[i].task, r, runs[r].status)
  BY DEF Answered
<1>2. RecordRun => r # turn.run
  BY <1>1 DEF RecordRun, LifeInv, HandlingOK, RunStates
<1>3. r \in DOMAIN runs' /\ runs'[r] = runs[r]
  BY <1>2, RunsStep
<1>4. k \in DOMAIN log' /\ log'[k] = log[k] /\ log'[i] = log[i]
  BY HubStep
<1> QED BY <1>1, <1>3, <1>4 DEF Answered, Event

LEMMA TurnChanges ==
  /\ turn \in Turn =>
       \A p : /\ [turn EXCEPT !.pc = p].pc = p
             /\ [turn EXCEPT !.pc = p].run = turn.run
             /\ [turn EXCEPT !.pc = p].status = turn.status
  /\ turn \in Turn =>
       \A p, s : /\ [turn EXCEPT !.pc = p, !.status = s].pc = p
                /\ [turn EXCEPT !.pc = p, !.status = s].run = turn.run
                /\ [turn EXCEPT !.pc = p, !.status = s].status = s
  /\ turn \in Turn =>
       \A p, s : /\ [turn EXCEPT !.pc = p, !.status = s, !.caught = TRUE].pc = p
                /\ [turn EXCEPT !.pc = p, !.status = s, !.caught = TRUE].run = turn.run
                /\ [turn EXCEPT !.pc = p, !.status = s, !.caught = TRUE].status = s
BY DEF Turn

(* The task and the event of an outcome, once its run is recorded, answer the command.    *)
LEMMA OutcomeAnswers ==
  ASSUME LifeInv, [Next]_vars, AppendOutcome
  PROVE  Answered(Current)' /\ runs'[turn.run].status # "running"
<1>1. /\ turn.pc = "taskRow"
      /\ LogMessage(Event(ToEventType(turn.status), CurrentTask, turn.run, turn.status))
      /\ UNCHANGED <<batch, runs>>
  BY DEF AppendOutcome, record
<1>2. /\ turn.run \in DOMAIN runs /\ runs[turn.run].command = Current
      /\ runs[turn.run].status = turn.status /\ turn.status \in Outcome
      /\ batch["worker_group"] # <<>>
  BY <1>1 DEF LifeInv, HandlingOK, RunStates
<1>3. Current \in DOMAIN log /\ CurrentTask = log[Current].task
  BY <1>2, CurrentFacts DEF CurrentTask
<1>4. /\ Len(log) + 1 \in DOMAIN log'
      /\ log'[Len(log) + 1] = Event(ToEventType(turn.status), CurrentTask, turn.run, turn.status)
      /\ log'[Current] = log[Current]
  <2> DEFINE m == Event(ToEventType(turn.status), CurrentTask, turn.run, turn.status)
  <2>1. LogFor(m, Readers(m.type))
    BY <1>1 DEF LogMessage
  <2>2. log' = Append(log, m) /\ log \in Seq(LogEntry)
    BY <2>1 DEF LogFor, LifeInv
  <2>3. Len(log) \in Nat /\ DOMAIN log = 1..Len(log)
    BY <2>2, IsIndexed
  <2>4. m \in LogEntry
    <3>1. turn.run \in 0..Len(runs) /\ turn.status \in TaskStatus
      BY DEF LifeInv, TurnTypes, Turn
    <3> QED BY <1>2, <3>1, CurrentFacts, Constants DEF Event, LogEntry
  <2> HIDE DEF m
  <2>5. /\ Len(log) + 1 \in DOMAIN log' /\ log'[Len(log) + 1] = m
        /\ log'[Current] = log[Current]
    BY <1>3, <2>2, <2>4, Appended
  <2> QED BY <2>5 DEF m
<1>5. Current' = Current
  BY <1>1 DEF Current
<1>6. runs'[turn.run].status # "running"
  BY <1>1, <1>2, Constants
<1> QED BY <1>1, <1>2, <1>3, <1>4, <1>5, <1>6 DEF Answered, Event, ToEventType

LEMMA HandlingStep ==
  ASSUME LifeInv, [Next]_vars
  PROVE  HandlingOK'
<1>1. /\ turn'.pc # "idle" => batch'["worker_group"] # <<>> /\ Current' = Current
      /\ \A i \in DOMAIN log : i \in DOMAIN log' /\ log'[i] = log[i]
  BY HubStep
<1>2. /\ turn \in Turn
      /\ turn.pc # "idle" => batch["worker_group"] # <<>>
      /\ turn.pc \in {"idle", "ensured", "cancelling"} => turn.run = 0
      /\ turn.pc = "cancelling" => log[Current].type \notin RunCommands
      /\ turn.pc \in RunStates => turn.run \in DOMAIN runs /\ runs[turn.run].command = Current
      /\ turn.pc \in {"ending", "eventRow", "runRow", "taskRow"} => turn.status \in Outcome
      /\ turn.pc \in {"runRow", "taskRow"} => runs[turn.run].status = turn.status
      /\ turn.pc = "handled" =>
           /\ log[Current].type \in RunCommands => Answered(Current)
           /\ turn.run # 0 => turn.run \in DOMAIN runs /\ runs[turn.run].status # "running"
  BY DEF LifeInv, HandlingOK, TurnTypes
<1>3. batch["worker_group"] # <<>> => Current \in DOMAIN log
  BY CurrentFacts
<1>4. ASSUME turn' = turn, UNCHANGED runs
      PROVE  HandlingOK'
  <2>1. turn.pc # "idle" => Current \in DOMAIN log /\ log'[Current] = log[Current]
    BY <1>1, <1>2, <1>3
  <2>2. turn.pc = "handled" /\ log[Current].type \in RunCommands => Answered(Current)'
    <3>1. turn.pc = "handled" => ~RecordRun
      BY DEF RecordRun
    <3> QED
      <4> SUFFICES ASSUME turn.pc = "handled", log[Current].type \in RunCommands
                   PROVE  Answered(Current)'
        OBVIOUS
      <4>1. Answered(Current) /\ Current \in DOMAIN log /\ Current' = Current
        BY <1>1, <1>2, <2>1, <1>4
      <4>2. \A i \in DOMAIN log : Answered(i) => Answered(i)'
        BY <3>1, AnsweredStays
      <4>3. PICK i \in DOMAIN log : i = Current
        BY <4>1
      <4>4. i = Current'
        BY <4>1, <4>3
      <4> QED BY <4>1, <4>2, <4>3, <4>4 DEF Answered
  <2> QED BY <1>1, <1>2, <1>4, <2>1, <2>2 DEF HandlingOK, RunStates
<1>5. ASSUME turn' = Idle
      PROVE  HandlingOK'
  BY <1>5 DEF HandlingOK, Idle, RunStates
<1>6. CASE EnsureTask \/ CancelRow
  <2>1. /\ turn.pc = "idle" /\ batch["worker_group"] # <<>>
        /\ \/ turn' = [turn EXCEPT !.pc = "ensured"]
           \/ /\ turn' = [turn EXCEPT !.pc = "cancelling"]
              /\ log[Current].type = "command.task.cancel"
    BY <1>6 DEF EnsureTask, CancelRow, Handles, Goto
  <2>2. /\ turn'.run = 0
        /\ \/ turn'.pc = "ensured"
           \/ turn'.pc = "cancelling" /\ log[Current].type \notin RunCommands
    BY <1>2, <2>1 DEF Turn, RunCommands
  <2> QED BY <1>1, <1>3, <2>1, <2>2 DEF HandlingOK, RunStates
<1>7. CASE CreateRun
  <2>1. /\ turn' = [pc |-> "created", run |-> Len(runs) + 1, status |-> turn.status,
                    caught |-> turn.caught]
        /\ DOMAIN runs' = DOMAIN runs \cup {Len(runs) + 1}
        /\ runs'[Len(runs) + 1].command = Current
    BY <1>7, CreateRunEffect
  <2>2. turn'.pc = "created" /\ turn'.run \in DOMAIN runs' /\ runs'[turn'.run].command = Current
    BY <2>1
  <2> QED BY <1>1, <2>2 DEF HandlingOK, RunStates
<1>8. ASSUME turn.pc \in RunStates, UNCHANGED runs,
             turn'.pc \in {"thinking", "reporting", "ending"}, turn'.run = turn.run,
             turn'.pc = "ending" => turn'.status \in Outcome
      PROVE  HandlingOK'
  BY <1>1, <1>2, <1>8 DEF HandlingOK, RunStates
<1>9. CASE AppendStarted \/ AppendReport \/ AnswerFails
  <2>1. /\ turn.pc \in RunStates /\ UNCHANGED runs
        /\ \/ turn' = [turn EXCEPT !.pc = "thinking"]
           \/ turn' = [turn EXCEPT !.pc = "thinking", !.status = "none"]
           \/ turn' = [turn EXCEPT !.pc = "ending", !.status = "error", !.caught = TRUE]
    BY <1>9 DEF AppendStarted, AppendReport, AnswerFails, Goto, CatchError, RunStates, record
  <2>2. /\ turn'.run = turn.run
        /\ turn'.pc = "thinking" \/ (turn'.pc = "ending" /\ turn'.status = "error")
    BY <1>2, <2>1 DEF Turn
  <2> QED BY <1>8, <2>1, <2>2, Constants
<1>10. ASSUME NEW s \in {"running", "needs_decision"}, Report(s)
       PROVE  HandlingOK'
  <2>1. turn.pc \in RunStates /\ UNCHANGED runs
        /\ turn' = [turn EXCEPT !.pc = "reporting", !.status = s]
    BY <1>10 DEF Report, RunStates
  <2> QED BY <1>2, <1>8, <2>1, TurnChanges
<1>11. ASSUME NEW s \in Outcome, Answer(s)
       PROVE  HandlingOK'
  <2>1. turn.pc \in RunStates /\ UNCHANGED runs
        /\ turn' = [turn EXCEPT !.pc = "ending", !.status = s]
    BY <1>11 DEF Answer, RunStates, record
  <2> QED BY <1>2, <1>8, <2>1, TurnChanges
<1>12. CASE RecordEvent \/ RecordTask
  <2>1. /\ UNCHANGED runs
        /\ \/ turn.pc = "ending" /\ turn' = [turn EXCEPT !.pc = "eventRow"]
           \/ turn.pc = "runRow" /\ turn' = [turn EXCEPT !.pc = "taskRow"]
    BY <1>12 DEF RecordEvent, RecordTask, Goto
  <2>2. /\ turn'.run = turn.run /\ turn'.status = turn.status
        /\ \/ turn.pc = "ending" /\ turn'.pc = "eventRow"
           \/ turn.pc = "runRow" /\ turn'.pc = "taskRow"
    BY <1>2, <2>1 DEF Turn
  <2> QED BY <1>1, <1>2, <2>1, <2>2 DEF HandlingOK, RunStates
<1>13. CASE RecordRun
  <2>1. turn.pc = "eventRow" /\ turn' = [turn EXCEPT !.pc = "runRow"]
    BY <1>13 DEF RecordRun, Goto
  <2>2. turn'.run = turn.run /\ turn'.status = turn.status /\ turn'.pc = "runRow"
    BY <1>2, <2>1, TurnChanges
  <2>3. /\ turn.run \in DOMAIN runs' /\ runs'[turn.run].command = runs[turn.run].command
        /\ runs'[turn.run].status = turn.status
    BY <1>13, RecordRunEffect
  <2> QED BY <1>1, <1>2, <2>1, <2>2, <2>3 DEF HandlingOK, RunStates
<1>14. CASE AppendOutcome
  <2>1. turn.pc = "taskRow" /\ turn' = [turn EXCEPT !.pc = "handled"] /\ UNCHANGED runs
    BY <1>14 DEF AppendOutcome, Goto, record
  <2>2. turn'.run = turn.run /\ turn'.pc = "handled"
    BY <1>2, <2>1, TurnChanges
  <2>3. Answered(Current)' /\ runs'[turn.run].status # "running"
    BY <1>14, OutcomeAnswers
  <2> QED BY <1>1, <1>2, <2>1, <2>2, <2>3 DEF HandlingOK, RunStates
<1>15. CASE AppendCancelled
  <2>1. turn.pc = "cancelling" /\ turn' = [turn EXCEPT !.pc = "handled"]
    BY <1>15 DEF AppendCancelled, Goto
  <2>2. turn'.run = 0 /\ turn'.pc = "handled" /\ log[Current].type \notin RunCommands
    BY <1>2, <2>1, TurnChanges
  <2>3. log'[Current'] = log[Current]
    BY <1>1, <1>2, <1>3, <2>1, <2>2
  <2> QED BY <1>1, <2>2, <2>3 DEF HandlingOK, RunStates
<1>16. CASE Quietly
  <2>1. CASE UNCHANGED vars \/ Project \/ \E t \in Task : StartTask(t)
    BY <1>4, <2>1 DEF vars, Project, StartTask, record
  <2> QED BY <1>6, <1>7, <1>10, <1>9, <1>11, <1>12, <1>13, <1>16, <2>1 DEF Quietly
<1>17. CASE Append1 \/ \E t \in Task : ContinueTask(t) \/ CancelCommand(t)
  <2>1. CASE AppendStart \/ \E t \in Task : ContinueTask(t) \/ CancelCommand(t)
    BY <1>4, <2>1 DEF AppendStart, ContinueTask, CancelCommand, record
  <2> QED BY <1>9, <1>14, <1>15, <1>17, <2>1 DEF Append1
<1>18. CASE \/ \E g \in Group : Claim(g)
            \/ \E g \in Group, i \in DOMAIN log : Retry(g, i) \/ Lapse(g, i)
            \/ AckProjection \/ ProjectionThrows
  BY <1>4, <1>18 DEF Claim, Retry, Lapse, AckProjection, ProjectionThrows, record
<1>19. CASE Ack \/ Crash
  BY <1>5, <1>19 DEF Ack, Crash
<1>20. CASE Throw
  <2>1. WriteThrows /\ UNCHANGED runs
    BY <1>20 DEF Throw, record
  <2>2. CASE turn.pc \in {"ending", "eventRow", "runRow", "taskRow"} /\ CatchError
    BY <1>2, <1>8, <2>1, <2>2, TurnChanges, Constants DEF CatchError, RunStates
  <2>3. CASE turn.pc = "reporting" /\ turn' = [turn EXCEPT !.pc = "thinking", !.status = "none"]
    BY <1>2, <1>8, <2>1, <2>3, TurnChanges DEF RunStates
  <2> QED BY <1>4, <1>5, <2>1, <2>2, <2>3 DEF WriteThrows
<1> QED BY <1>16, <1>17, <1>18, <1>19, <1>20, ActionsAre

LEMMA LifeInvInit == Init => LifeInv
<1> SUFFICES ASSUME Init PROVE LifeInv
  OBVIOUS
<1>1. log = <<>> /\ HubOK
  BY HubOKInit DEF Init, HubInit
<1>2. runs = <<>> /\ Len(runs) = 0 /\ turn = Idle
  BY DEF Init
<1>3. log \in Seq(LogEntry) /\ runs \in Seq(RunRow)
  BY <1>1, <1>2
<1>4. RecordTypes
  BY <1>3, Constants DEF Init, RecordTypes
<1>5. ShownTypes
  <2>1. view = [t \in Task |-> [status |-> "none", run |-> 0]] /\ 0 \in 0..Len(runs)
    BY <1>2 DEF Init
  <2>2. view \in [Task -> [status : TaskStatus, run : 0..Len(runs)]]
    BY <2>1, Constants
  <2>3. runView = <<>> /\ projected = FALSE /\ disturbed = FALSE
    BY DEF Init
  <2>4. runView \in Seq(TaskStatus) /\ Len(runView) = 0
    BY <2>3
  <2> QED BY <1>2, <2>2, <2>3, <2>4 DEF ShownTypes
<1>6. TurnTypes
  BY <1>2, Constants DEF Init, TurnTypes, Turn, TurnState, Idle
<1>7. HandlingOK
  BY <1>2 DEF HandlingOK, Idle, RunStates
<1> QED BY <1>1, <1>3, <1>4, <1>5, <1>6, <1>7 DEF LifeInv

LEMMA LifeInvStep == LifeInv /\ [Next]_vars => LifeInv'
<1> SUFFICES ASSUME LifeInv, [Next]_vars PROVE LifeInv'
  OBVIOUS
<1>1. HubOK' /\ log' \in Seq(LogEntry)
  BY HubStep
<1>2. log' \in Seq(LogEntry')
  BY <1>1, RunsStep, WiderSequence
<1> QED BY <1>1, <1>2, RecordTypesStep, ShownTypesStep, TurnTypesStep, HandlingStep DEF LifeInv

LEMMA LifeInvAlways == Spec => []LifeInv
BY LifeInvInit, LifeInvStep, PTL DEF Spec

(* The rows of tasks, runs and events, what the projection shows of them and what the     *)
(* worker and the tools keep in their variables have their types whatever throws and      *)
(* whenever the daemon dies, for any tasks, outcomes, batch sizes and bounds.             *)
THEOREM LifecycleTypes == Spec => []TypeOK
BY LifeInvAlways, TypesInParts, PTL

-----------------------------------------------------------------------------
(* Acked is answered *)

LEMMA AnsweredStep ==
  ASSUME LifeInv, AckedIsAnswered, [Next]_vars
  PROVE  AckedIsAnswered'
<1>1. AckedIsAnswered <=>
        \A i \in DOMAIN log :
          log[i].type \in RunCommands /\ box["worker_group"][i].state = "acked" => Answered(i)
  BY DEF AckedIsAnswered, Answered
<1>2. AckedIsAnswered' <=>
        \A i \in DOMAIN log' :
          log'[i].type \in RunCommands /\ box'["worker_group"][i].state = "acked" => Answered(i)'
  BY DEF AckedIsAnswered, Answered
<1> SUFFICES ASSUME NEW i \in DOMAIN log',
                    log'[i].type \in RunCommands, box'["worker_group"][i].state = "acked"
             PROVE  Answered(i)'
  BY <1>2
<1>3. \/ i \in DOMAIN log /\ box["worker_group"][i].state = "acked"
      \/ Ack /\ i = Current
  BY HubStep
<1>4. CASE i \in DOMAIN log /\ box["worker_group"][i].state = "acked"
  <2>1. Answered(i)
    <3>1. log[i].type \in RunCommands
      BY <1>4, HubStep
    <3> QED BY <1>1, <1>4, <3>1
  <2>2. RecordRun => i # Current
    <3>1. RecordRun => batch["worker_group"] # <<>>
      BY DEF RecordRun, LifeInv, HandlingOK
    <3>2. batch["worker_group"] # <<>> => box["worker_group"][Current].state = "running"
      BY CurrentFacts
    <3> QED BY <1>4, <3>1, <3>2
  <2> QED BY <1>4, <2>1, <2>2, AnsweredStays
<1>5. CASE Ack /\ i = Current
  <2>1. turn.pc = "handled" /\ ~RecordRun
    BY <1>5 DEF Ack, RecordRun
  <2>2. batch["worker_group"] # <<>> /\ (log[Current].type \in RunCommands => Answered(Current))
    BY <2>1 DEF LifeInv, HandlingOK
  <2>3. i \in DOMAIN log /\ log'[i] = log[i]
    BY <1>5, <2>2, CurrentFacts, HubStep
  <2>4. Answered(i)
    BY <1>5, <2>2, <2>3 DEF Answered
  <2> QED BY <2>1, <2>3, <2>4, AnsweredStays
<1> QED BY <1>3, <1>4, <1>5

(* A start or continue that the worker has acked was run to an end, which is in the row   *)
(* of the run and was told by an event, whichever writes threw and wherever the daemon    *)
(* died in between.                                                                       *)
THEOREM AckedCommandsAreAnswered == Spec => []AckedIsAnswered
<1>1. Init => AckedIsAnswered
  BY DEF Init, HubInit, AckedIsAnswered
<1>2. LifeInv /\ AckedIsAnswered /\ [Next]_vars => AckedIsAnswered'
  BY AnsweredStep
<1> QED BY <1>1, <1>2, LifeInvAlways, PTL DEF Spec

-----------------------------------------------------------------------------
(* Runs that say running *)

Stale == {r \in DOMAIN runs : runs[r].status = "running" /\ r # turn.run}

LEMMA RunInHand ==
  ASSUME LifeInv, [Next]_vars
  PROVE  \/ turn'.run = turn.run
         \/ CreateRun \/ Ack
         \/ (Crash \/ Throw) /\ turn'.run = 0
<1>1. turn \in Turn
  BY DEF LifeInv, TurnTypes
<1>2. CASE Quietly
  BY <1>1, <1>2 DEF Quietly, vars, StartTask, EnsureTask, CancelRow, Report, Answer, AnswerFails,
                    RecordEvent, RecordRun, RecordTask, Project, Goto, CatchError, Turn
<1>3. CASE Append1 \/ \E t \in Task : ContinueTask(t) \/ CancelCommand(t)
  BY <1>1, <1>3 DEF Append1, AppendStart, AppendStarted, AppendReport, AppendOutcome,
                    AppendCancelled, ContinueTask, CancelCommand, Goto, Turn
<1>4. CASE \/ \E g \in Group : Claim(g)
           \/ \E g \in Group, i \in DOMAIN log : Retry(g, i) \/ Lapse(g, i)
           \/ AckProjection \/ ProjectionThrows
  BY <1>4 DEF Claim, Retry, Lapse, AckProjection, ProjectionThrows
<1>5. CASE Throw \/ Crash
  <2>1. Idle.run = 0
    BY DEF Idle
  <2>2. CASE turn' = Idle
    BY <1>5, <2>1, <2>2
  <2>3. CASE CatchError \/ turn' = [turn EXCEPT !.pc = "thinking", !.status = "none"]
    BY <1>1, <2>3 DEF CatchError, Turn
  <2> QED BY <1>5, <2>2, <2>3 DEF Throw, Crash, WriteThrows
<1> QED BY <1>2, <1>3, <1>4, <1>5, ActionsAre

LEMMA FaultsCount ==
  ASSUME LifeInv, [Next]_vars
  PROVE  /\ {crashes, throws, crashes', throws'} \subseteq Nat
         /\ crashes + throws <= crashes' + throws'
         /\ Crash \/ Throw => crashes' + throws' = crashes + throws + 1
<1>1. {crashes, throws} \subseteq Nat
  BY DEF LifeInv, TurnTypes
<1>2. \/ UNCHANGED <<crashes, throws>>
      \/ crashes' = crashes /\ throws' = throws + 1
      \/ throws' = throws /\ crashes' = crashes + 1
  <2>1. CASE Quietly
    BY <2>1 DEF Quietly, vars, StartTask, EnsureTask, CancelRow, CreateRun, Report, Answer,
                AnswerFails, RecordEvent, RecordRun, RecordTask, Project, bounds
  <2>2. CASE Append1 \/ \E t \in Task : ContinueTask(t) \/ CancelCommand(t)
    BY <2>2 DEF Append1, AppendStart, AppendStarted, AppendReport, AppendOutcome,
                AppendCancelled, ContinueTask, CancelCommand, bounds
  <2>3. CASE \/ \E g \in Group : Claim(g)
             \/ \E g \in Group, i \in DOMAIN log : Retry(g, i) \/ Lapse(g, i)
             \/ Ack \/ AckProjection \/ ProjectionThrows \/ Throw \/ Crash
    BY <2>3 DEF Claim, Retry, Lapse, Ack, AckProjection, ProjectionThrows, Throw, Crash, bounds
  <2> QED BY <2>1, <2>2, <2>3, ActionsAre
<1>3. Crash \/ Throw => \/ crashes' = crashes /\ throws' = throws + 1
                        \/ throws' = throws /\ crashes' = crashes + 1
  BY DEF Crash, Throw
<1> QED BY <1>1, <1>2, <1>3

LEMMA StaleStep ==
  ASSUME LifeInv, StaleRunsAreCutOff, [Next]_vars
  PROVE  StaleRunsAreCutOff'
<1>1. /\ DOMAIN runs = 1..Len(runs) /\ Len(runs) \in Nat /\ turn \in Turn
      /\ turn.pc \in {"idle", "ensured", "cancelling"} => turn.run = 0
      /\ turn.pc = "handled" => (turn.run # 0 => runs[turn.run].status # "running")
  BY RunsStep DEF LifeInv, HandlingOK, TurnTypes
<1>2. IsFiniteSet(Stale) /\ Cardinality(Stale) \in Nat
  <2>1. IsFiniteSet(1..Len(runs))
    BY <1>1, FS_Interval
  <2>2. Stale \subseteq 1..Len(runs)
    BY <1>1 DEF Stale
  <2> QED BY <2>1, <2>2, FS_Subset, FS_CardinalityType
<1>3. Cardinality(Stale) <= crashes + throws
  BY DEF Stale, StaleRunsAreCutOff
<1>4. SUFFICES Cardinality(Stale') <= crashes' + throws'
  BY DEF Stale, StaleRunsAreCutOff
<1>5. ASSUME Stale' \subseteq Stale
      PROVE  Cardinality(Stale') <= crashes' + throws'
  <2>1. Cardinality(Stale') <= Cardinality(Stale) /\ Cardinality(Stale') \in Nat
    BY <1>2, <1>5, FS_Subset, FS_CardinalityType
  <2> QED BY <1>2, <1>3, <2>1, FaultsCount
<1>6. ASSUME Crash \/ Throw, Stale' \subseteq Stale \cup {turn.run}
      PROVE  Cardinality(Stale') <= crashes' + throws'
  <2>1. /\ IsFiniteSet(Stale \cup {turn.run})
        /\ Cardinality(Stale \cup {turn.run}) = Cardinality(Stale)
             \/ Cardinality(Stale \cup {turn.run}) = Cardinality(Stale) + 1
    BY <1>2, FS_AddElement
  <2>2. /\ Cardinality(Stale') <= Cardinality(Stale \cup {turn.run})
        /\ Cardinality(Stale') \in Nat
    BY <1>6, <2>1, FS_Subset, FS_CardinalityType
  <2>3. crashes' + throws' = crashes + throws + 1 /\ {crashes, throws} \subseteq Nat
    BY <1>6, FaultsCount
  <2> QED BY <1>2, <1>3, <2>1, <2>2, <2>3
<1>7. CASE CreateRun
  <2>1. /\ DOMAIN runs' = DOMAIN runs \cup {Len(runs) + 1}
        /\ \A r \in DOMAIN runs : runs'[r] = runs[r]
        /\ turn'.run = Len(runs) + 1
    <3>1. /\ turn' = [pc |-> "created", run |-> Len(runs) + 1, status |-> turn.status,
                      caught |-> turn.caught]
          /\ DOMAIN runs' = DOMAIN runs \cup {Len(runs) + 1}
          /\ \A r \in DOMAIN runs : runs'[r] = runs[r]
      BY <1>7, CreateRunEffect
    <3> QED BY <3>1
  <2>2. turn.run = 0
    BY <1>1, <1>7 DEF CreateRun
  <2>3. Stale' \subseteq Stale
    BY <1>1, <2>1, <2>2 DEF Stale
  <2> QED BY <1>5, <2>3
<1>8. CASE RecordRun
  <2>1. /\ DOMAIN runs' = DOMAIN runs
        /\ \A r \in DOMAIN runs : r # turn.run => runs'[r] = runs[r]
    BY <1>8, RecordRunEffect
  <2>2. turn'.run = turn.run
    BY <1>1, <1>8 DEF RecordRun, Goto, Turn
  <2>3. Stale' \subseteq Stale
    BY <2>1, <2>2 DEF Stale
  <2> QED BY <1>5, <2>3
<1>9. CASE UNCHANGED runs
  <2>1. CASE turn'.run = turn.run
    BY <1>5, <1>9, <2>1 DEF Stale
  <2>2. CASE Ack
    <3>1. turn'.run = 0 /\ turn.pc = "handled"
      BY <2>2 DEF Ack, Idle
    <3>2. Stale' \subseteq Stale
      BY <1>1, <1>9, <3>1 DEF Stale
    <3> QED BY <1>5, <3>2
  <2>3. CASE (Crash \/ Throw) /\ turn'.run = 0
    <3>1. Stale' \subseteq Stale \cup {turn.run}
      BY <1>9 DEF Stale
    <3> QED BY <1>6, <2>3, <3>1
  <2> QED BY <1>7, <2>1, <2>2, <2>3, RunInHand
<1> QED BY <1>7, <1>8, <1>9, RunsOnlyHere

(* Every run whose row says running although it is not the one in hand has a crash or a   *)
(* throw of its own: a run never goes stale in the ordinary course of a turn.             *)
THEOREM StaleRunsHaveFaults == Spec => []StaleRunsAreCutOff
<1>1. Init => StaleRunsAreCutOff
  <2> SUFFICES ASSUME Init PROVE Cardinality(Stale) <= crashes + throws
    BY DEF Stale, StaleRunsAreCutOff
  <2>1. Stale = {} /\ crashes = 0 /\ throws = 0
    BY DEF Init, Stale
  <2> QED BY <2>1, FS_EmptySet
<1>2. LifeInv /\ StaleRunsAreCutOff /\ [Next]_vars => StaleRunsAreCutOff'
  BY StaleStep
<1> QED BY <1>1, <1>2, LifeInvAlways, PTL DEF Spec

-----------------------------------------------------------------------------
(* The projection catches up *)

(* A row is none just where the router has left its group out. *)
RoutedOK ==
  \A g \in Group : \A i \in DOMAIN log :
    box[g][i].state = "none" <=> g \notin Readers(log[i].type)

(* A command names no run, an event has a status, the one priority, and the task of its   *)
(* run.                                                                                   *)
Fits(m) ==
  IF m.type \in TaskCommands
    THEN m.run = 0
    ELSE /\ m.priority = EventPriority
         /\ m.status # "none"
         /\ m.run # 0 => m.run \in DOMAIN runs /\ runs[m.run].task = m.task
         /\ m.type = "event.task.run_started" => m.run # 0

MessagesOK == \A k \in DOMAIN log : Fits(log[k])

IsEvent(k) == log[k].type \notin TaskCommands

(* Undisturbed, the projection takes the events in the order of the log. *)
OrderOK ==
  /\ \A i \in DOMAIN log :
       /\ box["projection_group"][i].state \in {"none", "due", "running", "acked"}
       /\ box["projection_group"][i].state = "running" =>
            \E n \in DOMAIN batch["projection_group"] : batch["projection_group"][n] = i
       /\ IsEvent(i) => box["projection_group"][i].at = i
  /\ \A k \in DOMAIN log : \A j \in DOMAIN log :
       j < k /\ IsEvent(j) /\ IsEvent(k) =>
         /\ box["projection_group"][k].state = "acked" => box["projection_group"][j].state = "acked"
         /\ \A n \in DOMAIN batch["projection_group"] :
              batch["projection_group"][n] = k =>
                \/ box["projection_group"][j].state = "acked"
                \/ \E m \in DOMAIN batch["projection_group"] :
                     m < n /\ batch["projection_group"][m] = j

(* What the projection has applied: the head of its batch is, before it is acked. *)
Applied ==
  {k \in DOMAIN log : \/ box["projection_group"][k].state = "acked"
                      \/ projected /\ k = Head(batch["projection_group"])}

Events(t) == {k \in DOMAIN log : IsEvent(k) /\ log[k].task = t}
RunEvents(t) == {k \in Events(t) : log[k].run # 0}
EventsOf(r) == {k \in DOMAIN log : IsEvent(k) /\ log[k].run = r}

IsLast(k, S) == k \in S /\ \A l \in S : l <= k

Opens(k) == log[k].type = "event.task.run_started"

(* The last event of a task, or of a run, that was applied is what is shown; but the      *)
(* start of a run is not shown of a task that has no row yet.                             *)
ShownOK ==
  /\ \A t \in Task : \A k \in DOMAIN log :
       /\ IsLast(k, Events(t) \cap Applied) /\ ~Opens(k) => view[t].status = log[k].status
       /\ IsLast(k, RunEvents(t) \cap Applied) /\ ~Opens(k) => view[t].run = log[k].run
  /\ \A r \in DOMAIN runs : \A k \in DOMAIN log :
       IsLast(k, EventsOf(r) \cap Applied) => runView[r] = log[k].status

ShownRuns == \A t \in Task : view[t].run # 0 => RunEvents(t) # {}

(* A command of the task, of one of these types, that the worker has not acked. *)
Pending(t, types) ==
  \E i \in DOMAIN log :
    log[i].task = t /\ log[i].type \in types /\ box["worker_group"][i].state # "acked"

(* The row of the task, and that of its last run, are as the last event says. *)
Told(t) == \E k \in DOMAIN log : IsLast(k, Events(t)) /\ ~Opens(k) /\ log[k].status = tasks[t]

RunTold(t) ==
  \E k \in DOMAIN log :
    IsLast(k, RunEvents(t)) /\ ~Opens(k) /\ log[k].status = runs[log[k].run].status

TasksOK ==
  /\ starting # NoTask => tasks[starting] # "none"
  /\ \A t \in Task : \A i \in DOMAIN log :
       log[i].task = t =>
         /\ tasks[t] # "none"
         /\ Pending(t, TaskCommands) \/ Told(t)
         /\ log[i].run # 0 => Pending(t, RunCommands) \/ RunTold(t)

(* What the worker knows of the row of the task while it handles a command. *)
WorkOK ==
  /\ turn.pc \in RunStates \cup {"ensured"} => log[Current].type \in RunCommands
  /\ turn.pc \in RunStates => runs[turn.run].task = CurrentTask
  /\ turn.pc = "reporting" => turn.status \in {"running", "needs_decision"}
  /\ turn.pc = "taskRow" => tasks[CurrentTask] = turn.status
  /\ turn.pc = "cancelling" => tasks[CurrentTask] = "cancelled"
  /\ turn.pc = "handled" =>
       Told(CurrentTask) /\ (log[Current].type \in RunCommands => RunTold(CurrentTask))

ViewInv ==
  /\ LifeInv
  /\ RoutedOK
  /\ MessagesOK
  /\ TasksOK
  /\ WorkOK
  /\ ShownRuns
  /\ ~disturbed => OrderOK /\ ShownOK

LEMMA OutcomeFacts ==
  \A s \in Outcome : /\ s # "none"
                     /\ ToEventType(s) \notin TaskCommands
                     /\ ToEventType(s) # "event.task.run_started"
<1>1. \A s \in {"success", "warning", "error", "needs_decision", "cancelled", "timed_out"} :
        /\ s # "none"
        /\ ToEventType(s) \notin TaskCommands
        /\ ToEventType(s) # "event.task.run_started"
  BY DEF ToEventType, TaskCommands, RunCommands
<1> QED BY <1>1, ConstantsAssumption

(* What the steps that put a message on the hub say: a command of the tools, or an event  *)
(* of the task that the worker has in hand.                                               *)
LEMMA AppendsFit ==
  ASSUME LifeInv, WorkOK, TasksOK,
         \/ Append1
         \/ \E t \in Task : ContinueTask(t) \/ CancelCommand(t)
  PROVE  \E m \in LogEntry :
           /\ LogMessage(m)
           /\ Fits(m)
           /\ UNCHANGED <<batch, record, shown, bounds>>
           /\ starting' = starting \/ starting' = NoTask
           /\ \/ /\ m.type \in TaskCommands
                 /\ tasks[m.task] # "none"
                 /\ turn' = turn
              \/ /\ m.type \notin TaskCommands
                 /\ turn.pc \in RunStates \cup {"cancelling"}
                 /\ m.task = CurrentTask
                 /\ m.run # 0 => log[Current].type \in RunCommands
<1> DEFINE Goal ==
      \E m \in LogEntry :
        /\ LogMessage(m)
        /\ Fits(m)
        /\ UNCHANGED <<batch, record, shown, bounds>>
        /\ starting' = starting \/ starting' = NoTask
        /\ \/ /\ m.type \in TaskCommands
              /\ tasks[m.task] # "none"
              /\ turn' = turn
           \/ /\ m.type \notin TaskCommands
              /\ turn.pc \in RunStates \cup {"cancelling"}
              /\ m.task = CurrentTask
              /\ m.run # 0 => log[Current].type \in RunCommands
<1> SUFFICES Goal
  OBVIOUS
<1>1. /\ turn \in Turn /\ starting \in Task \cup {NoTask}
      /\ turn.pc # "idle" => batch["worker_group"] # <<>>
      /\ turn.pc \in RunStates => turn.run \in DOMAIN runs
      /\ turn.pc \in {"ending", "eventRow", "runRow", "taskRow"} => turn.status \in Outcome
  BY DEF LifeInv, TurnTypes, HandlingOK
<1>2. 0 \in 0..Len(runs) /\ 0 \notin DOMAIN runs
  BY IsIndexed DEF LifeInv, RecordTypes
<1>3. turn.run \in 0..Len(runs) /\ turn.status \in TaskStatus
  BY <1>1 DEF Turn
<1>4. UNCHANGED <<batch, record, shown, bounds>>
  BY AppendsAreMessages
<1>5. ASSUME NEW type \in {"command.task.start", "command.task.continue", "command.task.cancel"},
             NEW t \in Task, NEW p \in CommandPriority \cup {EventPriority},
             tasks[t] # "none", LogMessage(Command(type, t, p)), turn' = turn,
             starting' = starting \/ starting' = NoTask
      PROVE  Goal
  <2>1. Command(type, t, p) \in LogEntry
    BY <1>2, Constants DEF Command, LogEntry, MessageType, TaskCommands, RunCommands
  <2>2. /\ Fits(Command(type, t, p)) /\ Command(type, t, p).type \in TaskCommands
        /\ Command(type, t, p).task = t
    BY DEF Command, Fits, TaskCommands, RunCommands
  <2> QED BY <1>4, <1>5, <2>1, <2>2
<1>6. CASE AppendStart
  <2>1. PICK p \in CommandPriority : LogMessage(Command("command.task.start", starting, p))
    BY <1>6, PrioritiesAreKnown DEF AppendStart
  <2>2. starting \in Task /\ tasks[starting] # "none" /\ turn' = turn /\ starting' = NoTask
    BY <1>1, <1>6 DEF AppendStart, TasksOK
  <2> QED BY <1>5, <2>1, <2>2
<1>7. CASE \E t \in Task : ContinueTask(t)
  BY <1>5, <1>7, PrioritiesAreKnown DEF ContinueTask
<1>8. CASE \E t \in Task : CancelCommand(t)
  BY <1>5, <1>8 DEF CancelCommand
<1>9. ASSUME NEW type \in MessageType \ TaskCommands, NEW r \in 0..Len(runs),
             NEW s \in TaskStatus \ {"none"},
             turn.pc \in RunStates \/ (turn.pc = "cancelling" /\ r = 0),
             \/ r = 0 /\ type # "event.task.run_started"
             \/ r = turn.run /\ turn.pc \in RunStates,
             LogMessage(Event(type, CurrentTask, r, s)), UNCHANGED starting
      PROVE  Goal
  <2>1. CurrentTask \in Task
    BY <1>1, <1>9, CurrentFacts DEF RunStates
  <2>2. Event(type, CurrentTask, r, s) \in LogEntry
    BY <2>1, Constants DEF Event, LogEntry
  <2>3. r # 0 => /\ r \in DOMAIN runs /\ runs[r].task = CurrentTask
                 /\ log[Current].type \in RunCommands
    BY <1>1, <1>9 DEF WorkOK
  <2>4. type = "event.task.run_started" => r # 0
    BY <1>1, <1>2, <1>9
  <2>5. PICK m \in LogEntry : /\ m = Event(type, CurrentTask, r, s)
                              /\ m.type = type /\ m.task = CurrentTask /\ m.run = r
                              /\ m.status = s /\ m.priority = EventPriority
    BY <2>2 DEF Event
  <2>6. Fits(m)
    BY <2>3, <2>4, <2>5 DEF Fits
  <2> QED BY <1>4, <1>9, <2>3, <2>5, <2>6
<1> HIDE DEF Goal
<1>10. {"running", "cancelled", "needs_decision"} \subseteq TaskStatus \ {"none"}
  BY Constants
<1>11. {"event.task.run_started", "event.task.progress_updated", "event.task.needs_decision",
        "event.task.cancelled"} \subseteq MessageType \ TaskCommands
  BY DEF MessageType, TaskCommands, RunCommands
<1>12. CASE AppendStarted
  <2>1. LogMessage(Event("event.task.run_started", CurrentTask, turn.run, "running"))
        /\ turn.pc \in RunStates /\ UNCHANGED starting
    BY <1>12 DEF AppendStarted, RunStates
  <2> QED BY <1>3, <1>9, <1>10, <1>11, <2>1
<1>13. CASE AppendReport
  <2>1. PICK type \in {"event.task.progress_updated", "event.task.needs_decision"} :
          LogMessage(Event(type, CurrentTask, turn.run, turn.status))
    BY <1>13 DEF AppendReport
  <2>2. turn.status \in {"running", "needs_decision"} /\ turn.pc \in RunStates /\ UNCHANGED starting
    BY <1>13 DEF AppendReport, WorkOK, RunStates
  <2> QED BY <1>3, <1>9, <1>10, <1>11, <2>1, <2>2
<1>14. CASE AppendOutcome
  <2>1. /\ LogMessage(Event(ToEventType(turn.status), CurrentTask, turn.run, turn.status))
        /\ turn.pc \in RunStates /\ UNCHANGED starting /\ turn.status \in Outcome
    BY <1>1, <1>14 DEF AppendOutcome, RunStates
  <2>2. /\ ToEventType(turn.status) \in MessageType \ TaskCommands
        /\ turn.status \in TaskStatus \ {"none"}
    BY <2>1, OutcomeFacts, Constants
  <2> QED BY <1>3, <1>9, <2>1, <2>2
<1>15. CASE AppendCancelled
  <2>1. /\ LogMessage(Event("event.task.cancelled", CurrentTask, 0, "cancelled"))
        /\ turn.pc = "cancelling" /\ UNCHANGED starting
    BY <1>15 DEF AppendCancelled
  <2> QED BY <1>2, <1>9, <1>10, <1>11, <2>1
<1> QED BY <1>6, <1>7, <1>8, <1>12, <1>13, <1>14, <1>15 DEF Append1

(* The log is unchanged by the other steps. *)
LEMMA LogOnlyHere ==
  [Next]_vars => \/ UNCHANGED log
                 \/ Append1
                 \/ \E t \in Task : ContinueTask(t) \/ CancelCommand(t)
<1> SUFFICES ASSUME [Next]_vars
             PROVE  \/ UNCHANGED log
                    \/ Append1
                    \/ \E t \in Task : ContinueTask(t) \/ CancelCommand(t)
  OBVIOUS
<1>1. CASE Quietly
  BY <1>1 DEF Quietly, vars, StartTask, EnsureTask, CancelRow, CreateRun, Report, Answer, AnswerFails,
              RecordEvent, RecordRun, RecordTask, Project, hub
<1>2. CASE \/ \E g \in Group : Claim(g)
           \/ \E g \in Group, i \in DOMAIN log : Retry(g, i) \/ Lapse(g, i)
  BY <1>2 DEF Claim, ClaimBatch, Retry, DelayEnds, Lapse, LeaseEnds
<1>3. CASE Ack \/ AckProjection \/ ProjectionThrows \/ Throw \/ Crash
  BY <1>3 DEF Ack, AckProjection, ProjectionThrows, Throw, WriteThrows, Crash, Settle, Fail, Orphan, hub
<1> QED BY <1>1, <1>2, <1>3, ActionsAre

LEMMA MessagesStep ==
  ASSUME LifeInv, MessagesOK, WorkOK, TasksOK, [Next]_vars
  PROVE  MessagesOK'
<1>1. ASSUME NEW m, Fits(m)
      PROVE  Fits(m)'
  BY <1>1, RunsStep DEF Fits
<1>2. \A k \in DOMAIN log : Fits(log[k])
  BY DEF MessagesOK
<1>3. CASE UNCHANGED log
  BY <1>1, <1>2, <1>3 DEF MessagesOK, Fits
<1>4. CASE Append1 \/ \E t \in Task : ContinueTask(t) \/ CancelCommand(t)
  <2>1. PICK m \in LogEntry : LogMessage(m) /\ Fits(m)
    BY <1>4, AppendsFit
  <2>2. log' = Append(log, m) /\ log \in Seq(LogEntry)
    BY <2>1 DEF LogMessage, LogFor, LifeInv
  <2>3. /\ DOMAIN log' = DOMAIN log \cup {Len(log) + 1}
        /\ \A i \in DOMAIN log : log'[i] = log[i]
        /\ log'[Len(log) + 1] = m
    BY <2>1, <2>2, Appended
  <2> QED BY <1>1, <1>2, <2>1, <2>3 DEF MessagesOK, Fits
<1> QED BY <1>3, <1>4, LogOnlyHere

(* A message has a row for the group that acts on it. *)
LEMMA RoutedStep ==
  ASSUME LifeInv, RoutedOK, WorkOK, TasksOK, [Next]_vars
  PROVE  RoutedOK'
<1>1. HubOK /\ log \in Seq(LogEntry) /\ {"worker_group", "projection_group"} \subseteq Group
  BY Constants DEF LifeInv
<1>2. ASSUME UNCHANGED log,
             \A g \in Group : \A i \in DOMAIN log :
               box'[g][i].state = "none" <=> box[g][i].state = "none"
      PROVE  RoutedOK'
  BY <1>2 DEF RoutedOK, Readers
<1>3. CASE Quietly
  <2>1. UNCHANGED <<log, box>>
    BY <1>3 DEF Quietly, vars, StartTask, EnsureTask, CancelRow, CreateRun, Report, Answer, AnswerFails,
                RecordEvent, RecordRun, RecordTask, Project, hub
  <2> QED BY <1>2, <2>1
<1>4. CASE Append1 \/ \E t \in Task : ContinueTask(t) \/ CancelCommand(t)
  <2>1. PICK m \in LogEntry : LogMessage(m) /\ UNCHANGED batch
    BY <1>4, AppendsFit
  <2>3. /\ DOMAIN log' = DOMAIN log \cup {Len(log) + 1}
        /\ \A i \in DOMAIN log : log'[i] = log[i]
        /\ log'[Len(log) + 1] = m
        /\ \A g \in Group :
             /\ \A i \in DOMAIN log : box'[g][i] = box[g][i]
             /\ box'[g][Len(log) + 1].state = IF g \in Readers(m.type) THEN "due" ELSE "none"
    BY <1>1, <2>1, MessageEffect
  <2>4. \A type : Readers(type)' = Readers(type)
    BY DEF Readers
  <2> QED BY <2>3, <2>4 DEF RoutedOK
<1>5. ASSUME NEW g \in Group, Claim(g)
      PROVE  RoutedOK'
  <2>1. ClaimBatch(g)
    BY <1>5 DEF Claim
  <2>2. /\ UNCHANGED log
        /\ \A h \in Group \ {g} : box'[h] = box[h]
        /\ \A i \in DOMAIN log :
             \/ box'[g][i] = box[g][i]
             \/ box[g][i].state = "due" /\ box'[g][i].state = "running"
    BY <1>1, <2>1, ClaimEffect
  <2> QED BY <1>2, <2>2
<1>6. ASSUME NEW g \in Group, NEW i \in DOMAIN log, Retry(g, i) \/ Lapse(g, i)
      PROVE  RoutedOK'
  <2>1. DelayEnds(g, i) \/ LeaseEnds(g, i)
    BY <1>6 DEF Retry, Lapse
  <2>2. /\ UNCHANGED log
        /\ box[g][i].state \in {"cooling", "orphaned"}
        /\ \A h \in Group \ {g} : box'[h] = box[h]
        /\ box'[g][i].state = "due"
        /\ \A k \in DOMAIN log : k # i => box'[g][k] = box[g][k]
    BY <1>1, <2>1, DelayEndsEffect, LeaseEndsEffect
  <2> QED BY <1>2, <2>2
<1>7. ASSUME NEW g \in Group, NEW s \in {"acked", "dead_letter", "cooling"}, Settle(g, s),
             batch[g] # <<>>
      PROVE  RoutedOK'
  <2>1. s \in RowState
    BY DEF RowState
  <2>2. /\ UNCHANGED log /\ box[g][Head(batch[g])].state = "running"
        /\ \A h \in Group \ {g} : box'[h] = box[h]
        /\ box'[g][Head(batch[g])].state = s
        /\ \A i \in DOMAIN log : i # Head(batch[g]) => box'[g][i] = box[g][i]
    BY <1>1, <1>7, <2>1, SettleEffect
  <2> QED BY <1>2, <2>2
<1>8. turn.pc # "idle" => batch["worker_group"] # <<>>
  BY DEF LifeInv, HandlingOK
<1>9. projected => batch["projection_group"] # <<>>
  BY DEF LifeInv, ShownTypes
<1>10. CASE Ack \/ AckProjection
  BY <1>1, <1>7, <1>8, <1>9, <1>10 DEF Ack, AckProjection
<1>11. CASE ProjectionThrows
  BY <1>1, <1>7, <1>11, FailSettles DEF ProjectionThrows
<1>12. CASE Throw
  <2>1. CASE turn.pc # "idle" /\ Fail("worker_group")
    BY <1>1, <1>7, <1>8, <2>1, FailSettles
  <2>2. CASE UNCHANGED hub
    BY <1>2, <2>2 DEF hub
  <2>3. turn \in Turn
    BY DEF LifeInv, TurnTypes
  <2>4. (turn.pc # "idle" /\ Fail("worker_group")) \/ UNCHANGED hub
    BY <1>12 DEF Throw, WriteThrows
  <2> QED BY <2>1, <2>2, <2>4
<1>13. CASE Crash
  <2>1. Orphan
    BY <1>13 DEF Crash
  <2>2. /\ UNCHANGED log
        /\ \A g \in Group : \A i \in DOMAIN log :
             \/ box[g][i].state = "running" /\ box'[g][i].state = "orphaned"
             \/ box'[g][i] = box[g][i]
    <3>1. /\ UNCHANGED log
          /\ \A g \in Group : \A i \in DOMAIN log :
               IF box[g][i].state = "running"
                 THEN box'[g][i].state = "orphaned" /\ box'[g][i].at = box[g][i].at
                 ELSE box'[g][i] = box[g][i]
      BY <1>1, <2>1, OrphanEffect
    <3> QED BY <3>1
  <2> QED BY <1>2, <2>2
<1> QED BY <1>3, <1>4, <1>5, <1>6, <1>10, <1>11, <1>12, <1>13, ActionsAre

(* What a step may do to the rows of the projection and to what it shows, as long as it   *)
(* takes its messages in order.                                                           *)
LEMMA ProjectionSteps ==
  ASSUME LifeInv, [Next]_vars, ~disturbed', ~disturbed => OrderOK
  PROVE  /\ ~disturbed
         /\ \/ /\ UNCHANGED log
               /\ batch'["projection_group"] = batch["projection_group"]
               /\ \A i \in DOMAIN log : box'["projection_group"][i] = box["projection_group"][i]
               /\ \/ UNCHANGED <<view, projected>> /\ (UNCHANGED runView \/ CreateRun)
                  \/ Project
            \/ Append1 \/ \E t \in Task : ContinueTask(t) \/ CancelCommand(t)
            \/ Claim("projection_group")
            \/ AckProjection
<1> DEFINE Still ==
      /\ UNCHANGED log
      /\ batch'["projection_group"] = batch["projection_group"]
      /\ \A i \in DOMAIN log : box'["projection_group"][i] = box["projection_group"][i]
      /\ \/ UNCHANGED <<view, projected>> /\ (UNCHANGED runView \/ CreateRun)
         \/ Project
<1>1. /\ HubOK /\ log \in Seq(LogEntry) /\ {"worker_group", "projection_group"} \subseteq Group
      /\ turn.pc # "idle" => batch["worker_group"] # <<>>
      /\ projected => batch["projection_group"] # <<>>
      /\ projected \in BOOLEAN
  BY Constants DEF LifeInv, HandlingOK, ShownTypes
<1>2. ASSUME Quietly
      PROVE  Still
  <2>1. /\ UNCHANGED <<log, box, batch, disturbed>>
        /\ \/ UNCHANGED <<view, projected>> /\ (UNCHANGED runView \/ CreateRun)
           \/ Project
    BY <1>2 DEF Quietly, vars, StartTask, EnsureTask, CancelRow, CreateRun, Report, Answer, AnswerFails,
                RecordEvent, RecordRun, RecordTask, Project, hub, shown
  <2> QED BY <2>1
<1>3. CASE Append1 \/ \E t \in Task : ContinueTask(t) \/ CancelCommand(t)
  <2>1. UNCHANGED disturbed
    BY <1>3, AppendsAreMessages DEF shown
  <2> QED BY <1>3, <2>1
<1>4. ASSUME NEW g \in Group, Claim(g)
      PROVE  ~disturbed /\ (Still \/ Claim("projection_group"))
  <2>1. ClaimBatch(g) /\ UNCHANGED <<view, runView, projected, disturbed>>
    BY <1>4 DEF Claim, shown
  <2>2. CASE g # "projection_group"
    <3>1. /\ UNCHANGED log
          /\ \A h \in Group \ {g} : batch'[h] = batch[h] /\ box'[h] = box[h]
      BY <1>1, <2>1, ClaimEffect
    <3> QED BY <1>1, <2>1, <2>2, <3>1
  <2> QED BY <1>4, <2>1, <2>2
<1>5. ASSUME NEW g \in Group, NEW i \in DOMAIN log, Retry(g, i) \/ Lapse(g, i)
      PROVE  ~disturbed /\ Still
  <2>1. DelayEnds(g, i) \/ LeaseEnds(g, i)
    BY <1>5 DEF Retry, Lapse
  <2>2. UNCHANGED <<view, runView, projected, disturbed>>
    BY <1>5 DEF Retry, Lapse, shown
  <2>3. /\ UNCHANGED <<log, batch>>
        /\ box[g][i].state \in {"cooling", "orphaned"}
        /\ \A h \in Group \ {g} : box'[h] = box[h]
    BY <1>1, <2>1, DelayEndsEffect, LeaseEndsEffect
  <2>4. g # "projection_group"
    BY <2>2, <2>3 DEF OrderOK
  <2> QED BY <1>1, <2>2, <2>3, <2>4
<1>6. ASSUME NEW s \in RowState, Settle("worker_group", s), batch["worker_group"] # <<>>,
             UNCHANGED <<view, runView, projected>>
      PROVE  Still
  <2>1. /\ UNCHANGED log
        /\ \A h \in Group \ {"worker_group"} : batch'[h] = batch[h] /\ box'[h] = box[h]
    BY <1>1, <1>6, SettleEffect
  <2> QED BY <1>1, <1>6, <2>1
<1>7. {"acked", "dead_letter", "cooling"} \subseteq RowState
  BY DEF RowState
<1>8. ASSUME Ack
      PROVE  Still
  BY <1>1, <1>6, <1>7, <1>8 DEF Ack, shown
<1>9. CASE AckProjection
  BY <1>9 DEF AckProjection
<1>10. ASSUME Throw
       PROVE  Still
  <2>1. UNCHANGED <<view, runView, projected, disturbed>>
    BY <1>10 DEF Throw, shown
  <2>2. CASE turn.pc # "idle" /\ Fail("worker_group")
    BY <1>1, <1>6, <1>7, <2>1, <2>2, FailSettles
  <2>3. CASE UNCHANGED hub
    BY <2>1, <2>3 DEF hub
  <2>4. (turn.pc # "idle" /\ Fail("worker_group")) \/ UNCHANGED hub
    <3>1. turn \in Turn
      BY DEF LifeInv, TurnTypes
    <3> QED BY <1>10 DEF Throw, WriteThrows
  <2> QED BY <2>1, <2>2, <2>3, <2>4
<1>11. ASSUME Crash
       PROVE  Still
  <2>1. /\ Orphan /\ projected' = FALSE /\ UNCHANGED <<view, runView>>
        /\ ~disturbed /\ batch["projection_group"] = <<>>
    BY <1>11 DEF Crash
  <2>2. /\ UNCHANGED log /\ batch'["projection_group"] = <<>>
        /\ \A g \in Group : \A i \in DOMAIN log :
             IF box[g][i].state = "running"
               THEN box'[g][i].state = "orphaned" /\ box'[g][i].at = box[g][i].at
               ELSE box'[g][i] = box[g][i]
    BY <1>1, <2>1, OrphanEffect
  <2>3. \A i \in DOMAIN log : box["projection_group"][i].state # "running"
    BY <2>1 DEF OrderOK
  <2>4. UNCHANGED projected
    BY <1>1, <2>1
  <2> QED BY <1>1, <2>1, <2>2, <2>3, <2>4
<1>12. ~ProjectionThrows
  BY DEF ProjectionThrows
<1> HIDE DEF Still
<1>13. /\ ~disturbed
       /\ \/ Still
          \/ Append1 \/ \E t \in Task : ContinueTask(t) \/ CancelCommand(t)
          \/ Claim("projection_group")
          \/ AckProjection
  <2>1. Ack => ~disturbed
    BY DEF Ack, shown
  <2>2. AckProjection => ~disturbed
    BY DEF AckProjection
  <2>3. Throw => ~disturbed
    BY DEF Throw, shown
  <2>4. Crash => ~disturbed
    BY DEF Crash
  <2>5. (Append1 \/ \E t \in Task : ContinueTask(t) \/ CancelCommand(t)) => ~disturbed
    BY AppendsAreMessages DEF shown
  <2>6. Quietly => ~disturbed
    BY DEF Quietly, vars, StartTask, EnsureTask, CancelRow, CreateRun, Report, Answer, AnswerFails,
           RecordEvent, RecordRun, RecordTask, Project, shown
  <2>7. (Ack \/ Throw \/ Crash \/ Quietly) => Still
    BY <1>2, <1>8, <1>10, <1>11 DEF Still
  <2> QED BY <1>4, <1>5, <1>12, <2>1, <2>2, <2>3, <2>4, <2>5, <2>6, <2>7, ActionsAre
<1> QED BY <1>13 DEF Still

(* The projection's rows of events that are not acked are due or in its batch. *)
LEMMA ProjectionRows ==
  ASSUME LifeInv, RoutedOK, OrderOK
  PROVE  /\ "projection_group" \in Group
         /\ batch["projection_group"] \in Seq(DOMAIN log)
         /\ \A n \in DOMAIN batch["projection_group"] :
              /\ batch["projection_group"][n] \in DOMAIN log
              /\ box["projection_group"][batch["projection_group"][n]].state = "running"
         /\ \A i \in DOMAIN log :
              IsEvent(i) => box["projection_group"][i].state \in {"due", "running", "acked"}
         /\ DOMAIN log \subseteq Nat
<1>1. "projection_group" \in Group /\ HubOK /\ log \in Seq(LogEntry)
  BY Constants DEF LifeInv
<1>2. batch["projection_group"] \in Seq(DOMAIN log)
  BY <1>1 DEF HubOK, BatchOK
<1>3. \A n \in DOMAIN batch["projection_group"] :
        /\ batch["projection_group"][n] \in DOMAIN log
        /\ box["projection_group"][batch["projection_group"][n]].state = "running"
  BY <1>1, <1>2, IsIndexed DEF HubOK, BatchOK
<1>4. ASSUME NEW i \in DOMAIN log, IsEvent(i)
      PROVE  box["projection_group"][i].state \in {"due", "running", "acked"}
  <2>1. "projection_group" \in Readers(log[i].type)
    BY <1>1, <1>4 DEF Readers, IsEvent
  <2>2. box["projection_group"][i].state # "none"
    BY <1>1, <2>1 DEF RoutedOK
  <2> QED BY <2>2 DEF OrderOK
<1>5. DOMAIN log = 1..Len(log) /\ Len(log) \in Nat
  BY <1>1, IsIndexed
<1> QED BY <1>1, <1>2, <1>3, <1>4, <1>5

(* The order of the events that k comes after. *)
InOrder(k) ==
  \A j \in DOMAIN log :
    j < k /\ IsEvent(j) /\ IsEvent(k) =>
      /\ box["projection_group"][k].state = "acked" => box["projection_group"][j].state = "acked"
      /\ \A n \in DOMAIN batch["projection_group"] :
           batch["projection_group"][n] = k =>
             \/ box["projection_group"][j].state = "acked"
             \/ \E m \in DOMAIN batch["projection_group"] :
                  m < n /\ batch["projection_group"][m] = j

RowOK(i) ==
  /\ box["projection_group"][i].state \in {"none", "due", "running", "acked"}
  /\ box["projection_group"][i].state = "running" =>
       \E n \in DOMAIN batch["projection_group"] : batch["projection_group"][n] = i
  /\ IsEvent(i) => box["projection_group"][i].at = i

LEMMA OrderInParts ==
  /\ OrderOK <=> \A i \in DOMAIN log : RowOK(i) /\ InOrder(i)
  /\ OrderOK' <=> \A i \in DOMAIN log' : RowOK(i)' /\ InOrder(i)'
BY DEF OrderOK, RowOK, InOrder

LEMMA OrderOfAppend ==
  ASSUME LifeInv, RoutedOK, OrderOK, NEW m \in LogEntry, LogMessage(m), UNCHANGED batch
  PROVE  OrderOK'
<1>1. /\ HubOK /\ log \in Seq(LogEntry) /\ "projection_group" \in Group
      /\ DOMAIN log = 1..Len(log) /\ Len(log) \in Nat
  BY Constants, IsIndexed DEF LifeInv
<1>3. /\ DOMAIN log' = DOMAIN log \cup {Len(log) + 1}
      /\ \A i \in DOMAIN log : i # Len(log) + 1 /\ log'[i] = log[i]
      /\ \A g \in Group :
           /\ \A i \in DOMAIN log : box'[g][i] = box[g][i]
           /\ box'[g][Len(log) + 1].state
                = IF g \in Readers(m.type) THEN "due" ELSE "none"
           /\ box'[g][Len(log) + 1].at = Len(log) + 1
  BY <1>1, MessageEffect
<1>4. PICK new \in Nat : new = Len(log) + 1
  BY <1>1
<1>5. /\ DOMAIN log' = DOMAIN log \cup {new}
      /\ \A i \in DOMAIN log : i # new /\ log'[i] = log[i] /\ ~(new < i) /\ i \in Nat
      /\ \A i \in DOMAIN log : box'["projection_group"][i] = box["projection_group"][i]
      /\ box'["projection_group"][new].state \in {"due", "none"}
      /\ box'["projection_group"][new].at = new
      /\ ~(new < new)
  BY <1>1, <1>3, <1>4
<1>6. \A n \in DOMAIN batch["projection_group"] : batch["projection_group"][n] \in DOMAIN log
  BY ProjectionRows
<1>7. batch'["projection_group"] = batch["projection_group"]
  OBVIOUS
<1>8. ASSUME NEW i \in DOMAIN log'
      PROVE  RowOK(i)'
  BY <1>5, <1>7, <1>8, OrderInParts DEF RowOK, IsEvent
<1>9. ASSUME NEW i \in DOMAIN log'
      PROVE  InOrder(i)'
  <2>1. CASE i \in DOMAIN log
    <3>1. InOrder(i)
      BY <2>1, OrderInParts
    <3> QED BY <1>5, <1>7, <2>1, <3>1 DEF InOrder, IsEvent
  <2>2. CASE i = new
    BY <1>5, <1>6, <1>7, <2>2 DEF InOrder
  <2> QED BY <1>5, <2>1, <2>2
<1> QED BY <1>8, <1>9, OrderInParts

LEMMA OrderOfClaim ==
  ASSUME LifeInv, RoutedOK, MessagesOK, OrderOK, Claim("projection_group")
  PROVE  OrderOK'
<1> DEFINE P == "projection_group"
           B == batch'["projection_group"]
<1>1. /\ HubOK /\ log \in Seq(LogEntry) /\ P \in Group
      /\ ClaimBatch(P)
  BY Constants DEF LifeInv, Claim
<1>2. /\ UNCHANGED log
      /\ batch[P] = <<>> /\ B \in NextBatch(P)
      /\ \A i \in DOMAIN log :
           \/ box'[P][i] = box[P][i] /\ \A n \in DOMAIN B : B[n] # i
           \/ /\ box[P][i].state = "due" /\ box'[P][i].state = "running"
              /\ box'[P][i].at = box[P][i].at
              /\ \E n \in DOMAIN B : B[n] = i
  BY <1>1, ClaimEffect
<1>3. ASSUME NEW i \in DOMAIN log
      PROVE  RowOK(i)'
  <2>1. RowOK(i)
    BY OrderInParts
  <2>2. box[P][i].state # "running"
    BY <1>2, <2>1 DEF RowOK
  <2> QED BY <1>2, <2>1, <2>2 DEF RowOK, IsEvent
<1>4. ASSUME NEW k \in DOMAIN log, NEW j \in DOMAIN log, j < k, IsEvent(j), IsEvent(k),
             NEW n \in DOMAIN B, B[n] = k, box[P][j].state # "acked"
      PROVE  \E m \in DOMAIN B : m < n /\ B[m] = j
  <2>1. box[P][j].state = "due" /\ j \in Due(P)
    <3>1. box[P][j].state \in {"due", "running", "acked"}
      BY <1>4, ProjectionRows
    <3>2. box[P][j].state # "running"
      BY <1>2 DEF OrderOK
    <3> QED BY <1>4, <3>1, <3>2 DEF Due
  <2>2. PICK s : s = Min({BatchSize[P], Cardinality(Due(P))})
    OBVIOUS
  <2>3. /\ B \in [1..s -> Due(P)] /\ n \in 1..s
        /\ LET left == Due(P) \ {B[m] : m \in 1..(n - 1)}
           IN  \A i \in left \ {B[n]} : Before(P, B[n], i)
    BY <1>2, <1>4, <2>2 DEF NextBatch
  <2>4. ~Before(P, k, j)
    <3>1. log[k].priority = EventPriority /\ log[j].priority = EventPriority
      BY <1>4 DEF MessagesOK, Fits, IsEvent
    <3>2. box[P][k].at = k /\ box[P][j].at = j
      BY <1>4 DEF OrderOK
    <3>3. EventPriority \in Nat /\ k \in Nat /\ j \in Nat
      BY Constants, ProjectionRows
    <3>4. ~(EventPriority < EventPriority) /\ ~(k < j) /\ k # j
      BY <1>4, <3>3
    <3> QED BY <3>1, <3>2, <3>4 DEF Before
  <2>5. j # k
    BY <1>4, ProjectionRows
  <2>6. PICK m \in 1..(n - 1) : B[m] = j
    BY <1>4, <2>1, <2>3, <2>4, <2>5
  <2>7. DOMAIN B = 1..Len(B) /\ Len(B) \in Nat
    <3>1. B \in Seq(DOMAIN log')
      BY <1>1, ClaimEffect DEF HubOK, BatchOK
    <3> QED BY <3>1, IsIndexed
  <2>8. m \in DOMAIN B /\ m < n
    BY <1>4, <2>7
  <2> QED BY <2>6, <2>8
<1>5. ASSUME NEW k \in DOMAIN log
      PROVE  InOrder(k)'
  <2>1. InOrder(k)
    BY OrderInParts
  <2>2. ASSUME NEW i \in DOMAIN log
        PROVE  box'[P][i].state = "acked" <=> box[P][i].state = "acked"
    BY <1>2
  <2>3. \A i \in DOMAIN log : IsEvent(i)' <=> IsEvent(i)
    BY <1>2 DEF IsEvent
  <2> SUFFICES ASSUME NEW j \in DOMAIN log, j < k, IsEvent(j), IsEvent(k)
               PROVE  /\ box'[P][k].state = "acked" => box'[P][j].state = "acked"
                      /\ \A n \in DOMAIN B :
                           B[n] = k => \/ box'[P][j].state = "acked"
                                       \/ \E m \in DOMAIN B : m < n /\ B[m] = j
    BY <1>2, <2>3 DEF InOrder
  <2> QED BY <1>4, <2>1, <2>2 DEF InOrder
<1> QED BY <1>2, <1>3, <1>5, OrderInParts

LEMMA OrderOfAck ==
  ASSUME LifeInv, RoutedOK, OrderOK, AckProjection
  PROVE  OrderOK'
<1> DEFINE P == "projection_group"
           h == Head(batch[P])
<1>1. /\ HubOK /\ log \in Seq(LogEntry) /\ P \in Group
      /\ Settle(P, "acked") /\ batch[P] # <<>> /\ "acked" \in RowState
  BY Constants DEF LifeInv, ShownTypes, AckProjection, RowState
<1>2. /\ UNCHANGED log
      /\ h \in DOMAIN log
      /\ batch'[P] = Tail(batch[P])
      /\ box'[P][h] = [box[P][h] EXCEPT !.state = "acked"]
      /\ box'[P][h].state = "acked"
      /\ \A i \in DOMAIN log : i # h => box'[P][i] = box[P][i]
  BY <1>1, SettleEffect
<1>3. /\ h = batch[P][1] /\ 1 \in DOMAIN batch[P]
      /\ \A n \in DOMAIN batch'[P] : n + 1 \in DOMAIN batch[P] /\ batch'[P][n] = batch[P][n + 1]
      /\ \A n \in DOMAIN batch[P] : n \in Nat /\ (n # 1 => n - 1 \in DOMAIN batch'[P]
                                                          /\ batch'[P][n - 1] = batch[P][n])
      /\ \A n \in DOMAIN batch'[P] : n \in Nat
  <2>1. batch[P] \in Seq(DOMAIN log)
    BY ProjectionRows
  <2>2. /\ Len(batch[P]) \in Nat /\ DOMAIN batch[P] = 1..Len(batch[P])
        /\ Tail(batch[P]) \in Seq(DOMAIN log) /\ Len(Tail(batch[P])) = Len(batch[P]) - 1
        /\ DOMAIN Tail(batch[P]) = 1..(Len(batch[P]) - 1)
        /\ \A n \in 1..(Len(batch[P]) - 1) : Tail(batch[P])[n] = batch[P][n + 1]
    <3>1. Len(batch[P]) \in Nat /\ DOMAIN batch[P] = 1..Len(batch[P])
      BY <2>1, IsIndexed
    <3>2. /\ Tail(batch[P]) \in Seq(DOMAIN log) /\ Len(Tail(batch[P])) = Len(batch[P]) - 1
          /\ \A n \in 1..Len(Tail(batch[P])) : Tail(batch[P])[n] = batch[P][n + 1]
      BY <1>1, <2>1, HeadTailProperties
    <3>3. DOMAIN Tail(batch[P]) = 1..Len(Tail(batch[P]))
      BY <3>2, IsIndexed
    <3> QED BY <3>1, <3>2, <3>3
  <2>3. \A n \in DOMAIN batch[P] : n # 1 => /\ n - 1 \in 1..(Len(batch[P]) - 1)
                                            /\ (n - 1) + 1 = n
    BY <2>2
  <2>4. h = batch[P][1] /\ 1 \in DOMAIN batch[P]
    BY <1>1, <2>1, TailFacts
  <2>5. \A n \in DOMAIN batch[P] : n # 1 => Tail(batch[P])[n - 1] = batch[P][n]
    BY <2>2, <2>3
  <2> QED BY <1>2, <2>2, <2>3, <2>4, <2>5
<1>4. ASSUME NEW i \in DOMAIN log
      PROVE  RowOK(i)'
  <2>1. RowOK(i)
    BY OrderInParts
  <2>2. CASE i = h
    <3>1. box'[P][i].at = box[P][i].at
      <4>1. box[P][i] \in Row
        BY <1>1, BoxFacts DEF HubOK
      <4> QED BY <1>2, <2>2, <4>1 DEF Row
    <3> QED BY <1>2, <2>1, <2>2, <3>1 DEF RowOK, IsEvent
  <2>3. CASE i # h
    <3>1. box'[P][i] = box[P][i]
      BY <1>2, <2>3
    <3>2. box[P][i].state = "running" => \E n \in DOMAIN batch'[P] : batch'[P][n] = i
      <4> SUFFICES ASSUME box[P][i].state = "running"
                   PROVE  \E n \in DOMAIN batch'[P] : batch'[P][n] = i
        OBVIOUS
      <4>1. PICK n \in DOMAIN batch[P] : batch[P][n] = i
        BY <2>1 DEF RowOK
      <4>2. n # 1
        BY <1>3, <2>3, <4>1
      <4> QED BY <1>3, <4>1, <4>2
    <3> QED BY <1>2, <2>1, <3>1, <3>2 DEF RowOK, IsEvent
  <2> QED BY <2>2, <2>3
<1>5. ASSUME NEW k \in DOMAIN log, NEW j \in DOMAIN log, j < k, IsEvent(j), IsEvent(k)
      PROVE  /\ box'[P][k].state = "acked" => box'[P][j].state = "acked"
             /\ \A n \in DOMAIN batch'[P] :
                  batch'[P][n] = k => \/ box'[P][j].state = "acked"
                                      \/ \E m \in DOMAIN batch'[P] : m < n /\ batch'[P][m] = j
  <2>1. /\ box[P][k].state = "acked" => box[P][j].state = "acked"
        /\ \A n \in DOMAIN batch[P] :
             batch[P][n] = k => \/ box[P][j].state = "acked"
                                \/ \E m \in DOMAIN batch[P] : m < n /\ batch[P][m] = j
    BY <1>5 DEF OrderOK
  <2>2. box[P][j].state = "acked" => box'[P][j].state = "acked"
    BY <1>2
  <2>3. box'[P][k].state = "acked" => box'[P][j].state = "acked"
    <3>1. CASE k # h
      BY <1>2, <2>1, <2>2, <3>1
    <3>2. CASE k = h
      <4>1. \A m \in DOMAIN batch[P] : ~(m < 1)
        BY ProjectionRows, IsIndexed
      <4> QED BY <1>3, <2>1, <2>2, <3>2, <4>1
    <3> QED BY <3>1, <3>2
  <2>4. ASSUME NEW n \in DOMAIN batch'[P], batch'[P][n] = k, box'[P][j].state # "acked"
        PROVE  \E m \in DOMAIN batch'[P] : m < n /\ batch'[P][m] = j
    <3>1. n + 1 \in DOMAIN batch[P] /\ batch[P][n + 1] = k
      BY <1>3, <2>4
    <3>2. PICK m \in DOMAIN batch[P] : m < n + 1 /\ batch[P][m] = j
      BY <2>1, <2>2, <2>4, <3>1
    <3>3. m # 1
      BY <1>2, <1>3, <2>4, <3>2
    <3>4. m - 1 < n
      BY <1>3, <3>2
    <3> QED BY <1>3, <3>2, <3>3, <3>4
  <2> QED BY <2>3, <2>4
<1>6. ASSUME NEW k \in DOMAIN log
      PROVE  InOrder(k)'
  <2>1. \A i \in DOMAIN log : IsEvent(i)' <=> IsEvent(i)
    BY <1>2 DEF IsEvent
  <2> QED BY <1>2, <1>5, <2>1 DEF InOrder
<1> QED BY <1>2, <1>4, <1>6, OrderInParts

LEMMA OrderStep ==
  ASSUME LifeInv, RoutedOK, MessagesOK, WorkOK, TasksOK, ~disturbed => OrderOK, [Next]_vars,
         ~disturbed'
  PROVE  OrderOK'
<1>1. ~disturbed /\ OrderOK
  BY ProjectionSteps
<1>2. CASE /\ UNCHANGED log
           /\ batch'["projection_group"] = batch["projection_group"]
           /\ \A i \in DOMAIN log : box'["projection_group"][i] = box["projection_group"][i]
  <2>1. \A i \in DOMAIN log : IsEvent(i)' <=> IsEvent(i)
    BY <1>2 DEF IsEvent
  <2> QED BY <1>1, <1>2, <2>1 DEF OrderOK
<1>3. CASE Append1 \/ \E t \in Task : ContinueTask(t) \/ CancelCommand(t)
  BY <1>1, <1>3, AppendsFit, OrderOfAppend
<1> QED BY <1>1, <1>2, <1>3, OrderOfClaim, OrderOfAck, ProjectionSteps

(* Only Project shows anything, and only it adds to what the projection has applied. *)
LEMMA AppliedStep ==
  ASSUME LifeInv, RoutedOK, WorkOK, TasksOK, OrderOK, ~disturbed, [Next]_vars, ~disturbed'
  PROVE  \/ Project
         \/ Applied' = Applied /\ UNCHANGED view /\ (UNCHANGED runView \/ CreateRun)
<1> DEFINE P == "projection_group"
<1>1. /\ HubOK /\ log \in Seq(LogEntry) /\ P \in Group
      /\ projected => batch[P] # <<>>
      /\ DOMAIN log = 1..Len(log) /\ Len(log) \in Nat
  BY Constants, IsIndexed DEF LifeInv, ShownTypes
<1>2. batch[P] # <<>> => Head(batch[P]) \in DOMAIN log
  <2>1. batch[P] \in Seq(DOMAIN log)
    BY ProjectionRows
  <2> QED BY <2>1, TailFacts
<1>3. CASE /\ UNCHANGED log
           /\ batch'[P] = batch[P]
           /\ \A i \in DOMAIN log : box'[P][i] = box[P][i]
           /\ UNCHANGED <<view, projected>> /\ (UNCHANGED runView \/ CreateRun)
  BY <1>3 DEF Applied
<1>4. CASE Append1 \/ \E t \in Task : ContinueTask(t) \/ CancelCommand(t)
  <2>1. PICK m \in LogEntry : LogMessage(m)
    BY <1>4, AppendsFit
  <2>2. UNCHANGED <<batch, view, runView, projected>>
    BY <1>4, AppendsAreMessages DEF shown
  <2>4. /\ DOMAIN log' = DOMAIN log \cup {Len(log) + 1}
        /\ \A g \in Group :
             /\ \A i \in DOMAIN log : box'[g][i] = box[g][i]
             /\ box'[g][Len(log) + 1].state
                  = IF g \in Readers(m.type) THEN "due" ELSE "none"
    BY <1>1, <2>1, <2>2, MessageEffect
  <2>5. PICK new : new = Len(log) + 1
    OBVIOUS
  <2>6. /\ DOMAIN log' = DOMAIN log \cup {new} /\ new \notin DOMAIN log
        /\ \A i \in DOMAIN log : box'[P][i] = box[P][i]
        /\ box'[P][new].state # "acked"
    BY <1>1, <2>4, <2>5
  <2>7. Applied' = Applied
    BY <1>1, <1>2, <2>2, <2>6 DEF Applied
  <2> QED BY <2>2, <2>7
<1>5. CASE Claim(P)
  <2>1. ClaimBatch(P) /\ UNCHANGED <<view, runView, projected>>
    BY <1>5 DEF Claim, shown
  <2>2. /\ UNCHANGED log /\ batch[P] = <<>>
        /\ \A i \in DOMAIN log :
             \/ box'[P][i] = box[P][i]
             \/ box[P][i].state = "due" /\ box'[P][i].state = "running"
    BY <1>1, <2>1, ClaimEffect
  <2>3. Applied' = Applied
    BY <1>1, <2>1, <2>2 DEF Applied
  <2> QED BY <2>1, <2>3
<1>6. CASE AckProjection
  <2>1. /\ Settle(P, "acked") /\ projected /\ projected' = FALSE
        /\ batch[P] # <<>> /\ "acked" \in RowState /\ UNCHANGED <<view, runView>>
    BY <1>1, <1>6 DEF AckProjection, RowState
  <2>2. /\ UNCHANGED log
        /\ box'[P][Head(batch[P])].state = "acked"
        /\ \A i \in DOMAIN log : i # Head(batch[P]) => box'[P][i] = box[P][i]
    BY <1>1, <2>1, SettleEffect
  <2>3. Applied' = Applied
    BY <2>1, <2>2 DEF Applied
  <2> QED BY <2>1, <2>3
<1> QED BY <1>3, <1>4, <1>5, <1>6, ProjectionSteps

(* What was shown stays shown while nothing is applied. *)
LEMMA ShownStays ==
  ASSUME LifeInv, MessagesOK, ShownOK, [Next]_vars,
         Applied' = Applied, UNCHANGED view, UNCHANGED runView \/ CreateRun
  PROVE  ShownOK'
<1>1. \A i \in DOMAIN log : i \in DOMAIN log' /\ log'[i] = log[i]
  BY HubStep
<1>2. Applied \subseteq DOMAIN log
  BY DEF Applied
<1>3. \A k \in DOMAIN log : (IsEvent(k)' <=> IsEvent(k)) /\ (Opens(k)' <=> Opens(k))
  BY <1>1 DEF IsEvent, Opens
<1>4. ASSUME NEW t \in Task
      PROVE  /\ (Events(t) \cap Applied)' = Events(t) \cap Applied
             /\ (RunEvents(t) \cap Applied)' = RunEvents(t) \cap Applied
  BY <1>1, <1>2, <1>3 DEF Events, RunEvents
<1>5. ASSUME NEW t \in Task, NEW k \in DOMAIN log'
      PROVE  /\ IsLast(k, Events(t) \cap Applied)' /\ ~Opens(k)' => view'[t].status = log'[k].status
             /\ IsLast(k, RunEvents(t) \cap Applied)' /\ ~Opens(k)' => view'[t].run = log'[k].run
  <2>1. CASE k \in DOMAIN log
    <3>1. /\ IsLast(k, Events(t) \cap Applied)' <=> IsLast(k, Events(t) \cap Applied)
          /\ IsLast(k, RunEvents(t) \cap Applied)' <=> IsLast(k, RunEvents(t) \cap Applied)
      BY <1>4 DEF IsLast
    <3> QED BY <1>1, <1>3, <2>1, <3>1 DEF ShownOK
  <2>2. CASE k \notin Applied'
    BY <2>2 DEF IsLast
  <2> QED BY <1>2, <2>1, <2>2
<1>6. ASSUME NEW r \in DOMAIN runs', NEW k \in DOMAIN log', IsLast(k, EventsOf(r) \cap Applied)'
      PROVE  runView'[r] = log'[k].status
  <2>1. k \in Applied /\ k \in DOMAIN log /\ k \in EventsOf(r)
    BY <1>1, <1>2, <1>3, <1>6 DEF IsLast, EventsOf
  <2>2. 0 \notin DOMAIN runs'
    BY RunsStep
  <2>3. r \in DOMAIN runs
    BY <1>6, <2>1, <2>2 DEF MessagesOK, Fits, EventsOf, IsEvent
  <2>4. (EventsOf(r) \cap Applied)' = EventsOf(r) \cap Applied
    BY <1>1, <1>2, <1>3 DEF EventsOf
  <2>5. IsLast(k, EventsOf(r) \cap Applied)
    BY <1>6, <2>4 DEF IsLast
  <2>6. runView'[r] = runView[r]
    <3>1. runView \in Seq(TaskStatus) /\ Len(runView) = Len(runs) /\ r \in DOMAIN runView
          /\ "none" \in TaskStatus
      <4>1. runView \in Seq(TaskStatus) /\ Len(runView) = Len(runs)
        BY DEF LifeInv, ShownTypes
      <4> QED BY <2>3, <4>1, RunsStep, IsIndexed, Constants
    <3>2. CreateRun => runView' = Append(runView, "none")
      BY DEF CreateRun
    <3> QED BY <3>1, <3>2, Appended
  <2> QED BY <1>1, <2>1, <2>3, <2>5, <2>6 DEF ShownOK
<1> QED BY <1>5, <1>6 DEF ShownOK

(* The head of the projection's batch: it is a start command or the last event so far. *)
LEMMA HeadFacts ==
  ASSUME LifeInv, RoutedOK, MessagesOK, OrderOK, Project, NEW h, h = Head(batch["projection_group"])
  PROVE  /\ UNCHANGED <<log, runs>> /\ h \in DOMAIN log /\ log[h] \in LogEntry
         /\ view' = [view EXCEPT ![log[h].task] = Shown(log[h])]
         /\ runView' = IF log[h].run = 0 THEN runView
                       ELSE [runView EXCEPT ![log[h].run] = log[h].status]
         /\ Applied' = Applied \cup {h}
         /\ IsEvent(h) \/ log[h].type = "command.task.start"
         /\ h \notin Applied
         /\ IsEvent(h) => \A k \in Applied : IsEvent(k) => k <= h
<1> DEFINE P == "projection_group"
<1>1. /\ HubOK /\ log \in Seq(LogEntry) /\ P \in Group
      /\ batch[P] # <<>> /\ ~projected /\ projected' /\ UNCHANGED <<log, box, batch, runs>>
  BY Constants DEF LifeInv, Project, hub, record
<1>2. h \in DOMAIN log /\ h = batch[P][1] /\ 1 \in DOMAIN batch[P]
  <2>1. batch[P] \in Seq(DOMAIN log)
    BY ProjectionRows
  <2> QED BY <1>1, <2>1, TailFacts
<1>3. log[h] \in LogEntry
  BY <1>1, <1>2, IsIndexed
<1>4. box[P][h].state = "running"
  BY <1>2, ProjectionRows
<1>5. Applied' = Applied \cup {h} /\ h \notin Applied
  BY <1>1, <1>2, <1>4 DEF Applied
<1>6. IsEvent(h) \/ log[h].type = "command.task.start"
  <2>1. P \in Readers(log[h].type)
    BY <1>1, <1>2, <1>4 DEF RoutedOK
  <2> QED BY <2>1 DEF Readers, IsEvent
<1>7. ASSUME IsEvent(h), NEW k \in Applied, IsEvent(k)
      PROVE  k <= h
  <2>1. k \in DOMAIN log /\ box[P][k].state = "acked"
    BY <1>1, <1>7 DEF Applied
  <2>2. h < k => box[P][h].state = "acked"
    BY <1>2, <1>7, <2>1 DEF OrderOK
  <2> QED BY <1>2, <1>4, <2>1, <2>2, ProjectionRows
<1>8. /\ view' = [view EXCEPT ![log[h].task] = Shown(log[h])]
      /\ runView' = IF log[h].run = 0 THEN runView
                    ELSE [runView EXCEPT ![log[h].run] = log[h].status]
  BY DEF Project
<1> QED BY <1>1, <1>2, <1>3, <1>5, <1>6, <1>7, <1>8

(* What applying it shows of its task. *)
LEMMA ViewOfHead ==
  ASSUME LifeInv, RoutedOK, MessagesOK, OrderOK, Project, NEW h, h = Head(batch["projection_group"])
  PROVE  /\ \A t \in Task : t # log[h].task => view'[t] = view[t]
         /\ ~IsEvent(h) =>
              /\ view'[log[h].task].run = view[log[h].task].run
              /\ view[log[h].task].status # "none" =>
                   view'[log[h].task].status = view[log[h].task].status
         /\ IsEvent(h) /\ ~Opens(h) =>
              /\ view'[log[h].task].status = log[h].status
              /\ view'[log[h].task].run
                   = IF log[h].run = 0 THEN view[log[h].task].run ELSE log[h].run
         /\ IsEvent(h) /\ Opens(h) =>
              view'[log[h].task].run = view[log[h].task].run \/ log[h].run # 0
<1>1. /\ log[h] \in LogEntry /\ view' = [view EXCEPT ![log[h].task] = Shown(log[h])]
      /\ IsEvent(h) \/ log[h].type = "command.task.start"
      /\ h \in DOMAIN log
  BY HeadFacts
<1>2. log[h].task \in Task /\ view \in [Task -> [status : TaskStatus, run : 0..Len(runs)]]
  BY <1>1 DEF LogEntry, LifeInv, ShownTypes
<1>3. PICK old \in [status : TaskStatus, run : 0..Len(runs)] : old = view[log[h].task]
  BY <1>2
<1>4. view'[log[h].task] = Shown(log[h]) /\ \A t \in Task : t # log[h].task => view'[t] = view[t]
  BY <1>1, <1>2
<1>5. CASE ~IsEvent(h)
  <2>1. Shown(log[h]) = IF old.status = "none" THEN [old EXCEPT !.status = "pending"] ELSE old
    BY <1>1, <1>3, <1>5 DEF Shown
  <2>2. Shown(log[h]).run = old.run /\ (old.status # "none" => Shown(log[h]).status = old.status)
    BY <1>3, <2>1
  <2> QED BY <1>3, <1>4, <1>5, <2>2
<1>6. CASE IsEvent(h) /\ ~Opens(h)
  <2>1. log[h].type # "command.task.start" /\ log[h].type # "event.task.run_started"
    BY <1>6 DEF IsEvent, Opens, TaskCommands, RunCommands
  <2>2. Shown(log[h]) = [status |-> log[h].status,
                         run |-> IF log[h].run = 0 THEN old.run ELSE log[h].run]
    BY <1>3, <2>1 DEF Shown
  <2> QED BY <1>3, <1>4, <1>6, <2>2
<1>7. CASE IsEvent(h) /\ Opens(h)
  <2>1. log[h].run # 0
    BY <1>1, <1>7, HeadFacts DEF MessagesOK, Fits, Opens, IsEvent
  <2> QED BY <1>4, <1>7, <2>1
<1> QED BY <1>5, <1>6, <1>7, <1>4

LEMMA ShownOfProject ==
  ASSUME LifeInv, RoutedOK, MessagesOK, OrderOK, ShownOK, Project
  PROVE  ShownOK'
<1>1. PICK h : h = Head(batch["projection_group"])
  OBVIOUS
<1>2. /\ UNCHANGED <<log, runs>> /\ h \in DOMAIN log /\ log[h] \in LogEntry
      /\ runView' = IF log[h].run = 0 THEN runView
                    ELSE [runView EXCEPT ![log[h].run] = log[h].status]
      /\ Applied' = Applied \cup {h}
      /\ h \notin Applied
      /\ IsEvent(h) => \A k \in Applied : IsEvent(k) => k <= h
  BY <1>1, HeadFacts
<1>3. /\ \A t \in Task : t # log[h].task => view'[t] = view[t]
      /\ ~IsEvent(h) =>
           /\ view'[log[h].task].run = view[log[h].task].run
           /\ view[log[h].task].status # "none" =>
                view'[log[h].task].status = view[log[h].task].status
      /\ IsEvent(h) /\ ~Opens(h) =>
           /\ view'[log[h].task].status = log[h].status
           /\ view'[log[h].task].run
                = IF log[h].run = 0 THEN view[log[h].task].run ELSE log[h].run
  BY <1>1, ViewOfHead
<1>4. \A k : (IsEvent(k)' <=> IsEvent(k)) /\ (Opens(k)' <=> Opens(k))
  BY <1>2 DEF IsEvent, Opens
<1>5. /\ \A t : Events(t)' = Events(t) /\ RunEvents(t)' = RunEvents(t)
      /\ \A r : EventsOf(r)' = EventsOf(r)
  BY <1>2, <1>4 DEF Events, RunEvents, EventsOf
<1>6. h \in Nat /\ DOMAIN log \subseteq Nat
  BY <1>2, ProjectionRows
(* The head is the last of any events that it is one of. *)
<1>7. ASSUME NEW S, S \subseteq {k \in DOMAIN log : IsEvent(k)}, NEW k, IsLast(k, S \cap Applied')
      PROVE  IF h \in S THEN k = h ELSE IsLast(k, S \cap Applied)
  <2>1. CASE h \in S
    <3>1. h <= k /\ k \in S /\ k \in Applied'
      BY <1>2, <1>7, <2>1 DEF IsLast
    <3>2. IsEvent(h) /\ IsEvent(k)
      BY <1>7, <2>1, <3>1
    <3>3. k = h \/ k <= h
      BY <1>2, <3>1, <3>2
    <3> QED BY <1>6, <1>7, <2>1, <3>1, <3>3
  <2>2. CASE h \notin S
    <3>1. S \cap Applied' = S \cap Applied
      BY <1>2, <2>2
    <3> QED BY <1>7, <2>2, <3>1
  <2> QED BY <2>1, <2>2
<1>8. ASSUME NEW t \in Task, NEW k \in DOMAIN log', IsLast(k, Events(t) \cap Applied)', ~Opens(k)'
      PROVE  view'[t].status = log'[k].status
  <2>1. IF h \in Events(t) THEN k = h ELSE IsLast(k, Events(t) \cap Applied)
    <3>1. IsLast(k, Events(t) \cap Applied') /\ Events(t) \subseteq {i \in DOMAIN log : IsEvent(i)}
      BY <1>5, <1>8 DEF IsLast, Events
    <3> QED BY <1>7, <3>1
  <2>2. CASE h \in Events(t)
    <3>1. k = h /\ IsEvent(h) /\ t = log[h].task /\ ~Opens(h)
      BY <1>4, <1>8, <2>1, <2>2 DEF Events
    <3> QED BY <1>2, <1>3, <3>1
  <2>3. CASE h \notin Events(t)
    <3>1. IsLast(k, Events(t) \cap Applied) /\ ~Opens(k) /\ k \in DOMAIN log
      BY <1>2, <1>4, <1>8, <2>1, <2>3
    <3>2. view[t].status = log[k].status
      BY <3>1 DEF ShownOK
    <3>3. log[k].status # "none"
      BY <3>1 DEF IsLast, Events, IsEvent, MessagesOK, Fits
    <3>4. t # log[h].task \/ ~IsEvent(h)
      BY <1>2, <2>3 DEF Events
    <3> QED BY <1>2, <1>3, <3>2, <3>3, <3>4
  <2> QED BY <2>2, <2>3
<1>9. ASSUME NEW t \in Task, NEW k \in DOMAIN log', IsLast(k, RunEvents(t) \cap Applied)', ~Opens(k)'
      PROVE  view'[t].run = log'[k].run
  <2>1. IF h \in RunEvents(t) THEN k = h ELSE IsLast(k, RunEvents(t) \cap Applied)
    <3>1. /\ IsLast(k, RunEvents(t) \cap Applied')
          /\ RunEvents(t) \subseteq {i \in DOMAIN log : IsEvent(i)}
      BY <1>5, <1>9 DEF IsLast, Events, RunEvents
    <3> QED BY <1>7, <3>1
  <2>2. CASE h \in RunEvents(t)
    <3>1. k = h /\ IsEvent(h) /\ t = log[h].task /\ ~Opens(h) /\ log[h].run # 0
      BY <1>4, <1>9, <2>1, <2>2 DEF Events, RunEvents
    <3> QED BY <1>2, <1>3, <3>1
  <2>3. CASE h \notin RunEvents(t)
    <3>1. IsLast(k, RunEvents(t) \cap Applied) /\ ~Opens(k) /\ k \in DOMAIN log
      BY <1>2, <1>4, <1>9, <2>1, <2>3
    <3>2. view[t].run = log[k].run
      BY <3>1 DEF ShownOK
    <3>3. t # log[h].task \/ ~IsEvent(h) \/ log[h].run = 0
      BY <1>2, <2>3 DEF Events, RunEvents
    <3>4. IsEvent(h) /\ log[h].run = 0 => ~Opens(h)
      BY <1>2 DEF MessagesOK, Fits, Opens, IsEvent
    <3> QED BY <1>2, <1>3, <3>2, <3>3, <3>4
  <2> QED BY <2>2, <2>3
<1>10. ASSUME NEW r \in DOMAIN runs', NEW k \in DOMAIN log', IsLast(k, EventsOf(r) \cap Applied)'
       PROVE  runView'[r] = log'[k].status
  <2>1. IF h \in EventsOf(r) THEN k = h ELSE IsLast(k, EventsOf(r) \cap Applied)
    <3>1. /\ IsLast(k, EventsOf(r) \cap Applied')
          /\ EventsOf(r) \subseteq {i \in DOMAIN log : IsEvent(i)}
      BY <1>5, <1>10 DEF IsLast, EventsOf
    <3> QED BY <1>7, <3>1
  <2>2. /\ r \in DOMAIN runs /\ r # 0 /\ runView \in Seq(TaskStatus) /\ r \in DOMAIN runView
        /\ DOMAIN runs = DOMAIN runView
    <3>1. runView \in Seq(TaskStatus) /\ Len(runView) = Len(runs) /\ runs \in Seq(RunRow)
      BY DEF LifeInv, ShownTypes, RecordTypes
    <3> QED BY <1>2, <3>1, IsIndexed
  <2>3. CASE h \in EventsOf(r)
    <3>1. k = h /\ log[h].run = r /\ log[h].status \in TaskStatus
      BY <1>2, <2>1, <2>3 DEF EventsOf, LogEntry
    <3>2. runView' = [runView EXCEPT ![r] = log[h].status]
      BY <1>2, <2>2, <3>1
    <3> QED BY <1>2, <2>2, <3>1, <3>2
  <2>4. CASE h \notin EventsOf(r)
    <3>1. runView[r] = log[k].status
      BY <1>2, <2>1, <2>2, <2>4, <1>10 DEF ShownOK
    <3>2. log[h].run # r \/ ~IsEvent(h)
      BY <1>2, <2>4 DEF EventsOf
    <3>3. ~IsEvent(h) => log[h].run = 0
      BY <1>2 DEF MessagesOK, Fits, IsEvent
    <3>4. runView'[r] = runView[r]
      BY <1>2, <2>2, <3>2, <3>3
    <3> QED BY <1>2, <3>1, <3>4
  <2> QED BY <2>3, <2>4
<1> QED BY <1>8, <1>9, <1>10 DEF ShownOK

LEMMA ShownStep ==
  ASSUME LifeInv, RoutedOK, MessagesOK, WorkOK, TasksOK, ~disturbed => OrderOK /\ ShownOK,
         [Next]_vars, ~disturbed'
  PROVE  ShownOK'
<1>1. ~disturbed /\ OrderOK /\ ShownOK
  BY ProjectionSteps
<1> QED BY <1>1, AppliedStep, ShownStays, ShownOfProject

(* Only what was said of a run puts one into the row of a task. *)
LEMMA ShownRunsStep ==
  ASSUME LifeInv, RoutedOK, MessagesOK, ShownRuns, [Next]_vars
  PROVE  ShownRuns'
<1>1. \A i \in DOMAIN log : i \in DOMAIN log' /\ log'[i] = log[i]
  BY HubStep
<1>2. \A t \in Task : RunEvents(t) \subseteq RunEvents(t)'
  BY <1>1 DEF RunEvents, Events, IsEvent
<1>3. CASE UNCHANGED view
  BY <1>2, <1>3 DEF ShownRuns
<1>4. CASE Project
  <2>1. PICK h : h = Head(batch["projection_group"])
    OBVIOUS
  <2>2. /\ batch["projection_group"] # <<>> /\ view' = [view EXCEPT ![log[h].task] = Shown(log[h])]
        /\ UNCHANGED log
    BY <1>4, <2>1 DEF Project, hub
  <2>3. h \in DOMAIN log /\ box["projection_group"][h].state = "running" /\ log[h] \in LogEntry
        /\ "projection_group" \in Group
    <3>1. /\ batch["projection_group"] \in Seq(DOMAIN log) /\ log \in Seq(LogEntry)
          /\ "projection_group" \in Group
      BY Constants DEF LifeInv, HubOK, BatchOK
    <3>2. h = batch["projection_group"][1] /\ 1 \in DOMAIN batch["projection_group"]
          /\ h \in DOMAIN log
      BY <2>1, <2>2, <3>1, TailFacts
    <3> QED BY <3>1, <3>2, IsIndexed DEF LifeInv, HubOK, BatchOK
  <2>4. IsEvent(h) \/ log[h].type = "command.task.start"
    <3>1. "projection_group" \in Readers(log[h].type)
      BY <2>3 DEF RoutedOK
    <3> QED BY <3>1 DEF Readers, IsEvent
  <2>5. view \in [Task -> [status : TaskStatus, run : 0..Len(runs)]] /\ log[h].task \in Task
    BY <2>3 DEF LifeInv, ShownTypes, LogEntry
  <2>6. ASSUME NEW t \in Task, view'[t].run # 0
        PROVE  RunEvents(t) # {}
    <3>1. CASE t # log[h].task
      BY <2>2, <2>5, <2>6, <3>1 DEF ShownRuns
    <3>2. CASE t = log[h].task
      <4>1. PICK old \in [status : TaskStatus, run : 0..Len(runs)] : old = view[t]
        BY <2>5
      <4>2. view'[t] = Shown(log[h])
        BY <2>2, <2>5, <3>2
      <4>3. \/ Shown(log[h]).run = old.run
            \/ IsEvent(h) /\ Shown(log[h]).run = log[h].run
        <5>1. \/ Shown(log[h]) = old
              \/ Shown(log[h]) = [old EXCEPT !.status = "pending"]
              \/ log[h].type # "command.task.start" /\ Shown(log[h]).run \in {old.run, log[h].run}
          BY <3>2, <4>1 DEF Shown
        <5> QED BY <2>4, <4>1, <5>1
      <4>4. CASE old.run # 0
        BY <4>1, <4>4 DEF ShownRuns
      <4>5. CASE IsEvent(h) /\ log[h].run # 0
        BY <2>3, <3>2, <4>5 DEF RunEvents, Events
      <4> QED BY <2>6, <4>2, <4>3, <4>4, <4>5
    <3> QED BY <3>1, <3>2
  <2> QED BY <1>2, <2>6 DEF ShownRuns
<1>5. UNCHANGED view \/ Project
  <2>1. CASE Quietly
    BY <2>1 DEF Quietly, vars, StartTask, EnsureTask, CancelRow, CreateRun, Report, Answer, AnswerFails,
                RecordEvent, RecordRun, RecordTask, shown
  <2>2. CASE Append1 \/ \E t \in Task : ContinueTask(t) \/ CancelCommand(t)
    BY <2>2, AppendsAreMessages DEF shown
  <2>3. CASE \/ \E g \in Group : Claim(g)
             \/ \E g \in Group, i \in DOMAIN log : Retry(g, i) \/ Lapse(g, i)
             \/ Ack \/ AckProjection \/ ProjectionThrows \/ Throw \/ Crash
    BY <2>3 DEF Claim, Retry, Lapse, Ack, AckProjection, ProjectionThrows, Throw, Crash, shown
  <2> QED BY <2>1, <2>2, <2>3, ActionsAre
<1> QED BY <1>3, <1>4, <1>5

(* While the worker has a command in hand its task is pending. *)
LEMMA InHand ==
  ASSUME LifeInv, RoutedOK, batch["worker_group"] # <<>>
  PROVE  /\ Current \in DOMAIN log /\ CurrentTask \in Task /\ log[Current].task = CurrentTask
         /\ Pending(CurrentTask, TaskCommands)
         /\ log[Current].type \in RunCommands => Pending(CurrentTask, RunCommands)
         /\ box["worker_group"][Current].state # "acked"
<1>1. /\ Current \in DOMAIN log /\ CurrentTask \in Task
      /\ box["worker_group"][Current].state = "running"
  BY CurrentFacts
<1>2. log[Current].type \in TaskCommands
  <2>1. "worker_group" \in Readers(log[Current].type)
    BY <1>1, Constants DEF RoutedOK
  <2> QED BY <2>1 DEF Readers
<1>3. log[Current].task = CurrentTask
  BY DEF CurrentTask
<1> QED BY <1>1, <1>2, <1>3 DEF Pending

(* What is pending ends with an ack of the worker. *)
LEMMA PendingStays ==
  ASSUME LifeInv, [Next]_vars, NEW t, NEW types, Pending(t, types)
  PROVE  Pending(t, types)' \/ (Ack /\ t = CurrentTask /\ log[Current].type \in types)
<1>1. PICK i \in DOMAIN log :
        log[i].task = t /\ log[i].type \in types /\ box["worker_group"][i].state # "acked"
  BY DEF Pending
<1>2. i \in DOMAIN log' /\ log'[i] = log[i]
  BY HubStep
<1>3. \/ box'["worker_group"][i].state # "acked"
      \/ Ack /\ i = Current
  BY <1>1, <1>2, HubStep
<1>4. CASE box'["worker_group"][i].state # "acked"
  BY <1>1, <1>2, <1>4 DEF Pending
<1>5. CASE Ack /\ i = Current
  BY <1>1, <1>5 DEF CurrentTask
<1> QED BY <1>3, <1>4, <1>5

(* The row of a task that no tool creates and that is not in hand is left alone. *)
LEMMA TasksOnlyHere ==
  ASSUME LifeInv, [Next]_vars, NEW t \in Task
  PROVE  /\ tasks'[t] = "none" => tasks[t] = "none"
         /\ \/ tasks'[t] = tasks[t]
            \/ StartTask(t) /\ tasks[t] = "none"
            \/ batch["worker_group"] # <<>> /\ t = CurrentTask /\ (EnsureTask \/ CancelRow \/ RecordTask)
<1>1. /\ tasks \in [Task -> TaskStatus]
      /\ turn.pc = "runRow" => turn.status \in Outcome /\ batch["worker_group"] # <<>>
  BY DEF LifeInv, RecordTypes, HandlingOK, RunStates
<1>2. ASSUME NEW c \in Task, NEW s, tasks' = [tasks EXCEPT ![c] = s], s # "none"
      PROVE  /\ tasks'[t] = "none" => tasks[t] = "none"
             /\ t # c => tasks'[t] = tasks[t]
  BY <1>1, <1>2
<1>3. CASE UNCHANGED tasks
  BY <1>3
<1>4. ASSUME NEW c \in Task, StartTask(c)
      PROVE  /\ tasks'[t] = "none" => tasks[t] = "none"
             /\ tasks'[t] = tasks[t] \/ (StartTask(t) /\ tasks[t] = "none")
  <2>1. tasks' = [tasks EXCEPT ![c] = "pending"] /\ tasks[c] = "none"
    BY <1>4 DEF StartTask
  <2> QED BY <1>2, <1>4, <2>1
<1>5. CASE EnsureTask \/ CancelRow \/ RecordTask
  <2>1. batch["worker_group"] # <<>>
    BY <1>1, <1>5 DEF EnsureTask, CancelRow, RecordTask, Handles
  <2>2. CurrentTask \in Task
    BY <2>1, CurrentFacts
  <2>3. \A s \in Outcome : s # "none"
    BY OutcomeFacts
  <2>4. PICK s : tasks' = [tasks EXCEPT ![CurrentTask] = s] /\ s # "none"
    BY <1>1, <1>5, <2>3 DEF EnsureTask, CancelRow, RecordTask
  <2> QED BY <1>2, <1>5, <2>1, <2>2, <2>4
<1>6. \/ UNCHANGED tasks
      \/ \E c \in Task : StartTask(c)
      \/ EnsureTask \/ CancelRow \/ RecordTask
  <2>1. CASE Quietly
    BY <2>1 DEF Quietly, vars, CreateRun, Report, Answer, AnswerFails, RecordEvent, RecordRun,
                Project, record
  <2>2. CASE Append1 \/ \E c \in Task : ContinueTask(c) \/ CancelCommand(c)
    BY <2>2, AppendsAreMessages DEF record
  <2>3. CASE \/ \E g \in Group : Claim(g)
             \/ \E g \in Group, i \in DOMAIN log : Retry(g, i) \/ Lapse(g, i)
             \/ Ack \/ AckProjection \/ ProjectionThrows \/ Throw \/ Crash
    BY <2>3 DEF Claim, Retry, Lapse, Ack, AckProjection, ProjectionThrows, Throw, Crash, record
  <2> QED BY <2>1, <2>2, <2>3, ActionsAre
<1> QED BY <1>3, <1>4, <1>5, <1>6

(* What is told of a task stays the last word as long as nobody writes or says more. *)
LEMMA ToldStays ==
  ASSUME LifeInv, [Next]_vars, NEW t, Told(t), tasks'[t] = tasks[t],
         \A i \in DOMAIN log' : i \in DOMAIN log \/ ~IsEvent(i)' \/ log'[i].task # t
  PROVE  Told(t)'
<1>1. \A i \in DOMAIN log : i \in DOMAIN log' /\ log'[i] = log[i]
  BY HubStep
<1>2. PICK k \in DOMAIN log : IsLast(k, Events(t)) /\ ~Opens(k) /\ log[k].status = tasks[t]
  BY DEF Told
<1>3. Events(t)' = Events(t)
  BY <1>1 DEF Events, IsEvent
<1>4. IsLast(k, Events(t))' /\ ~Opens(k)'
  BY <1>1, <1>2, <1>3 DEF IsLast, Opens
<1> QED BY <1>1, <1>2, <1>4 DEF Told

LEMMA RunToldStays ==
  ASSUME LifeInv, MessagesOK, [Next]_vars, NEW t, RunTold(t),
         RecordRun => runs[turn.run].task # t,
         \A i \in DOMAIN log' : \/ i \in DOMAIN log
                                \/ ~IsEvent(i)' \/ log'[i].task # t \/ log'[i].run = 0
  PROVE  RunTold(t)'
<1>1. \A i \in DOMAIN log : i \in DOMAIN log' /\ log'[i] = log[i]
  BY HubStep
<1>2. PICK k \in DOMAIN log : IsLast(k, RunEvents(t)) /\ ~Opens(k)
                              /\ log[k].status = runs[log[k].run].status
  BY DEF RunTold
<1>3. RunEvents(t)' = RunEvents(t)
  BY <1>1 DEF RunEvents, Events, IsEvent
<1>4. IsLast(k, RunEvents(t))' /\ ~Opens(k)'
  BY <1>1, <1>2, <1>3 DEF IsLast, Opens
<1>5. log[k].run \in DOMAIN runs /\ runs[log[k].run].task = t
  BY <1>2 DEF IsLast, RunEvents, Events, MessagesOK, Fits, IsEvent
<1>6. runs'[log[k].run] = runs[log[k].run]
  BY <1>5, RunsStep
<1> QED BY <1>1, <1>2, <1>4, <1>6 DEF RunTold

(* What a step adds to the log: nothing, a command or an event of the task in hand. *)
LEMMA LogGrows ==
  ASSUME LifeInv, WorkOK, TasksOK, [Next]_vars, NEW i \in DOMAIN log', i \notin DOMAIN log
  PROVE  /\ Append1 \/ \E t \in Task : ContinueTask(t) \/ CancelCommand(t)
         /\ log'[i].task \in Task
         /\ UNCHANGED <<tasks, runs>>
         /\ \/ /\ ~IsEvent(i)' /\ tasks[log'[i].task] # "none" /\ turn' = turn
               /\ log'[i].type \in TaskCommands /\ box'["worker_group"][i].state # "acked"
            \/ /\ IsEvent(i)' /\ turn.pc \in RunStates \cup {"cancelling"}
               /\ batch["worker_group"] # <<>>
               /\ log'[i].task = CurrentTask
               /\ log'[i].run # 0 => log[Current].type \in RunCommands
<1>1. Append1 \/ \E t \in Task : ContinueTask(t) \/ CancelCommand(t)
  BY LogOnlyHere
<1>2. PICK m \in LogEntry :
        /\ LogMessage(m)
        /\ UNCHANGED <<batch, record>>
        /\ \/ /\ m.type \in TaskCommands
              /\ tasks[m.task] # "none"
              /\ turn' = turn
           \/ /\ m.type \notin TaskCommands
              /\ turn.pc \in RunStates \cup {"cancelling"}
              /\ m.task = CurrentTask
              /\ m.run # 0 => log[Current].type \in RunCommands
  BY <1>1, AppendsFit
<1>3. /\ HubOK /\ log \in Seq(LogEntry) /\ "worker_group" \in Group
      /\ UNCHANGED batch
      /\ turn.pc # "idle" => batch["worker_group"] # <<>>
  BY <1>2, Constants DEF LifeInv, HandlingOK
<1>4. /\ DOMAIN log' = DOMAIN log \cup {Len(log) + 1}
      /\ \A k \in DOMAIN log : log'[k] = log[k]
      /\ log'[Len(log) + 1] = m
      /\ \A g \in Group :
           /\ \A k \in DOMAIN log : box'[g][k] = box[g][k]
           /\ box'[g][Len(log) + 1].state = IF g \in Readers(m.type) THEN "due" ELSE "none"
  BY <1>2, <1>3, MessageEffect
<1>5. /\ log'[i] = m /\ box'["worker_group"][i].state # "acked"
      /\ IsEvent(i)' <=> m.type \notin TaskCommands
  BY <1>3, <1>4 DEF IsEvent
<1>6. turn.pc \in RunStates \cup {"cancelling"} => turn.pc # "idle"
  BY DEF RunStates
<1> QED BY <1>1, <1>2, <1>3, <1>5, <1>6 DEF record, LogEntry

LEMMA TasksStep ==
  ASSUME LifeInv, RoutedOK, MessagesOK, WorkOK, TasksOK, [Next]_vars
  PROVE  TasksOK'
<1>1. \A i \in DOMAIN log : /\ i \in DOMAIN log' /\ log'[i] = log[i]
                            /\ log[i].task \in Task
  <2>1. log \in Seq(LogEntry)
    BY DEF LifeInv
  <2>2. \A i \in DOMAIN log : log[i] \in LogEntry
    BY <2>1, IsIndexed
  <2> QED BY <2>2, HubStep DEF LogEntry
<1>2. starting' # NoTask => tasks'[starting'] # "none"
  <2>1. starting \in Task \cup {NoTask} /\ (starting # NoTask => tasks[starting] # "none")
        /\ tasks \in [Task -> TaskStatus]
    BY DEF LifeInv, TurnTypes, TasksOK, RecordTypes
  <2>2. CASE starting' = starting
    BY <2>1, <2>2, TasksOnlyHere
  <2>3. CASE starting' = NoTask
    BY <2>3
  <2>4. CASE \E t \in Task : StartTask(t)
    BY <2>1, <2>4 DEF StartTask
  <2>5. \/ starting' = starting \/ starting' = NoTask
        \/ \E t \in Task : StartTask(t)
    <3>1. CASE Quietly
      BY <3>1 DEF Quietly, vars, EnsureTask, CancelRow, CreateRun, Report, Answer, AnswerFails,
                  RecordEvent, RecordRun, RecordTask, Project
    <3>2. CASE Append1 \/ \E t \in Task : ContinueTask(t) \/ CancelCommand(t)
      BY <3>2, AppendsFit
    <3>3. CASE \/ \E g \in Group : Claim(g)
               \/ \E g \in Group, i \in DOMAIN log : Retry(g, i) \/ Lapse(g, i)
               \/ Ack \/ AckProjection \/ ProjectionThrows \/ Throw \/ Crash
      BY <3>3 DEF Claim, Retry, Lapse, Ack, AckProjection, ProjectionThrows, Throw, WriteThrows, Crash
    <3> QED BY <3>1, <3>2, <3>3, ActionsAre
  <2> QED BY <2>2, <2>3, <2>4, <2>5
<1>3. ASSUME NEW i \in DOMAIN log', i \notin DOMAIN log, NEW t, t = log'[i].task
      PROVE  /\ tasks'[t] # "none"
             /\ Pending(t, TaskCommands)'
             /\ log'[i].run # 0 => Pending(t, RunCommands)'
  <2>1. t \in Task /\ UNCHANGED tasks
        /\ (Append1 \/ \E c \in Task : ContinueTask(c) \/ CancelCommand(c))
    BY <1>3, LogGrows
  <2>2. ~Ack
    BY <2>1 DEF Ack, Append1, AppendStart, AppendStarted, AppendReport, AppendOutcome,
                AppendCancelled, ContinueTask, CancelCommand, Yielded, Idle
  <2>3. CASE /\ ~IsEvent(i)' /\ tasks[t] # "none"
             /\ log'[i].type \in TaskCommands /\ box'["worker_group"][i].state # "acked"
    <3>1. Pending(t, TaskCommands)'
      BY <1>3, <2>3 DEF Pending, TaskCommands, RunCommands
    <3>2. log'[i].run = 0
      BY <1>3, <2>3, MessagesStep DEF MessagesOK, Fits, TaskCommands, RunCommands
    <3> QED BY <2>1, <2>3, <3>1, <3>2
  <2>4. CASE /\ batch["worker_group"] # <<>>
             /\ t = CurrentTask
             /\ log'[i].run # 0 => log[Current].type \in RunCommands
    <3>1. /\ Current \in DOMAIN log /\ log[Current].task = t
          /\ Pending(t, TaskCommands)
          /\ log[Current].type \in RunCommands => Pending(t, RunCommands)
      BY <2>4, InHand
    <3>2. tasks[t] # "none"
      BY <2>1, <3>1 DEF TasksOK
    <3>3. Pending(t, TaskCommands)'
      BY <2>2, <3>1, PendingStays
    <3> QED BY <2>1, <2>2, <2>4, <3>1, <3>2, <3>3, PendingStays
  <2> QED BY <1>3, <2>3, <2>4, LogGrows
<1>4. ASSUME NEW i \in DOMAIN log, NEW t, t = log[i].task
      PROVE  /\ tasks'[t] # "none"
             /\ Pending(t, TaskCommands)' \/ Told(t)'
             /\ log[i].run # 0 => Pending(t, RunCommands)' \/ RunTold(t)'
  <2>1. /\ t \in Task /\ tasks[t] # "none"
        /\ Pending(t, TaskCommands) \/ Told(t)
        /\ log[i].run # 0 => Pending(t, RunCommands) \/ RunTold(t)
    BY <1>1, <1>4 DEF TasksOK
  <2>2. tasks'[t] # "none"
    BY <2>1, TasksOnlyHere
  <2>3. ASSUME Ack, t = CurrentTask
        PROVE  /\ Told(t)'
               /\ log[Current].type \in RunCommands => RunTold(t)'
    <3>1. /\ turn.pc = "handled" /\ UNCHANGED <<log, tasks, runs>>
      <4>1. turn.pc = "handled" /\ UNCHANGED record /\ Settle("worker_group", "acked")
        BY <2>3 DEF Ack
      <4> QED BY <4>1 DEF Settle, record
    <3>2. Told(t) /\ (log[Current].type \in RunCommands => RunTold(t))
      BY <2>3, <3>1 DEF WorkOK
    <3>3. ~RecordRun
      BY <3>1 DEF RecordRun
    <3> QED BY <3>1, <3>2, <3>3, ToldStays, RunToldStays
  <2>4. ASSUME ~Pending(t, TaskCommands)
        PROVE  Told(t)'
    <3>1. Told(t)
      BY <2>1, <2>4
    <3>2. batch["worker_group"] # <<>> => t # CurrentTask
      BY <2>4, InHand
    <3>3. tasks'[t] = tasks[t]
      BY <2>1, <3>2, TasksOnlyHere
    <3>4. \A k \in DOMAIN log' : k \in DOMAIN log \/ ~IsEvent(k)' \/ log'[k].task # t
      BY <3>2, LogGrows
    <3> QED BY <3>1, <3>3, <3>4, ToldStays
  <2>5. ASSUME ~Pending(t, RunCommands), log[i].run # 0
        PROVE  RunTold(t)'
    <3>1. RunTold(t)
      BY <2>1, <2>5
    <3>2. batch["worker_group"] # <<>> /\ log[Current].type \in RunCommands => t # CurrentTask
      BY <2>5, InHand
    <3>3. RecordRun => runs[turn.run].task # t
      <4>1. RecordRun => turn.pc = "eventRow" /\ batch["worker_group"] # <<>>
        BY DEF RecordRun, LifeInv, HandlingOK
      <4>2. turn.pc = "eventRow" => /\ log[Current].type \in RunCommands
                                    /\ runs[turn.run].task = CurrentTask
        BY DEF WorkOK, RunStates
      <4> QED BY <3>2, <4>1, <4>2
    <3>4. \A k \in DOMAIN log' : \/ k \in DOMAIN log
                                 \/ ~IsEvent(k)' \/ log'[k].task # t \/ log'[k].run = 0
      BY <3>2, LogGrows
    <3> QED BY <3>1, <3>3, <3>4, RunToldStays
  <2>6. Pending(t, TaskCommands)' \/ Told(t)'
    BY <2>3, <2>4, PendingStays
  <2>7. log[i].run # 0 => Pending(t, RunCommands)' \/ RunTold(t)'
    BY <2>3, <2>5, PendingStays
  <2> QED BY <2>2, <2>6, <2>7
<1>5. ASSUME NEW t \in Task, NEW i \in DOMAIN log', log'[i].task = t
      PROVE  /\ tasks'[t] # "none"
             /\ Pending(t, TaskCommands)' \/ Told(t)'
             /\ log'[i].run # 0 => Pending(t, RunCommands)' \/ RunTold(t)'
  <2>1. CASE i \in DOMAIN log
    BY <1>1, <1>4, <1>5, <2>1
  <2>2. CASE i \notin DOMAIN log
    BY <1>3, <1>5, <2>2
  <2> QED BY <2>1, <2>2
<1> QED BY <1>2, <1>5 DEF TasksOK

(* The event that ends a turn tells what has been written. *)
LEMMA EventTells ==
  ASSUME LifeInv, NEW m \in LogEntry, LogMessage(m), UNCHANGED batch,
         m.type \notin TaskCommands, m.type # "event.task.run_started"
  PROVE  /\ m.status = tasks'[m.task] => Told(m.task)'
         /\ m.run # 0 /\ m.status = runs'[m.run].status => RunTold(m.task)'
<1>1. /\ HubOK /\ log \in Seq(LogEntry)
      /\ DOMAIN log = 1..Len(log) /\ Len(log) \in Nat
  BY IsIndexed DEF LifeInv
<1>2. /\ DOMAIN log' = DOMAIN log \cup {Len(log) + 1}
      /\ log'[Len(log) + 1] = m
  BY <1>1, MessageEffect
<1>3. PICK k : k = Len(log) + 1
  OBVIOUS
<1>4. /\ k \in DOMAIN log' /\ log'[k] = m
      /\ \A l \in DOMAIN log' : l <= k
  BY <1>1, <1>2, <1>3
<1>5. IsEvent(k)' /\ ~Opens(k)'
  BY <1>4 DEF IsEvent, Opens
<1>6. PICK t : t = m.task
  OBVIOUS
<1>7. IsLast(k, Events(t))'
  BY <1>4, <1>5, <1>6 DEF IsLast, Events
<1>8. m.run # 0 => IsLast(k, RunEvents(t))'
  BY <1>4, <1>5, <1>6 DEF IsLast, Events, RunEvents
<1>9. m.status = tasks'[t] => Told(t)'
  BY <1>4, <1>5, <1>7 DEF Told
<1>10. m.run # 0 /\ m.status = runs'[m.run].status => RunTold(t)'
  BY <1>4, <1>5, <1>8 DEF RunTold
<1> QED BY <1>6, <1>9, <1>10

LEMMA WorkStep ==
  ASSUME LifeInv, RoutedOK, MessagesOK, TasksOK, WorkOK, [Next]_vars
  PROVE  WorkOK'
<1>1. /\ turn \in Turn
      /\ turn.pc # "idle" => batch["worker_group"] # <<>>
      /\ turn.pc \in RunStates => turn.run \in DOMAIN runs
      /\ \A r \in DOMAIN runs : runs'[r].task = runs[r].task
      /\ tasks \in [Task -> TaskStatus]
  BY RunsStep DEF LifeInv, HandlingOK, TurnTypes, RecordTypes
<1>2. Idle.pc = "idle" /\ "idle" \notin RunStates
  BY DEF Idle, RunStates
<1>3. batch["worker_group"] # <<>> => Current \in DOMAIN log /\ CurrentTask \in Task
                                      /\ tasks[CurrentTask] # "none"
  <2>1. ASSUME batch["worker_group"] # <<>>
        PROVE  tasks[CurrentTask] # "none"
    BY <2>1, InHand DEF TasksOK
  <2> QED BY <2>1, InHand
<1>4. turn'.pc # "idle" => Current' = Current
  BY HubStep
<1>5. batch["worker_group"] # <<>> => log'[Current] = log[Current]
  BY <1>3, HubStep
<1>6. PICK t : t = CurrentTask
  OBVIOUS
<1>7. turn'.pc # "idle" /\ batch["worker_group"] # <<>> =>
        log'[Current'] = log[Current] /\ CurrentTask' = t
  BY <1>4, <1>5, <1>6 DEF CurrentTask
<1>8. CASE turn'.pc = "idle"
  BY <1>2, <1>8 DEF WorkOK
<1>9. CASE UNCHANGED turn /\ turn.pc # "idle"
  <2>1. turn'.pc # "idle" /\ batch["worker_group"] # <<>>
    BY <1>1, <1>9
  <2>2. ~(EnsureTask \/ CancelRow \/ RecordTask \/ RecordRun)
    BY <1>1, <1>9 DEF EnsureTask, CancelRow, RecordTask, RecordRun, Handles, Goto, Turn
  <2>3. tasks'[t] = tasks[t]
    BY <1>3, <1>6, <2>1, <2>2, TasksOnlyHere
  <2>4. turn.pc = "handled" =>
          \A i \in DOMAIN log' : i \in DOMAIN log \/ ~IsEvent(i)'
    BY LogGrows DEF RunStates
  <2>5. turn.pc = "handled" =>
          /\ Told(t)'
          /\ log[Current].type \in RunCommands => RunTold(t)'
    <3> SUFFICES ASSUME turn.pc = "handled"
                 PROVE  /\ Told(t)'
                        /\ log[Current].type \in RunCommands => RunTold(t)'
      OBVIOUS
    <3>1. Told(t) /\ (log[Current].type \in RunCommands => RunTold(t))
      BY <1>6 DEF WorkOK
    <3>2. Told(t)'
      BY <2>3, <2>4, <3>1, ToldStays
    <3>3. log[Current].type \in RunCommands => RunTold(t)'
      BY <2>2, <2>4, <3>1, RunToldStays
    <3> QED BY <3>2, <3>3
  <2>6. /\ Current' = Current /\ CurrentTask' = t /\ log'[Current'] = log[Current]
        /\ t = CurrentTask
    BY <1>4, <1>6, <1>7, <2>1
  <2>7. Told(CurrentTask)' <=> Told(t)'
    BY <2>6 DEF Told, Events
  <2>8. RunTold(CurrentTask)' <=> RunTold(t)'
    BY <2>6 DEF RunTold, RunEvents, Events
  <2> QED BY <1>1, <1>9, <2>3, <2>5, <2>6, <2>7, <2>8 DEF WorkOK
<1>10. ASSUME turn.pc \in RunStates \cup {"ensured"}, turn'.pc \in RunStates,
              \/ turn.pc \in RunStates /\ turn'.run = turn.run
              \/ turn'.run \in DOMAIN runs' /\ runs'[turn'.run].task = t,
              turn'.pc = "reporting" => turn'.status \in {"running", "needs_decision"},
              turn'.pc = "taskRow" => tasks'[t] = turn'.status
       PROVE  WorkOK'
  <2>1. turn.pc # "idle" /\ turn'.pc # "idle" /\ turn'.pc # "cancelling" /\ turn'.pc # "handled"
    BY <1>10 DEF RunStates
  <2>2. /\ log'[Current'] = log[Current] /\ CurrentTask' = t /\ t = CurrentTask
    BY <1>1, <1>6, <1>7, <2>1
  <2>3. log[Current].type \in RunCommands
        /\ (turn.pc \in RunStates => runs[turn.run].task = t)
    BY <1>10, <2>2 DEF WorkOK
  <2>4. runs'[turn'.run].task = t
    BY <1>1, <1>10, <2>3
  <2> QED BY <1>10, <2>1, <2>2, <2>3, <2>4 DEF WorkOK
<1>11. CASE EnsureTask \/ CancelRow
  <2>1. /\ batch["worker_group"] # <<>> /\ UNCHANGED hub
        /\ \/ turn' = [turn EXCEPT !.pc = "ensured"] /\ log[Current].type \in RunCommands
           \/ /\ turn' = [turn EXCEPT !.pc = "cancelling"]
              /\ tasks' = [tasks EXCEPT ![CurrentTask] = "cancelled"]
    BY <1>11 DEF EnsureTask, CancelRow, Handles, Goto
  <2>2. \/ turn'.pc = "ensured" /\ log[Current].type \in RunCommands
        \/ turn'.pc = "cancelling" /\ tasks'[CurrentTask] = "cancelled"
    BY <1>1, <1>3, <2>1 DEF Turn
  <2>3. turn'.pc # "idle" /\ log'[Current'] = log[Current] /\ CurrentTask' = CurrentTask
    BY <1>6, <1>7, <2>1, <2>2
  <2> QED BY <2>2, <2>3 DEF WorkOK, RunStates
<1>12. CASE CreateRun
  <2>1. /\ turn' = [pc |-> "created", run |-> Len(runs) + 1, status |-> turn.status,
                    caught |-> turn.caught]
        /\ runs'[Len(runs) + 1].task = CurrentTask
        /\ DOMAIN runs' = DOMAIN runs \cup {Len(runs) + 1}
        /\ turn.pc = "ensured"
    BY <1>12, CreateRunEffect DEF CreateRun
  <2>2. turn'.pc = "created" /\ turn'.run = Len(runs) + 1
    BY <2>1
  <2>3. turn'.run \in DOMAIN runs' /\ runs'[turn'.run].task = t
    BY <1>6, <2>1, <2>2
  <2> QED BY <1>10, <2>1, <2>2, <2>3 DEF RunStates
<1>13. ASSUME turn.pc \in RunStates, turn'.pc \in RunStates \ {"taskRow", "reporting"},
              turn'.run = turn.run
       PROVE  WorkOK'
  BY <1>10, <1>13
<1>14. ASSUME NEW s \in {"running", "needs_decision"}, Report(s)
       PROVE  WorkOK'
  <2>1. turn.pc = "thinking" /\ turn' = [turn EXCEPT !.pc = "reporting", !.status = s]
    BY <1>14 DEF Report
  <2>2. turn'.pc = "reporting" /\ turn'.run = turn.run /\ turn'.status = s
    BY <1>1, <2>1, TurnChanges
  <2> QED BY <1>10, <2>1, <2>2 DEF RunStates
<1>15. ASSUME NEW s \in Outcome, Answer(s)
       PROVE  WorkOK'
  <2>1. turn.pc = "thinking" /\ turn' = [turn EXCEPT !.pc = "ending", !.status = s]
    BY <1>15 DEF Answer
  <2>2. turn'.pc = "ending" /\ turn'.run = turn.run
    BY <1>1, <2>1, TurnChanges
  <2> QED BY <1>13, <2>1, <2>2 DEF RunStates
<1>16. ASSUME turn.pc \in RunStates,
              CatchError \/ turn' = [turn EXCEPT !.pc = "thinking", !.status = "none"]
       PROVE  WorkOK'
  <2>1. turn'.pc \in {"ending", "thinking"} /\ turn'.run = turn.run
    BY <1>1, <1>16 DEF CatchError, Turn
  <2> QED BY <1>13, <1>16, <2>1 DEF RunStates
<1>17. CASE AnswerFails \/ AppendReport
  BY <1>16, <1>17 DEF AnswerFails, AppendReport, RunStates
<1>18. CASE AppendStarted \/ RecordEvent \/ RecordRun
  <2>1. /\ turn.pc \in RunStates
        /\ \E p \in {"thinking", "eventRow", "runRow"} : turn' = [turn EXCEPT !.pc = p]
    BY <1>18 DEF AppendStarted, RecordEvent, RecordRun, Goto, RunStates
  <2>2. turn'.pc \in {"thinking", "eventRow", "runRow"} /\ turn'.run = turn.run
    BY <1>1, <2>1 DEF Turn
  <2> QED BY <2>2, <1>13, <2>1 DEF RunStates
<1>19. CASE RecordTask
  <2>1. turn.pc = "runRow" /\ turn' = [turn EXCEPT !.pc = "taskRow"]
        /\ tasks' = [tasks EXCEPT ![CurrentTask] = turn.status]
    BY <1>19 DEF RecordTask, Goto
  <2>2. turn'.pc = "taskRow" /\ turn'.run = turn.run /\ turn'.status = turn.status
    BY <1>1, <2>1, TurnChanges
  <2>3. tasks'[t] = turn'.status
    BY <1>1, <1>3, <1>6, <2>1, <2>2
  <2> QED BY <1>10, <2>1, <2>2, <2>3 DEF RunStates
<1>20. ASSUME turn.pc \in {"taskRow", "cancelling"}, turn' = [turn EXCEPT !.pc = "handled"],
              NEW type, NEW r, NEW s, type \notin TaskCommands, type # "event.task.run_started",
              Event(type, CurrentTask, r, s) \in LogEntry,
              LogMessage(Event(type, CurrentTask, r, s)), UNCHANGED <<batch, tasks, runs>>,
              s = tasks[CurrentTask],
              log[Current].type \in RunCommands => r # 0 /\ s = runs[r].status
       PROVE  WorkOK'
  <2>1. PICK m \in LogEntry : m = Event(type, CurrentTask, r, s)
    BY <1>20
  <2>2. m.type = type /\ m.task = t /\ m.run = r /\ m.status = s /\ LogMessage(m)
    BY <1>6, <1>20, <2>1 DEF Event
  <2>3. turn'.pc = "handled"
    BY <1>1, <1>20, TurnChanges
  <2>4. log'[Current'] = log[Current] /\ CurrentTask' = t
    BY <1>1, <1>7, <1>20, <2>3
  <2>5. Told(t)' /\ (log[Current].type \in RunCommands => RunTold(t)')
    <3>1. /\ m.status = tasks'[m.task] => Told(m.task)'
          /\ m.run # 0 /\ m.status = runs'[m.run].status => RunTold(m.task)'
      BY <1>20, <2>2, EventTells
    <3>2. m.status = tasks'[m.task]
      BY <1>6, <1>20, <2>2
    <3>3. Told(m.task)' => Told(t)'
      BY <2>2 DEF Told, Events
    <3>4. RunTold(m.task)' => RunTold(t)'
      BY <2>2 DEF RunTold, RunEvents, Events
    <3> QED BY <1>20, <2>2, <3>1, <3>2, <3>3, <3>4
  <2>6. Told(t)' => Told(CurrentTask)'
    BY <2>4 DEF Told, Events
  <2>7. RunTold(t)' => RunTold(CurrentTask)'
    BY <2>4 DEF RunTold, RunEvents, Events
  <2> QED BY <2>3, <2>4, <2>5, <2>6, <2>7 DEF WorkOK, RunStates
<1>21. 0 \in 0..Len(runs) /\ 0 \notin DOMAIN runs
  BY IsIndexed DEF LifeInv, RecordTypes
<1>22. CASE AppendOutcome
  <2>1. /\ turn.pc = "taskRow" /\ turn' = [turn EXCEPT !.pc = "handled"]
        /\ LogMessage(Event(ToEventType(turn.status), CurrentTask, turn.run, turn.status))
        /\ UNCHANGED <<batch, tasks, runs>>
    BY <1>22 DEF AppendOutcome, Goto, record
  <2>2. /\ turn.status \in Outcome /\ runs[turn.run].status = turn.status
        /\ turn.run \in DOMAIN runs /\ turn.run # 0
    BY <1>1, <1>21, <2>1 DEF LifeInv, HandlingOK, RunStates
  <2>3. tasks[CurrentTask] = turn.status
    BY <2>1 DEF WorkOK
  <2>4. /\ ToEventType(turn.status) \notin TaskCommands
        /\ ToEventType(turn.status) # "event.task.run_started"
        /\ ToEventType(turn.status) \in MessageType
    BY <2>2, OutcomeFacts, Constants
  <2>5. Event(ToEventType(turn.status), CurrentTask, turn.run, turn.status) \in LogEntry
    BY <1>1, <1>3, <2>1, <2>4, Constants DEF Event, LogEntry, Turn
  <2> QED BY <1>20, <2>1, <2>2, <2>3, <2>4, <2>5
<1>23. CASE AppendCancelled
  <2>1. /\ turn.pc = "cancelling" /\ turn' = [turn EXCEPT !.pc = "handled"]
        /\ LogMessage(Event("event.task.cancelled", CurrentTask, 0, "cancelled"))
        /\ UNCHANGED <<batch, tasks, runs>>
    BY <1>23 DEF AppendCancelled, Goto, record
  <2>2. tasks[CurrentTask] = "cancelled" /\ log[Current].type \notin RunCommands
    BY <2>1 DEF WorkOK, LifeInv, HandlingOK
  <2>3. "event.task.cancelled" \notin TaskCommands
    BY DEF TaskCommands, RunCommands
  <2>4. Event("event.task.cancelled", CurrentTask, 0, "cancelled") \in LogEntry
    BY <1>1, <1>3, <1>21, <2>1, Constants DEF Event, LogEntry, MessageType
  <2> QED BY <1>20, <2>1, <2>2, <2>3, <2>4
<1>24. CASE UNCHANGED turn \/ turn' = Idle
  BY <1>2, <1>8, <1>9, <1>24
<1>25. CASE Quietly
  <2>1. CASE UNCHANGED vars \/ Project \/ \E c \in Task : StartTask(c)
    BY <1>24, <2>1 DEF vars, Project, StartTask
  <2> QED BY <1>11, <1>12, <1>14, <1>15, <1>17, <1>18, <1>19, <1>25, <2>1 DEF Quietly
<1>26. CASE Append1 \/ \E c \in Task : ContinueTask(c) \/ CancelCommand(c)
  <2>1. CASE AppendStart \/ \E c \in Task : ContinueTask(c) \/ CancelCommand(c)
    BY <1>24, <2>1 DEF AppendStart, ContinueTask, CancelCommand
  <2> QED BY <1>17, <1>18, <1>22, <1>23, <1>26, <2>1 DEF Append1
<1>27. CASE \/ \E g \in Group : Claim(g)
            \/ \E g \in Group, i \in DOMAIN log : Retry(g, i) \/ Lapse(g, i)
            \/ Ack \/ AckProjection \/ ProjectionThrows \/ Crash
  BY <1>24, <1>27 DEF Claim, Retry, Lapse, Ack, AckProjection, ProjectionThrows, Crash
<1>28. CASE Throw
  BY <1>16, <1>24, <1>28 DEF Throw, WriteThrows, RunStates
<1> QED BY <1>25, <1>26, <1>27, <1>28, ActionsAre

LEMMA ViewInvInit == Init => ViewInv
<1> SUFFICES ASSUME Init PROVE ViewInv
  OBVIOUS
<1>1. LifeInv
  BY LifeInvInit
<1>2. log = <<>> /\ DOMAIN log = {} /\ runs = <<>> /\ turn = Idle /\ starting = NoTask
      /\ view = [t \in Task |-> [status |-> "none", run |-> 0]]
  BY DEF Init, HubInit
<1>3. DOMAIN runs = {}
  BY <1>2
<1>4. RoutedOK /\ MessagesOK /\ TasksOK /\ OrderOK
  BY <1>2 DEF RoutedOK, MessagesOK, TasksOK, OrderOK
<1>5. WorkOK
  BY <1>2 DEF WorkOK, Idle, RunStates
<1>6. ShownRuns
  BY <1>2 DEF ShownRuns
<1>7. ShownOK
  BY <1>2, <1>3 DEF ShownOK
<1> QED BY <1>1, <1>4, <1>5, <1>6, <1>7 DEF ViewInv

LEMMA ViewInvStep == ViewInv /\ [Next]_vars => ViewInv'
<1> SUFFICES ASSUME ViewInv, [Next]_vars PROVE ViewInv'
  OBVIOUS
<1>1. /\ LifeInv /\ RoutedOK /\ MessagesOK /\ TasksOK /\ WorkOK /\ ShownRuns
      /\ ~disturbed => OrderOK /\ ShownOK
  BY DEF ViewInv
<1>2. LifeInv' /\ RoutedOK' /\ MessagesOK' /\ TasksOK' /\ WorkOK' /\ ShownRuns'
  BY <1>1, LifeInvStep, RoutedStep, MessagesStep, TasksStep, WorkStep, ShownRunsStep
<1>3. ~disturbed' => OrderOK' /\ ShownOK'
  BY <1>1, OrderStep, ShownStep
<1> QED BY <1>2, <1>3 DEF ViewInv

LEMMA QuietIsRight ==
  ASSUME ViewInv, Quiet, ~disturbed
  PROVE  ViewIsRight
<1>1. /\ LifeInv /\ RoutedOK /\ MessagesOK /\ TasksOK /\ ShownRuns /\ OrderOK /\ ShownOK
      /\ {"worker_group", "projection_group"} \subseteq Group
      /\ \A g \in Group : \A i \in DOMAIN log : box[g][i].state \in {"none", "acked"}
  BY Constants DEF ViewInv, Quiet
<1>2. \A t : ~Pending(t, TaskCommands) /\ ~Pending(t, RunCommands)
  <2>1. ASSUME NEW i \in DOMAIN log, log[i].type \in TaskCommands
        PROVE  box["worker_group"][i].state = "acked"
    <3>1. "worker_group" \in Readers(log[i].type)
      BY <1>1, <2>1 DEF Readers
    <3> QED BY <1>1, <3>1 DEF RoutedOK
  <2> QED BY <2>1 DEF Pending, TaskCommands
<1>3. \A k \in DOMAIN log : IsEvent(k) => k \in Applied
  BY <1>1, ProjectionRows DEF Applied
<1>4. ASSUME NEW t \in Task, Started(t)
      PROVE  /\ view[t].status = tasks[t]
             /\ view[t].run # 0 => runView[view[t].run] = runs[view[t].run].status
  <2>1. Told(t)
    BY <1>1, <1>2, <1>4 DEF Started, TasksOK
  <2>2. PICK k \in DOMAIN log : IsLast(k, Events(t)) /\ ~Opens(k) /\ log[k].status = tasks[t]
    BY <2>1 DEF Told
  <2>3. Events(t) \cap Applied = Events(t) /\ RunEvents(t) \cap Applied = RunEvents(t)
    BY <1>3 DEF Events, RunEvents
  <2>4. view[t].status = tasks[t]
    BY <1>1, <2>2, <2>3 DEF ShownOK
  <2>5. ASSUME view[t].run # 0
        PROVE  runView[view[t].run] = runs[view[t].run].status
    <3>1. PICK i \in RunEvents(t) : TRUE
      BY <1>1, <2>5 DEF ShownRuns
    <3>2. RunTold(t)
      BY <1>1, <1>2, <3>1 DEF RunEvents, Events, TasksOK
    <3>3. PICK l \in DOMAIN log : /\ IsLast(l, RunEvents(t)) /\ ~Opens(l)
                                  /\ log[l].status = runs[log[l].run].status
      BY <3>2 DEF RunTold
    <3>4. view[t].run = log[l].run
      BY <1>1, <2>3, <3>3 DEF ShownOK
    <3>5. PICK r : r = log[l].run
      OBVIOUS
    <3>6. l \in DOMAIN log /\ IsEvent(l) /\ log[l].task = t /\ r # 0
          /\ r \in DOMAIN runs /\ runs[r].task = t
      BY <1>1, <3>3, <3>5 DEF IsLast, RunEvents, Events, MessagesOK, Fits, IsEvent
    <3>7. EventsOf(r) \subseteq RunEvents(t)
      BY <1>1, <3>6 DEF EventsOf, RunEvents, Events, MessagesOK, Fits, IsEvent
    <3>8. IsLast(l, EventsOf(r) \cap Applied)
      BY <1>3, <3>3, <3>5, <3>6, <3>7 DEF IsLast, EventsOf
    <3>9. runView[r] = log[l].status
      BY <1>1, <3>6, <3>8 DEF ShownOK
    <3> QED BY <3>3, <3>4, <3>5, <3>9
  <2> QED BY <2>4, <2>5
<1> QED BY <1>4 DEF ViewIsRight

(* When nothing is on its way, the query tables show every task that was started, and     *)
(* its last run, as the worker left them, however the tools, the worker and the           *)
(* projection interleaved and whatever the worker's writes threw, unless a crash or a     *)
(* throw of the projection's own made it take its messages out of order.                  *)
THEOREM TheViewCatchesUp == Spec => []ViewCatchesUp
<1>1. ViewInv => ViewCatchesUp
  BY QuietIsRight DEF ViewCatchesUp
<1>2. Spec => []ViewInv
  BY ViewInvInit, ViewInvStep, PTL DEF Spec
<1> QED BY <1>1, <1>2, PTL

=============================================================================
