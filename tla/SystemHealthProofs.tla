------------------------- MODULE SystemHealthProofs -------------------------
(***************************************************************************)
(* Proofs about SystemHealth for any priorities, batch sizes, limits and   *)
(* bounds.                                                                 *)
(***************************************************************************)
EXTENDS SystemHealth, FiniteSetTheorems, SequenceTheorems, TLAPS

Row == [state : RowState, at : Nat, attempts : Nat]

(* The log is a sequence, of whatever its messages are, and every group has a row of each *)
(* message; the loop of a group holds rows that are running, each once.                   *)
BoxOK ==
  /\ box \in [Group -> Seq(Row)]
  /\ \A g \in Group : Len(box[g]) = Len(log)

BatchOK ==
  /\ batch \in [Group -> Seq(DOMAIN log)]
  /\ \A g \in Group : \A n \in DOMAIN batch[g] :
       /\ box[g][batch[g][n]].state = "running"
       /\ \A m \in DOMAIN batch[g] : n # m => batch[g][n] # batch[g][m]

HubOK == BoxOK /\ BatchOK

-----------------------------------------------------------------------------
(* Sequences *)

LEMMA FunctionIsSequence ==
  ASSUME NEW S, NEW n \in Nat, NEW f \in [1..n -> S]
  PROVE  f \in Seq(S) /\ Len(f) = n /\ DOMAIN f = 1..n
OBVIOUS

LEMMA IsIndexed ==
  ASSUME NEW S, NEW q \in Seq(S)
  PROVE  /\ Len(q) \in Nat
         /\ DOMAIN q = 1..Len(q)
         /\ \A n \in DOMAIN q : q[n] \in S
OBVIOUS

LEMMA EntryChanges ==
  ASSUME NEW S, NEW q \in Seq(S), NEW i \in DOMAIN q, NEW e \in S
  PROVE  /\ [q EXCEPT ![i] = e] \in Seq(S)
         /\ Len([q EXCEPT ![i] = e]) = Len(q)
         /\ DOMAIN [q EXCEPT ![i] = e] = DOMAIN q
         /\ \A k \in DOMAIN q : [q EXCEPT ![i] = e][k] = IF k = i THEN e ELSE q[k]
<1>1. Len(q) \in Nat /\ DOMAIN q = 1..Len(q)
  OBVIOUS
<1>2. [q EXCEPT ![i] = e] \in Seq(S) /\ Len([q EXCEPT ![i] = e]) = Len(q)
  BY <1>1, ExceptSeq
<1> QED BY <1>1, <1>2

LEMMA Appended ==
  ASSUME NEW S, NEW q \in Seq(S), NEW e \in S
  PROVE  /\ Append(q, e) \in Seq(S)
         /\ Len(Append(q, e)) = Len(q) + 1
         /\ DOMAIN Append(q, e) = DOMAIN q \cup {Len(q) + 1}
         /\ \A n \in DOMAIN q : n # Len(q) + 1 /\ Append(q, e)[n] = q[n]
         /\ Append(q, e)[Len(q) + 1] = e
<1>1. Len(q) \in Nat /\ DOMAIN q = 1..Len(q)
  OBVIOUS
<1>2. Append(q, e) \in Seq(S) /\ Len(Append(q, e)) = Len(q) + 1
  BY AppendProperties
<1>3. \A n \in 1..Len(q) : Append(q, e)[n] = q[n]
  BY AppendProperties
<1>4. Append(q, e)[Len(q) + 1] = e
  BY AppendProperties
<1> QED BY <1>1, <1>2, <1>3, <1>4

(* What is left of a sequence without its head. *)
LEMMA TailFacts ==
  ASSUME NEW S, NEW q \in Seq(S), q # <<>>
  PROVE  /\ Head(q) = q[1] /\ 1 \in DOMAIN q /\ Head(q) \in S
         /\ Tail(q) \in Seq(S)
         /\ \A n \in DOMAIN Tail(q) : n + 1 \in DOMAIN q /\ n + 1 # 1 /\ Tail(q)[n] = q[n + 1]
OBVIOUS

LEMMA WiderSequence ==
  ASSUME NEW S, NEW T, S \subseteq T, NEW q \in Seq(S)
  PROVE  q \in Seq(T)
BY SeqMonotonic

-----------------------------------------------------------------------------
(* The event hub *)

LEMMA BoxFacts ==
  ASSUME BoxOK, NEW S, log \in Seq(S), NEW g \in Group
  PROVE  /\ Len(log) \in Nat /\ DOMAIN log = 1..Len(log)
         /\ DOMAIN box[g] = DOMAIN log
         /\ box[g] \in [1..Len(log) -> Row]
         /\ \A i \in DOMAIN log : box[g][i] \in Row
<1>1. box[g] \in Seq(Row) /\ Len(box[g]) = Len(log)
  BY DEF BoxOK
<1>2. Len(log) \in Nat /\ DOMAIN log = 1..Len(log)
  BY IsIndexed
<1> QED BY <1>1, <1>2, LenProperties

LEMMA LogForEffect ==
  ASSUME HubOK, NEW S, log \in Seq(S), NEW m \in S, NEW R, LogFor(m, R), UNCHANGED batch
  PROVE  /\ log' \in Seq(S) /\ Len(log') = Len(log) + 1
         /\ DOMAIN log' = DOMAIN log \cup {Len(log) + 1}
         /\ \A i \in DOMAIN log : i # Len(log) + 1 /\ log'[i] = log[i]
         /\ log'[Len(log) + 1] = m
         /\ \A g \in Group :
              /\ \A i \in DOMAIN log : box'[g][i] = box[g][i]
              /\ box'[g][Len(log) + 1].state = IF g \in R THEN "due" ELSE "none"
              /\ box'[g][Len(log) + 1].at = Len(log) + 1
              /\ box'[g][Len(log) + 1].attempts = 0
         /\ HubOK'
<1> DEFINE new(g) == [state |-> IF g \in R THEN "due" ELSE "none", at |-> Len(log) + 1, attempts |-> 0]
<1>1. /\ log' = Append(log, m)
      /\ \A g \in Group : box'[g] = Append(box[g], new(g))
      /\ DOMAIN box' = Group
  BY DEF LogFor
<1>2. /\ log' \in Seq(S) /\ Len(log') = Len(log) + 1
      /\ DOMAIN log' = DOMAIN log \cup {Len(log) + 1}
      /\ \A i \in DOMAIN log : i # Len(log) + 1 /\ log'[i] = log[i]
      /\ log'[Len(log) + 1] = m
  BY <1>1, Appended
<1>3. ASSUME NEW g \in Group
      PROVE  /\ box'[g] \in Seq(Row) /\ Len(box'[g]) = Len(log')
             /\ \A i \in DOMAIN log : box'[g][i] = box[g][i]
             /\ box'[g][Len(log) + 1] = new(g)
  <2>1. new(g) \in Row
    <3>1. Len(log) + 1 \in Nat
      BY BoxFacts DEF HubOK
    <3>2. (IF g \in R THEN "due" ELSE "none") \in RowState
      BY DEF RowState
    <3> QED BY <3>1, <3>2 DEF Row
  <2>2. box[g] \in Seq(Row) /\ Len(box[g]) = Len(log) /\ DOMAIN box[g] = DOMAIN log
    BY BoxFacts DEF HubOK, BoxOK
  <2>3. PICK r \in Row : r = new(g)
    BY <2>1
  <2> HIDE DEF new
  <2>4. box'[g] = Append(box[g], r)
    BY <1>1, <2>3
  <2>5. /\ box'[g] \in Seq(Row) /\ Len(box'[g]) = Len(box[g]) + 1
        /\ \A i \in DOMAIN box[g] : box'[g][i] = box[g][i]
        /\ box'[g][Len(box[g]) + 1] = r
    BY <2>2, <2>4, Appended
  <2> QED BY <1>2, <2>2, <2>3, <2>5
<1>4. BoxOK'
  <2>1. box' = [g \in Group |-> box'[g]]
    BY DEF LogFor
  <2>2. box' \in [Group -> Seq(Row)]
    BY <1>3, <2>1
  <2> QED BY <1>3, <2>2 DEF BoxOK
<1>5. BatchOK'
  <2>1. ASSUME NEW g \in Group
        PROVE  /\ batch'[g] = batch[g] /\ batch'[g] \in Seq(DOMAIN log')
               /\ \A n \in DOMAIN batch[g] : batch[g][n] \in DOMAIN log
    <3>1. batch[g] \in Seq(DOMAIN log)
      BY DEF HubOK, BatchOK
    <3>2. DOMAIN log \subseteq DOMAIN log'
      BY <1>2
    <3> QED BY <3>1, <3>2, WiderSequence, IsIndexed
  <2>2. batch' \in [Group -> Seq(DOMAIN log')]
    BY <2>1 DEF HubOK, BatchOK
  <2>3. ASSUME NEW g \in Group, NEW n \in DOMAIN batch'[g]
        PROVE  /\ box'[g][batch'[g][n]].state = "running"
               /\ \A k \in DOMAIN batch'[g] : n # k => batch'[g][n] # batch'[g][k]
    <3>1. batch'[g] = batch[g] /\ n \in DOMAIN batch[g] /\ batch[g][n] \in DOMAIN log
      BY <2>1, <2>3
    <3>2. /\ box[g][batch[g][n]].state = "running"
          /\ \A k \in DOMAIN batch[g] : n # k => batch[g][n] # batch[g][k]
      BY <3>1 DEF HubOK, BatchOK
    <3>3. box'[g][batch[g][n]] = box[g][batch[g][n]]
      BY <3>1, <1>3
    <3> QED BY <3>1, <3>2, <3>3
  <2> QED BY <2>2, <2>3 DEF BatchOK
<1>6. \A g \in Group : new(g).state = (IF g \in R THEN "due" ELSE "none") /\ new(g).at = Len(log) + 1
                          /\ new(g).attempts = 0
  OBVIOUS
<1> HIDE DEF new
<1> QED BY <1>2, <1>3, <1>4, <1>5, <1>6 DEF HubOK

LEMMA ClaimEffect ==
  ASSUME HubOK, NEW S, log \in Seq(S), NEW g \in Group, ClaimBatch(g)
  PROVE  /\ UNCHANGED log
         /\ batch[g] = <<>> /\ batch'[g] # <<>>
         /\ batch'[g] \in NextBatch(g)
         /\ \A h \in Group \ {g} : batch'[h] = batch[h] /\ box'[h] = box[h]
         /\ \A i \in DOMAIN log :
              \/ box'[g][i] = box[g][i] /\ \A n \in DOMAIN batch'[g] : batch'[g][n] # i
              \/ /\ box[g][i].state = "due" /\ box'[g][i].state = "running"
                 /\ box'[g][i].at = box[g][i].at
                 /\ box'[g][i].attempts = box[g][i].attempts + 1
                 /\ \E n \in DOMAIN batch'[g] : batch'[g][n] = i
         /\ HubOK'
<1> DEFINE claimed(B) == [i \in DOMAIN log |->
                           IF \E n \in DOMAIN B : B[n] = i
                             THEN [box[g][i] EXCEPT !.state = "running", !.attempts = @ + 1]
                             ELSE box[g][i]]
<1>1. PICK B \in NextBatch(g) :
        /\ batch' = [batch EXCEPT ![g] = B]
        /\ box' = [box EXCEPT ![g] =
                     [i \in DOMAIN log |->
                        IF \E n \in DOMAIN B : B[n] = i
                          THEN [box[g][i] EXCEPT !.state = "running", !.attempts = @ + 1]
                          ELSE box[g][i]]]
  BY DEF ClaimBatch
<1>2. /\ batch[g] = <<>> /\ Due(g) # {} /\ UNCHANGED log
      /\ DOMAIN batch = Group /\ DOMAIN box = Group
  BY DEF ClaimBatch, HubOK, BoxOK, BatchOK
<1>3. Due(g) \subseteq DOMAIN log /\ \A i \in Due(g) : box[g][i].state = "due"
  BY DEF Due
<1>4. PICK k \in Nat \ {0} : k = Min({BatchSize[g], Cardinality(Due(g))})
  <2>1. IsFiniteSet(Due(g))
    <3>1. Len(log) \in Nat /\ DOMAIN log = 1..Len(log)
      BY IsIndexed
    <3>2. IsFiniteSet(1..Len(log))
      BY <3>1, FS_Interval
    <3> QED BY <1>3, <3>1, <3>2, FS_Subset
  <2>2. Cardinality(Due(g)) \in Nat \ {0}
    BY <2>1, <1>2, FS_CardinalityType, FS_EmptySet
  <2>3. BatchSize[g] \in Nat \ {0}
    BY HubAssumption
  <2> QED BY <2>2, <2>3 DEF Min
<1>5. /\ B \in [1..k -> Due(g)] /\ DOMAIN B = 1..k
      /\ \A n \in 1..k : B[n] \notin {B[m] : m \in 1..(n - 1)}
  BY <1>4 DEF NextBatch
<1>6. \A n, m \in 1..k : n # m => B[n] # B[m]
  <2>1. \A n, m \in 1..k : m < n => B[n] # B[m]
    <3>1. \A n, m \in 1..k : m < n => m \in 1..(n - 1)
      OBVIOUS
    <3> QED BY <1>5, <3>1
  <2> QED BY <2>1
<1>7. B \in Seq(DOMAIN log) /\ B # <<>>
  <2>1. B \in [1..k -> DOMAIN log]
    BY <1>3, <1>5
  <2> QED BY <2>1, FunctionIsSequence
<1>8. /\ batch'[g] = B /\ \A h \in Group \ {g} : batch'[h] = batch[h] /\ box'[h] = box[h]
      /\ box'[g] = claimed(B) /\ DOMAIN batch' = Group /\ DOMAIN box' = Group
  <2>1. box'[g] = claimed(B)
    BY <1>1, <1>2, Zenon
  <2>2. /\ \A h \in Group \ {g} : box'[h] = box[h]
        /\ DOMAIN box' = Group
    BY <1>1, <1>2, Zenon
  <2>3. batch'[g] = B /\ DOMAIN batch' = Group /\ \A h \in Group \ {g} : batch'[h] = batch[h]
    BY <1>1, <1>2, Zenon
  <2> QED BY <2>1, <2>2, <2>3
<1>9. ASSUME NEW i \in DOMAIN log
      PROVE  /\ box'[g][i] \in Row
             /\ (\E n \in DOMAIN B : B[n] = i) =>
                  /\ box[g][i].state = "due" /\ box'[g][i].state = "running"
                  /\ box'[g][i].at = box[g][i].at
                  /\ box'[g][i].attempts = box[g][i].attempts + 1
             /\ (\A n \in DOMAIN B : B[n] # i) => box'[g][i] = box[g][i]
  <2>1. box[g][i] \in Row
    BY BoxFacts DEF HubOK
  <2>2. box[g][i].attempts + 1 \in Nat
    BY <2>1 DEF Row
  <2>3. PICK n : n = box[g][i].attempts + 1
    OBVIOUS
  <2>4. /\ [box[g][i] EXCEPT !.state = "running", !.attempts = n] \in Row
        /\ [box[g][i] EXCEPT !.state = "running", !.attempts = n].state = "running"
        /\ [box[g][i] EXCEPT !.state = "running", !.attempts = n].at = box[g][i].at
        /\ [box[g][i] EXCEPT !.state = "running", !.attempts = n].attempts = n
    BY <2>1, <2>2, <2>3 DEF Row, RowState
  <2>5. box'[g][i] = IF \E j \in DOMAIN B : B[j] = i
                       THEN [box[g][i] EXCEPT !.state = "running", !.attempts = n]
                       ELSE box[g][i]
    BY <1>8, <2>3
  <2>6. \A j \in DOMAIN B : B[j] = i => box[g][i].state = "due"
    BY <1>3, <1>5
  <2> QED BY <2>1, <2>3, <2>4, <2>5, <2>6
<1>10. BoxOK'
  <2>1. box'[g] \in Seq(Row) /\ Len(box'[g]) = Len(log')
    <3>1. Len(log) \in Nat /\ DOMAIN log = 1..Len(log)
      BY BoxFacts DEF HubOK
    <3>2. box'[g] \in [1..Len(log) -> Row]
      BY <1>8, <1>9, <3>1
    <3> QED BY <3>1, <3>2, <1>2, FunctionIsSequence
  <2>2. box' \in [Group -> Seq(Row)]
    <3>1. box' = [box EXCEPT ![g] = box'[g]]
      BY <1>1, <1>2
    <3> QED BY <2>1, <3>1, <1>8 DEF HubOK, BoxOK
  <2> QED BY <2>1, <2>2, <1>2, <1>8 DEF HubOK, BoxOK
<1>11. BatchOK'
  <2>1. batch' \in [Group -> Seq(DOMAIN log')]
    BY <1>1, <1>2, <1>7 DEF HubOK, BatchOK
  <2>2. ASSUME NEW n \in DOMAIN B
        PROVE  box'[g][B[n]].state = "running" /\ \A m \in DOMAIN B : n # m => B[n] # B[m]
    BY <1>3, <1>5, <1>6, <1>9
  <2>3. ASSUME NEW h \in Group, NEW n \in DOMAIN batch'[h]
        PROVE  /\ box'[h][batch'[h][n]].state = "running"
               /\ \A m \in DOMAIN batch'[h] : n # m => batch'[h][n] # batch'[h][m]
    <3>1. CASE h = g
      BY <3>1, <2>2, <2>3, <1>8
    <3>2. CASE h # g
      <4>1. batch'[h] = batch[h] /\ box'[h] = box[h]
        BY <3>2, <1>8
      <4> QED BY <4>1, <2>3 DEF HubOK, BatchOK
    <3> QED BY <3>1, <3>2
  <2> QED BY <2>1, <2>3 DEF BatchOK
<1>12. \A i \in DOMAIN log :
         \/ box'[g][i] = box[g][i] /\ \A n \in DOMAIN B : B[n] # i
         \/ /\ box[g][i].state = "due" /\ box'[g][i].state = "running"
            /\ box'[g][i].at = box[g][i].at
            /\ box'[g][i].attempts = box[g][i].attempts + 1
            /\ \E n \in DOMAIN B : B[n] = i
  BY <1>9
<1> HIDE DEF claimed
<1> QED BY <1>2, <1>7, <1>8, <1>10, <1>11, <1>12 DEF HubOK

LEMMA SettleEffect ==
  ASSUME HubOK, NEW S, log \in Seq(S), NEW g \in Group, batch[g] # <<>>, NEW s \in RowState,
         Settle(g, s)
  PROVE  /\ UNCHANGED log
         /\ Head(batch[g]) \in DOMAIN log /\ box[g][Head(batch[g])].state = "running"
         /\ batch'[g] = Tail(batch[g])
         /\ \A h \in Group \ {g} : batch'[h] = batch[h] /\ box'[h] = box[h]
         /\ box'[g][Head(batch[g])].state = s
         /\ box'[g][Head(batch[g])].at = box[g][Head(batch[g])].at
         /\ box'[g][Head(batch[g])].attempts = box[g][Head(batch[g])].attempts
         /\ \A i \in DOMAIN log : i # Head(batch[g]) => box'[g][i] = box[g][i]
         /\ HubOK'
<1> DEFINE i == Head(batch[g])
<1>1. /\ box' = [box EXCEPT ![g] = [box[g] EXCEPT ![i] = [box[g][i] EXCEPT !.state = s]]]
      /\ batch' = [batch EXCEPT ![g] = Tail(batch[g])]
      /\ UNCHANGED log
  BY DEF Settle
<1>2. DOMAIN box = Group /\ DOMAIN batch = Group /\ batch[g] \in Seq(DOMAIN log)
  BY DEF HubOK, BoxOK, BatchOK
<1>3. /\ i = batch[g][1] /\ 1 \in DOMAIN batch[g] /\ i \in DOMAIN log
      /\ Tail(batch[g]) \in Seq(DOMAIN log)
      /\ \A n \in DOMAIN Tail(batch[g]) :
           n + 1 \in DOMAIN batch[g] /\ n + 1 # 1 /\ Tail(batch[g])[n] = batch[g][n + 1]
  BY <1>2, TailFacts
<1>4. box[g][i] \in Row /\ box[g] \in Seq(Row) /\ DOMAIN box[g] = DOMAIN log
  BY <1>3, BoxFacts DEF HubOK, BoxOK
<1>5. /\ [box[g][i] EXCEPT !.state = s] \in Row
      /\ [box[g][i] EXCEPT !.state = s].state = s
      /\ [box[g][i] EXCEPT !.state = s].at = box[g][i].at
      /\ [box[g][i] EXCEPT !.state = s].attempts = box[g][i].attempts
  BY <1>4 DEF Row
<1>6. /\ box'[g] = [box[g] EXCEPT ![i] = [box[g][i] EXCEPT !.state = s]]
      /\ batch'[g] = Tail(batch[g])
      /\ \A h \in Group \ {g} : batch'[h] = batch[h] /\ box'[h] = box[h]
      /\ DOMAIN box' = Group
  BY <1>1, <1>2
<1> HIDE DEF i
<1>7. /\ box'[g] \in Seq(Row) /\ Len(box'[g]) = Len(box[g])
      /\ \A k \in DOMAIN log : box'[g][k] = IF k = i THEN [box[g][i] EXCEPT !.state = s] ELSE box[g][k]
  BY <1>3, <1>4, <1>5, <1>6, EntryChanges
<1>8. BoxOK'
  BY <1>1, <1>6, <1>7 DEF HubOK, BoxOK
<1>9. BatchOK'
  <2>1. batch' \in [Group -> Seq(DOMAIN log')]
    BY <1>1, <1>2, <1>3 DEF HubOK, BatchOK
  <2>2. ASSUME NEW n \in DOMAIN Tail(batch[g])
        PROVE  /\ box'[g][Tail(batch[g])[n]].state = "running"
               /\ \A m \in DOMAIN Tail(batch[g]) : n # m => Tail(batch[g])[n] # Tail(batch[g])[m]
    <3>1. Tail(batch[g])[n] \in DOMAIN log /\ Tail(batch[g])[n] # i
      BY <1>2, <1>3, IsIndexed DEF HubOK, BatchOK
    <3>2. box[g][Tail(batch[g])[n]].state = "running"
      BY <1>3 DEF HubOK, BatchOK
    <3>3. \A m \in DOMAIN Tail(batch[g]) : n # m => n + 1 # m + 1
      BY <1>3, IsIndexed
    <3> QED BY <3>1, <3>2, <3>3, <1>3, <1>7 DEF HubOK, BatchOK
  <2>3. ASSUME NEW h \in Group, NEW n \in DOMAIN batch'[h]
        PROVE  /\ box'[h][batch'[h][n]].state = "running"
               /\ \A m \in DOMAIN batch'[h] : n # m => batch'[h][n] # batch'[h][m]
    <3>1. CASE h = g
      BY <3>1, <2>2, <2>3, <1>6
    <3>2. CASE h # g
      <4>1. batch'[h] = batch[h] /\ box'[h] = box[h]
        BY <3>2, <1>6
      <4> QED BY <4>1, <2>3 DEF HubOK, BatchOK
    <3> QED BY <3>1, <3>2
  <2> QED BY <2>1, <2>3 DEF BatchOK
<1>10. box[g][i].state = "running"
  BY <1>3 DEF HubOK, BatchOK
<1> QED BY <1>1, <1>3, <1>5, <1>6, <1>7, <1>8, <1>9, <1>10 DEF HubOK, i

(* A row that is not running changes state or place: no loop holds it. *)
LEMMA RowChanges ==
  ASSUME HubOK, NEW S, log \in Seq(S), NEW g \in Group, NEW i \in DOMAIN log,
         NEW r \in Row, box[g][i].state # "running",
         box' = [box EXCEPT ![g] = [box[g] EXCEPT ![i] = r]], UNCHANGED <<log, batch>>
  PROVE  /\ \A h \in Group \ {g} : box'[h] = box[h]
         /\ box'[g][i] = r
         /\ \A k \in DOMAIN log : k # i => box'[g][k] = box[g][k]
         /\ HubOK'
<1>1. DOMAIN box = Group /\ box[g] \in Seq(Row) /\ DOMAIN box[g] = DOMAIN log
  BY BoxFacts DEF HubOK, BoxOK
<1>2. /\ box'[g] = [box[g] EXCEPT ![i] = r] /\ DOMAIN box' = Group
      /\ \A h \in Group \ {g} : box'[h] = box[h]
  BY <1>1
<1>3. /\ box'[g] \in Seq(Row) /\ Len(box'[g]) = Len(box[g])
      /\ \A k \in DOMAIN log : box'[g][k] = IF k = i THEN r ELSE box[g][k]
  BY <1>1, <1>2, EntryChanges
<1>4. BoxOK'
  BY <1>2, <1>3 DEF HubOK, BoxOK
<1>5. ASSUME NEW h \in Group, NEW n \in DOMAIN batch'[h]
      PROVE  /\ box'[h][batch'[h][n]].state = "running"
             /\ \A m \in DOMAIN batch'[h] : n # m => batch'[h][n] # batch'[h][m]
  <2>1. /\ box[h][batch[h][n]].state = "running"
        /\ \A m \in DOMAIN batch[h] : n # m => batch[h][n] # batch[h][m]
    BY <1>5 DEF HubOK, BatchOK
  <2>2. batch[h][n] \in DOMAIN log
    BY <1>5, IsIndexed DEF HubOK, BatchOK
  <2>3. box'[h][batch[h][n]] = box[h][batch[h][n]]
    BY <2>1, <2>2, <1>2, <1>3
  <2> QED BY <2>1, <2>3
<1>6. BatchOK'
  BY <1>5 DEF HubOK, BatchOK
<1> QED BY <1>2, <1>3, <1>4, <1>6 DEF HubOK

LEMMA DelayEndsEffect ==
  ASSUME HubOK, NEW S, log \in Seq(S), NEW g \in Group, NEW i \in DOMAIN log, DelayEnds(g, i)
  PROVE  /\ UNCHANGED <<log, batch>>
         /\ box[g][i].state = "cooling"
         /\ \A h \in Group \ {g} : box'[h] = box[h]
         /\ box'[g][i].state = "due"
         /\ box'[g][i].at = Len(log) + 1 /\ box'[g][i].attempts = box[g][i].attempts
         /\ \A k \in DOMAIN log : k # i => box'[g][k] = box[g][k]
         /\ HubOK'
<1>1. box[g][i] \in Row /\ Len(log) + 1 \in Nat /\ DOMAIN box = Group
  BY BoxFacts DEF HubOK, BoxOK
<1>2. PICK n \in Nat : n = Len(log) + 1
  BY <1>1
<1>3. /\ [box[g][i] EXCEPT !.state = "due", !.at = n] \in Row
      /\ [box[g][i] EXCEPT !.state = "due", !.at = n].state = "due"
      /\ [box[g][i] EXCEPT !.state = "due", !.at = n].at = n
      /\ [box[g][i] EXCEPT !.state = "due", !.at = n].attempts = box[g][i].attempts
  BY <1>1 DEF Row, RowState
<1>4. PICK r \in Row : r = [box[g][i] EXCEPT !.state = "due", !.at = n]
  BY <1>3
<1>5. /\ box' = [box EXCEPT ![g] = [box[g] EXCEPT ![i] = r]]
      /\ UNCHANGED <<log, batch>> /\ box[g][i].state = "cooling"
  <2>1. /\ box' = [box EXCEPT ![g][i].state = "due", ![g][i].at = n]
        /\ UNCHANGED <<log, batch>> /\ box[g][i].state = "cooling"
    BY <1>2 DEF DelayEnds
  <2>2. box[g] \in [DOMAIN log -> Row] /\ DOMAIN box[g] = DOMAIN log
    BY BoxFacts DEF HubOK
  <2> QED BY <2>1, <2>2, <1>1, <1>4
<1>6. box[g][i].state # "running"
  BY <1>5
<1>7. /\ \A h \in Group \ {g} : box'[h] = box[h]
      /\ box'[g][i] = r
      /\ \A j \in DOMAIN log : j # i => box'[g][j] = box[g][j]
      /\ HubOK'
  BY <1>5, <1>6, RowChanges
<1> QED BY <1>2, <1>3, <1>4, <1>5, <1>7

LEMMA LeaseEndsEffect ==
  ASSUME HubOK, NEW S, log \in Seq(S), NEW g \in Group, NEW i \in DOMAIN log, LeaseEnds(g, i)
  PROVE  /\ UNCHANGED <<log, batch>>
         /\ box[g][i].state = "orphaned"
         /\ \A h \in Group \ {g} : box'[h] = box[h]
         /\ box'[g][i].state = "due"
         /\ box'[g][i].at = box[g][i].at /\ box'[g][i].attempts = box[g][i].attempts
         /\ \A k \in DOMAIN log : k # i => box'[g][k] = box[g][k]
         /\ HubOK'
<1>1. box[g][i] \in Row /\ DOMAIN box = Group
  BY BoxFacts DEF HubOK, BoxOK
<1>2. /\ [box[g][i] EXCEPT !.state = "due"] \in Row
      /\ [box[g][i] EXCEPT !.state = "due"].state = "due"
      /\ [box[g][i] EXCEPT !.state = "due"].at = box[g][i].at
      /\ [box[g][i] EXCEPT !.state = "due"].attempts = box[g][i].attempts
  BY <1>1 DEF Row, RowState
<1>3. PICK r \in Row : r = [box[g][i] EXCEPT !.state = "due"]
  BY <1>2
<1>4. /\ box' = [box EXCEPT ![g] = [box[g] EXCEPT ![i] = r]]
      /\ UNCHANGED <<log, batch>> /\ box[g][i].state = "orphaned"
  BY <1>3 DEF LeaseEnds
<1>5. box[g][i].state # "running"
  BY <1>4
<1>6. /\ \A h \in Group \ {g} : box'[h] = box[h]
      /\ box'[g][i] = r
      /\ \A j \in DOMAIN log : j # i => box'[g][j] = box[g][j]
      /\ HubOK'
  BY <1>4, <1>5, RowChanges
<1> QED BY <1>2, <1>3, <1>4, <1>6

LEMMA OrphanEffect ==
  ASSUME HubOK, NEW S, log \in Seq(S), Orphan
  PROVE  /\ UNCHANGED log
         /\ \A g \in Group : batch'[g] = <<>>
         /\ \A g \in Group : \A i \in DOMAIN log :
              IF box[g][i].state = "running"
                THEN /\ box'[g][i].state = "orphaned" /\ box'[g][i].at = box[g][i].at
                     /\ box'[g][i].attempts = box[g][i].attempts
                ELSE box'[g][i] = box[g][i]
         /\ HubOK'
<1>1. /\ batch' = [g \in Group |-> <<>>] /\ UNCHANGED log
      /\ DOMAIN box' = Group
  BY DEF Orphan
<1>2. ASSUME NEW g \in Group, NEW i \in DOMAIN log
      PROVE  /\ box'[g][i] \in Row
             /\ IF box[g][i].state = "running"
                  THEN /\ box'[g][i].state = "orphaned" /\ box'[g][i].at = box[g][i].at
                       /\ box'[g][i].attempts = box[g][i].attempts
                  ELSE box'[g][i] = box[g][i]
  <2>1. box'[g][i] = IF box[g][i].state = "running" THEN [box[g][i] EXCEPT !.state = "orphaned"]
                                                    ELSE box[g][i]
    BY DEF Orphan
  <2>2. box[g][i] \in Row
    BY BoxFacts DEF HubOK
  <2>3. /\ [box[g][i] EXCEPT !.state = "orphaned"] \in Row
        /\ [box[g][i] EXCEPT !.state = "orphaned"].state = "orphaned"
        /\ [box[g][i] EXCEPT !.state = "orphaned"].at = box[g][i].at
        /\ [box[g][i] EXCEPT !.state = "orphaned"].attempts = box[g][i].attempts
    BY <2>2 DEF Row, RowState
  <2> QED BY <2>1, <2>2, <2>3
<1>3. ASSUME NEW g \in Group
      PROVE  box'[g] \in Seq(Row) /\ Len(box'[g]) = Len(log)
  <2>1. DOMAIN box'[g] = DOMAIN log /\ box'[g] = [i \in DOMAIN log |-> box'[g][i]]
    BY DEF Orphan
  <2>2. Len(log) \in Nat /\ DOMAIN log = 1..Len(log)
    BY IsIndexed
  <2>3. box'[g] \in [1..Len(log) -> Row]
    BY <2>1, <2>2, <1>2
  <2> QED BY <2>2, <2>3, FunctionIsSequence
<1>4. BoxOK'
  <2>1. box' = [g \in Group |-> box'[g]]
    BY DEF Orphan
  <2>2. box' \in [Group -> Seq(Row)]
    BY <1>3, <2>1
  <2> QED BY <1>1, <1>3, <2>2 DEF BoxOK
<1>5. BatchOK'
  <2>1. <<>> \in Seq(DOMAIN log')
    OBVIOUS
  <2>2. \A g \in Group : batch'[g] = <<>> /\ DOMAIN batch'[g] = {}
    BY <1>1
  <2>3. batch' \in [Group -> Seq(DOMAIN log')]
    BY <1>1, <2>1
  <2> QED BY <2>2, <2>3 DEF BatchOK
<1> QED BY <1>1, <1>2, <1>4, <1>5 DEF HubOK

LEMMA HubOKInit == HubInit => HubOK
<1> SUFFICES ASSUME HubInit PROVE HubOK
  OBVIOUS
<1> USE DEF HubInit
<1>1. BoxOK
  BY DEF BoxOK
<1>2. BatchOK
  BY DEF BatchOK
<1> QED BY <1>1, <1>2 DEF HubOK

-----------------------------------------------------------------------------
(* The invariant *)

Shows == {"none", "ok", "degraded", "failed"}

LogEntry == [type : MessageTypes, priority : Nat, component : Reported \cup {"none"},
             status : Shows, cause : 0..Len(log)]

(* A row that may still be claimed has an attempt left; a crash gives one more. *)
AttemptsOK ==
  \A g \in Group : \A i \in DOMAIN log :
    /\ box[g][i].at \in 1..Len(log) + 1
    /\ box[g][i].attempts <= MaxAttempts + crashes
    /\ box[g][i].state \in {"none", "due", "cooling", "orphaned"} =>
         box[g][i].attempts < MaxAttempts + crashes

(* What the monitor reports is owed to a tick; nothing else is owed to anything. *)
Fits(m) ==
  IF m.component = "event_hub"
    THEN m.cause \in DOMAIN log /\ log[m.cause].type = "event.monitor.tick"
    ELSE m.cause = 0

MessagesOK == \A k \in DOMAIN log : Fits(log[k])

Monitored == Current("monitor_group")

TurnOK ==
  /\ turn \in {"idle", "reported", "handled"}
  /\ turn # "idle" => batch["monitor_group"] # <<>>
  /\ turn = "reported" => log[Monitored].type = "event.monitor.tick"

(* The monitor may still alert for a message that it holds and is not done with. *)
Owed(i) ==
  /\ \E n \in DOMAIN batch["monitor_group"] : batch["monitor_group"][n] = i
  /\ turn = "handled" => i # Monitored

AlertsOK ==
  \A i \in DOMAIN log :
    Cardinality(AlertsOf(i)) + (IF Owed(i) THEN 1 ELSE 0) <= box["monitor_group"][i].attempts

AccountTypes ==
  /\ view \in [Reported -> Shows]
  /\ {saved, valid} \subseteq 0..changes + 1
  /\ receiver \in [pc : {"off", "polling", "sleeping"}, token : 0..changes + 1]
  /\ budget \in Budgets
  /\ changes \in 0..budget.changes
  /\ throws \in 0..budget.throws
  /\ crashes \in 0..budget.crashes

HealthInv ==
  /\ log \in Seq(LogEntry)
  /\ HubOK
  /\ AttemptsOK
  /\ MessagesOK
  /\ TurnOK
  /\ AlertsOK
  /\ AccountTypes

LEMMA Constants ==
  /\ Group = {"monitor_group", "projection_group", "supervisor_group"}
  /\ MaxAttempts \in Nat \ {0}
  /\ \A p \in {"user", "tick", "report", "alert"} : Priority[p] \in Nat
  /\ \A b \in Budgets : {b.ticks, b.messages, b.changes, b.expiryAlerts, b.throws, b.crashes} \subseteq Nat
  /\ {"event.monitor.tick", "event.user.message_received", "event.system.health",
      "event.system.alert"} \subseteq MessageTypes
BY HubAssumption, HealthAssumption
   DEF MessageTypes, MonitorTypes, UserMessages, ProjectedTypes

LEMMA Numbers ==
  ASSUME HealthInv
  PROVE  /\ Len(log) \in Nat /\ DOMAIN log = 1..Len(log)
         /\ {changes, throws, crashes, budget.changes, budget.throws, budget.crashes} \subseteq Nat
         /\ \A k \in DOMAIN log : log[k] \in LogEntry
         /\ \A g \in Group : \A i \in DOMAIN log :
              box[g][i] \in Row /\ box[g][i].attempts \in Nat /\ box[g][i].at \in Nat
<1>1. /\ Len(log) \in Nat /\ DOMAIN log = 1..Len(log)
      /\ \A k \in DOMAIN log : log[k] \in LogEntry
  BY IsIndexed DEF HealthInv
<1>2. {budget.changes, budget.throws, budget.crashes} \subseteq Nat
  BY Constants DEF HealthInv, AccountTypes
<1>3. {changes, throws, crashes} \subseteq Nat
  BY <1>2 DEF HealthInv, AccountTypes
<1>4. \A g \in Group : \A i \in DOMAIN log :
        box[g][i] \in Row /\ box[g][i].attempts \in Nat /\ box[g][i].at \in Nat
  <2>1. BoxOK /\ log \in Seq(LogEntry)
    BY DEF HealthInv, HubOK
  <2>2. \A g \in Group : \A i \in DOMAIN log : box[g][i] \in Row
    BY <2>1, BoxFacts
  <2> QED BY <2>2 DEF Row
<1> QED BY <1>1, <1>2, <1>3, <1>4

LEMMA TypesInParts == HealthInv => TypeOK
<1> SUFFICES ASSUME HealthInv PROVE TypeOK
  OBVIOUS
<1>1. ASSUME NEW g \in Group
      PROVE  /\ box[g] \in Seq([state : RowState, at : 1..Len(log) + 1, attempts : 0..MaxAttempts + crashes])
             /\ Len(box[g]) = Len(log)
             /\ \A n \in DOMAIN batch[g] : box[g][batch[g][n]].state = "running"
  <2> DEFINE NarrowRow == [state : RowState, at : 1..Len(log) + 1, attempts : 0..MaxAttempts + crashes]
  <2>1. /\ Len(log) \in Nat /\ DOMAIN log = 1..Len(log)
        /\ box[g] \in [1..Len(log) -> Row]
    <3>1. BoxOK /\ log \in Seq(LogEntry)
      BY DEF HealthInv, HubOK
    <3> QED BY <3>1, BoxFacts
  <2>2. ASSUME NEW i \in DOMAIN log
        PROVE  box[g][i] \in NarrowRow
    <3>1. box[g][i] \in Row /\ box[g][i].attempts \in Nat /\ crashes \in Nat /\ MaxAttempts \in Nat
      BY Numbers, Constants
    <3>2. box[g][i].at \in 1..Len(log) + 1 /\ box[g][i].attempts <= MaxAttempts + crashes
      BY DEF HealthInv, AttemptsOK
    <3>3. box[g][i].attempts \in 0..MaxAttempts + crashes
      BY <3>1, <3>2
    <3> QED BY <3>1, <3>2, <3>3 DEF Row
  <2> HIDE DEF NarrowRow
  <2>3. box[g] \in [1..Len(log) -> NarrowRow]
    BY <2>1, <2>2
  <2>4. box[g] \in Seq(NarrowRow) /\ Len(box[g]) = Len(log)
    BY <2>1, <2>3, FunctionIsSequence
  <2> QED BY <2>4 DEF HealthInv, HubOK, BatchOK, NarrowRow
<1>2. AccountTypes /\ TurnOK /\ log \in Seq(LogEntry)
  BY DEF HealthInv
<1> QED BY <1>1, <1>2 DEF TypeOK, AccountTypes, TurnOK, LogEntry, Shows

(* The head of the monitor's batch, when it has one. *)
LEMMA MonitoredFacts ==
  ASSUME HealthInv, batch["monitor_group"] # <<>>
  PROVE  /\ Monitored \in DOMAIN log
         /\ \E n \in DOMAIN batch["monitor_group"] : batch["monitor_group"][n] = Monitored
<1>1. batch["monitor_group"] \in Seq(DOMAIN log)
  BY Constants DEF HealthInv, HubOK, BatchOK
<1> QED BY <1>1, TailFacts DEF Monitored, Current

-----------------------------------------------------------------------------
(* What a step does to the hub and to the turn of the monitor, of the following six. *)

Aside ==
  /\ UNCHANGED <<hub, crashes>>
  /\ \/ turn' = turn
     \/ turn = "idle" /\ turn' = "handled" /\ batch["monitor_group"] # <<>>

Logs ==
  \E m \in LogEntry :
    /\ LogMessage(m)
    /\ Fits(m)
    /\ UNCHANGED <<batch, crashes>>
    /\ \/ turn' = turn /\ m.cause = 0
       \/ /\ turn = "idle" /\ turn' \in {"reported", "handled"} /\ batch["monitor_group"] # <<>>
          /\ log[Monitored].type = "event.monitor.tick" /\ m.type = "event.system.health"
       \/ turn = "reported" /\ turn' = "handled" /\ m.cause = Monitored

Claims == \E g \in Group : ClaimBatch(g) /\ UNCHANGED <<turn, crashes>>

ComesBack ==
  \E g \in Group, i \in DOMAIN log :
    (DelayEnds(g, i) \/ LeaseEnds(g, i)) /\ UNCHANGED <<turn, crashes>>

Settles ==
  \E g \in Group, s \in {"acked", "dead_letter", "cooling"} :
    /\ batch[g] # <<>>
    /\ Settle(g, s)
    /\ s = "cooling" => box[g][Head(batch[g])].attempts < MaxAttempts
    /\ turn' = IF g = "monitor_group" THEN "idle" ELSE turn
    /\ UNCHANGED crashes

Dies == Orphan /\ turn' = "idle" /\ crashes' = crashes + 1

LEMMA FailSettles ==
  ASSUME HealthInv, NEW g \in Group, batch[g] # <<>>, Fail(g)
  PROVE  \E s \in {"acked", "dead_letter", "cooling"} :
           /\ Settle(g, s)
           /\ s = "cooling" => box[g][Head(batch[g])].attempts < MaxAttempts
<1>1. Head(batch[g]) \in DOMAIN log
  <2>1. batch[g] \in Seq(DOMAIN log)
    BY DEF HealthInv, HubOK, BatchOK
  <2> QED BY <2>1, TailFacts
<1>2. box[g][Head(batch[g])].attempts \in Nat /\ MaxAttempts \in Nat
  BY <1>1, Numbers, Constants
<1>3. CASE box[g][Head(batch[g])].attempts >= MaxAttempts
  BY <1>3 DEF Fail
<1>4. CASE ~(box[g][Head(batch[g])].attempts >= MaxAttempts)
  <2>1. box[g][Head(batch[g])].attempts < MaxAttempts
    BY <1>2, <1>4
  <2> QED BY <1>4, <2>1 DEF Fail
<1> QED BY <1>3, <1>4

(* The messages that the steps put on the hub. *)
LEMMA MessagesFit ==
  ASSUME HealthInv
  PROVE  /\ Message("event.monitor.tick", "tick") \in LogEntry
         /\ Message("event.user.message_received", "user") \in LogEntry
         /\ Message("event.monitor.tick", "tick").cause = 0
         /\ Message("event.user.message_received", "user").cause = 0
         /\ Fits(Message("event.monitor.tick", "tick"))
         /\ Fits(Message("event.user.message_received", "user"))
         /\ Report("event.system.alert", "report", "wechat_clawbot", "failed", 0) \in LogEntry
         /\ Report("event.system.alert", "report", "wechat_clawbot", "failed", 0).cause = 0
         /\ Fits(Report("event.system.alert", "report", "wechat_clawbot", "failed", 0))
         /\ \A s \in Shows, i \in DOMAIN log, type \in {"event.system.health", "event.system.alert"},
               p \in {"report", "alert"} :
              /\ Report(type, p, "event_hub", s, i) \in LogEntry
              /\ Report(type, p, "event_hub", s, i).cause = i
              /\ Report(type, p, "event_hub", s, i).type = type
              /\ log[i].type = "event.monitor.tick" => Fits(Report(type, p, "event_hub", s, i))
<1>1. 0 \in 0..Len(log) /\ \A i \in DOMAIN log : i \in 0..Len(log)
  BY Numbers
<1>2. {"none", "failed"} \subseteq Shows /\ {"event_hub", "wechat_clawbot"} \subseteq Reported
  BY DEF Shows, Reported
<1>3. /\ Message("event.monitor.tick", "tick") \in LogEntry
      /\ Message("event.user.message_received", "user") \in LogEntry
      /\ Report("event.system.alert", "report", "wechat_clawbot", "failed", 0) \in LogEntry
  BY <1>1, <1>2, Constants DEF Message, Report, LogEntry
<1>4. /\ Message("event.monitor.tick", "tick").cause = 0
      /\ Message("event.user.message_received", "user").cause = 0
      /\ Report("event.system.alert", "report", "wechat_clawbot", "failed", 0).cause = 0
      /\ Fits(Message("event.monitor.tick", "tick"))
      /\ Fits(Message("event.user.message_received", "user"))
      /\ Fits(Report("event.system.alert", "report", "wechat_clawbot", "failed", 0))
  BY DEF Message, Report, Fits
<1>5. ASSUME NEW s \in Shows, NEW i \in DOMAIN log,
             NEW type \in {"event.system.health", "event.system.alert"}, NEW p \in {"report", "alert"}
      PROVE  /\ Report(type, p, "event_hub", s, i) \in LogEntry
             /\ Report(type, p, "event_hub", s, i).cause = i
             /\ Report(type, p, "event_hub", s, i).type = type
             /\ log[i].type = "event.monitor.tick" => Fits(Report(type, p, "event_hub", s, i))
  <2>1. Priority[p] \in Nat /\ type \in MessageTypes
    BY Constants
  <2>2. Report(type, p, "event_hub", s, i) \in LogEntry
    BY <1>1, <1>2, <2>1 DEF Report, LogEntry
  <2> QED BY <2>2 DEF Report, Fits
<1> QED BY <1>3, <1>4, <1>5

LEMMA StepsAre ==
  ASSUME HealthInv, [Next]_vars
  PROVE  Aside \/ Logs \/ Claims \/ ComesBack \/ Settles \/ Dies
<1>1. turn # "idle" => batch["monitor_group"] # <<>>
  BY DEF HealthInv, TurnOK
<1>2. CASE \/ UNCHANGED vars
           \/ Expire \/ Login \/ Logout \/ Wake \/ Start
  BY <1>2 DEF vars, Expire, Login, Logout, Wake, Start, faults, hub, Aside
<1>3. CASE LeaveAlone
  BY <1>3 DEF LeaveAlone, Handling, faults, hub, Aside
<1>4. CASE Tick \/ UserMessage
  BY <1>4, MessagesFit DEF Tick, UserMessage, faults, Logs
<1>5. CASE PollExpired
  <2>1. CASE UNCHANGED <<log, box>>
    BY <1>5, <2>1 DEF PollExpired, faults, hub, Aside
  <2>2. CASE LogMessage(Report("event.system.alert", "report", "wechat_clawbot", "failed", 0))
    BY <1>5, <2>2, MessagesFit DEF PollExpired, faults, Logs
  <2> QED BY <1>5, <2>1, <2>2 DEF PollExpired
<1>6. CASE ReportHealth
  <2>1. batch["monitor_group"] # <<>> /\ turn = "idle" /\ log[Monitored].type = "event.monitor.tick"
        /\ UNCHANGED <<batch, crashes>> /\ turn' \in {"reported", "handled"}
    BY <1>6 DEF ReportHealth, Handling, Monitored, faults
  <2>2. PICK s \in Shows :
          LogMessage(Report("event.system.health", "report", "event_hub", s, Monitored))
    BY <1>6 DEF ReportHealth, Shows, Monitored
  <2>3. Monitored \in DOMAIN log
    BY <2>1, MonitoredFacts
  <2>4. PICK m \in LogEntry : /\ m = Report("event.system.health", "report", "event_hub", s, Monitored)
                              /\ Fits(m) /\ m.type = "event.system.health"
    BY <2>1, <2>3, MessagesFit
  <2> QED BY <2>1, <2>2, <2>4 DEF Logs
<1>7. CASE AppendAlert
  <2>1. /\ turn = "reported" /\ turn' = "handled" /\ UNCHANGED <<batch, crashes>>
        /\ LogMessage(Report("event.system.alert", "alert", "event_hub", "degraded", Monitored))
    BY <1>7 DEF AppendAlert, Monitored, faults
  <2>2. Monitored \in DOMAIN log /\ log[Monitored].type = "event.monitor.tick" /\ "degraded" \in Shows
    BY <1>1, <2>1, MonitoredFacts DEF HealthInv, TurnOK, Shows
  <2>3. PICK m \in LogEntry : /\ m = Report("event.system.alert", "alert", "event_hub", "degraded", Monitored)
                              /\ Fits(m) /\ m.cause = Monitored
    BY <2>2, MessagesFit
  <2> QED BY <2>1, <2>3 DEF Logs
<1>8. CASE Ack
  <2>1. /\ batch["monitor_group"] # <<>> /\ Settle("monitor_group", "acked") /\ turn' = "idle"
        /\ UNCHANGED crashes /\ "monitor_group" \in Group
    BY <1>1, <1>8, Constants DEF Ack, faults
  <2> QED BY <2>1 DEF Settles
<1>9. CASE MonitorThrows
  <2>1. /\ batch["monitor_group"] # <<>> /\ Fail("monitor_group") /\ turn' = "idle"
        /\ UNCHANGED crashes /\ "monitor_group" \in Group
    BY <1>9, Constants DEF MonitorThrows, Handling
  <2> QED BY <2>1, FailSettles DEF Settles
<1>10. ASSUME NEW g \in {"projection_group", "supervisor_group"}, batch[g] # <<>>,
              Settle(g, "acked") \/ Fail(g), UNCHANGED <<turn, crashes>>
       PROVE  Settles
  <2>1. g \in Group /\ g # "monitor_group"
    BY Constants
  <2> QED BY <1>10, <2>1, FailSettles DEF Settles
<1>11. CASE Project
  BY <1>10, <1>11 DEF Project, Handling
<1>12. CASE SuperviseMessage
  BY <1>10, <1>12 DEF SuperviseMessage, Handling
<1>13. CASE \E g \in Group : Claim(g)
  BY <1>13 DEF Claim, Claims, faults
<1>14. CASE \E g \in Group, i \in DOMAIN log : Comeback(g, i)
  BY <1>14 DEF Comeback, ComesBack, faults
<1>15. CASE Crash
  BY <1>15 DEF Crash, Dies
<1> QED BY <1>2, <1>3, <1>4, <1>5, <1>6, <1>7, <1>8, <1>9, <1>11, <1>12, <1>13, <1>14, <1>15
        DEF Next, LoopStep, MonitorStep, ReceiverStep

-----------------------------------------------------------------------------
(* The steps keep the invariant *)

LEMMA InvOfHub == HealthInv => HubOK /\ log \in Seq(LogEntry)
BY DEF HealthInv

LEMMA LogsEffect ==
  ASSUME HealthInv, NEW m \in LogEntry, LogMessage(m), UNCHANGED batch
  PROVE  /\ log' \in Seq(LogEntry) /\ Len(log') = Len(log) + 1
         /\ DOMAIN log' = DOMAIN log \cup {Len(log) + 1}
         /\ \A i \in DOMAIN log : i # Len(log) + 1 /\ log'[i] = log[i]
         /\ log'[Len(log) + 1] = m
         /\ \A g \in Group :
              /\ \A i \in DOMAIN log : box'[g][i] = box[g][i]
              /\ box'[g][Len(log) + 1].at = Len(log) + 1
              /\ box'[g][Len(log) + 1].attempts = 0
         /\ HubOK'
<1>1. LogFor(m, Readers(m.type))
  BY DEF LogMessage
<1> QED BY <1>1, InvOfHub, LogForEffect

(* The log only grows, and every group has a well-formed row of each of its messages. *)
LEMMA HubStep ==
  ASSUME HealthInv, [Next]_vars
  PROVE  /\ HubOK' /\ log' \in Seq(LogEntry')
         /\ \A i \in DOMAIN log : i \in DOMAIN log' /\ log'[i] = log[i]
<1>1. HubOK /\ log \in Seq(LogEntry) /\ Len(log) \in Nat
  BY InvOfHub, Numbers
<1>2. ASSUME UNCHANGED log
      PROVE  log' \in Seq(LogEntry') /\ \A i \in DOMAIN log : i \in DOMAIN log' /\ log'[i] = log[i]
  <2>1. LogEntry' = LogEntry
    BY <1>2 DEF LogEntry, Reported, Shows
  <2> QED BY <1>1, <1>2, <2>1
<1>3. CASE Aside
  <2>1. HubOK'
    BY <1>1, <1>3 DEF Aside, hub, HubOK, BoxOK, BatchOK
  <2> QED BY <1>2, <1>3, <2>1 DEF Aside, hub
<1>4. CASE Logs
  <2>1. PICK m \in LogEntry : LogMessage(m) /\ UNCHANGED batch
    BY <1>4 DEF Logs
  <2>2. /\ HubOK' /\ log' \in Seq(LogEntry) /\ Len(log') = Len(log) + 1
        /\ DOMAIN log' = DOMAIN log \cup {Len(log) + 1}
        /\ \A i \in DOMAIN log : log'[i] = log[i]
    BY <2>1, LogsEffect
  <2>3. LogEntry \subseteq LogEntry'
    <3>1. 0..Len(log) \subseteq 0..Len(log')
      BY <1>1, <2>2
    <3> QED BY <3>1 DEF LogEntry, Reported, Shows
  <2> QED BY <2>2, <2>3, WiderSequence
<1>5. CASE Claims
  BY <1>1, <1>2, <1>5, ClaimEffect DEF Claims
<1>6. CASE ComesBack
  BY <1>1, <1>2, <1>6, DelayEndsEffect, LeaseEndsEffect DEF ComesBack
<1>7. CASE Settles
  <2>1. {"acked", "dead_letter", "cooling"} \subseteq RowState
    BY DEF RowState
  <2> QED BY <1>1, <1>2, <1>7, <2>1, SettleEffect DEF Settles
<1>8. CASE Dies
  BY <1>1, <1>2, <1>8, OrphanEffect DEF Dies
<1> QED BY <1>3, <1>4, <1>5, <1>6, <1>7, <1>8, StepsAre

LEMMA AttemptsStep ==
  ASSUME HealthInv, [Next]_vars
  PROVE  AttemptsOK'
<1>1. /\ Len(log) \in Nat /\ DOMAIN log = 1..Len(log) /\ crashes \in Nat
      /\ MaxAttempts \in Nat \ {0}
      /\ \A g \in Group : \A i \in DOMAIN log :
           box[g][i] \in Row /\ box[g][i].attempts \in Nat /\ box[g][i].at \in Nat
  BY Numbers, Constants
<1>2. /\ HubOK /\ log \in Seq(LogEntry)
      /\ \A g \in Group : \A i \in DOMAIN log :
           /\ box[g][i].at \in 1..Len(log) + 1
           /\ box[g][i].attempts <= MaxAttempts + crashes
           /\ box[g][i].state \in {"none", "due", "cooling", "orphaned"} =>
                box[g][i].attempts < MaxAttempts + crashes
  BY DEF HealthInv, AttemptsOK
<1>3. ASSUME NEW g \in Group, NEW i \in DOMAIN log, box'[g][i] = box[g][i], crashes' \in {crashes, crashes + 1},
             Len(log') \in {Len(log), Len(log) + 1}
      PROVE  /\ box'[g][i].at \in 1..Len(log') + 1
             /\ box'[g][i].attempts <= MaxAttempts + crashes'
             /\ box'[g][i].state \in {"none", "due", "cooling", "orphaned"} =>
                  box'[g][i].attempts < MaxAttempts + crashes'
  BY SMTT(30), <1>1, <1>2, <1>3
<1>4. CASE Aside
  BY <1>3, <1>4 DEF Aside, hub, AttemptsOK
<1>5. CASE Logs
  <2>1. PICK m \in LogEntry : LogMessage(m) /\ UNCHANGED <<batch, crashes>>
    BY <1>5 DEF Logs
  <2>2. /\ Len(log') = Len(log) + 1 /\ DOMAIN log' = DOMAIN log \cup {Len(log) + 1}
        /\ \A g \in Group : /\ \A i \in DOMAIN log : box'[g][i] = box[g][i]
                            /\ box'[g][Len(log) + 1].at = Len(log) + 1
                            /\ box'[g][Len(log) + 1].attempts = 0
    BY <2>1, LogsEffect
  <2>3. Len(log) + 1 \in 1..Len(log') + 1 /\ 0 < MaxAttempts + crashes
    BY <1>1, <2>2
  <2> QED BY <1>1, <1>3, <2>1, <2>2, <2>3 DEF AttemptsOK
<1>6. CASE Claims
  <2>1. PICK g \in Group : ClaimBatch(g) /\ UNCHANGED crashes
    BY <1>6 DEF Claims
  <2>2. /\ UNCHANGED log
        /\ \A h \in Group \ {g} : box'[h] = box[h]
        /\ \A i \in DOMAIN log :
             \/ box'[g][i] = box[g][i]
             \/ /\ box[g][i].state = "due" /\ box'[g][i].state = "running"
                /\ box'[g][i].at = box[g][i].at
                /\ box'[g][i].attempts = box[g][i].attempts + 1
    BY <1>2, <2>1, ClaimEffect
  <2>3. ASSUME NEW i \in DOMAIN log, box[g][i].state = "due", box'[g][i].state = "running",
               box'[g][i].at = box[g][i].at, box'[g][i].attempts = box[g][i].attempts + 1
        PROVE  /\ box'[g][i].at \in 1..Len(log') + 1
               /\ box'[g][i].attempts <= MaxAttempts + crashes'
               /\ box'[g][i].state \notin {"none", "due", "cooling", "orphaned"}
    BY <1>1, <1>2, <2>1, <2>2, <2>3
  <2>4. ASSUME NEW h \in Group, NEW i \in DOMAIN log
        PROVE  /\ box'[h][i].at \in 1..Len(log') + 1
               /\ box'[h][i].attempts <= MaxAttempts + crashes'
               /\ box'[h][i].state \in {"none", "due", "cooling", "orphaned"} =>
                    box'[h][i].attempts < MaxAttempts + crashes'
    BY <1>3, <2>1, <2>2, <2>3
  <2> QED BY <2>2, <2>4 DEF AttemptsOK
<1>7. CASE ComesBack
  <2>1. PICK g \in Group, k \in DOMAIN log :
          (DelayEnds(g, k) \/ LeaseEnds(g, k)) /\ UNCHANGED crashes
    BY <1>7 DEF ComesBack
  <2>2. /\ UNCHANGED log
        /\ \A h \in Group \ {g} : box'[h] = box[h]
        /\ box[g][k].state \in {"cooling", "orphaned"}
        /\ box'[g][k].at \in {box[g][k].at, Len(log) + 1} /\ box'[g][k].attempts = box[g][k].attempts
        /\ \A i \in DOMAIN log : i # k => box'[g][i] = box[g][i]
    BY <1>2, <2>1, DelayEndsEffect, LeaseEndsEffect
  <2>3. /\ box'[g][k].at \in 1..Len(log') + 1
        /\ box'[g][k].attempts < MaxAttempts + crashes'
        /\ box'[g][k].attempts <= MaxAttempts + crashes'
    BY <1>1, <1>2, <2>1, <2>2
  <2>4. ASSUME NEW h \in Group, NEW i \in DOMAIN log
        PROVE  /\ box'[h][i].at \in 1..Len(log') + 1
               /\ box'[h][i].attempts <= MaxAttempts + crashes'
               /\ box'[h][i].state \in {"none", "due", "cooling", "orphaned"} =>
                    box'[h][i].attempts < MaxAttempts + crashes'
    BY <1>3, <2>1, <2>2, <2>3
  <2> QED BY <2>2, <2>4 DEF AttemptsOK
<1>8. CASE Settles
  <2>1. PICK g \in Group, s \in {"acked", "dead_letter", "cooling"} :
          /\ batch[g] # <<>> /\ Settle(g, s) /\ UNCHANGED crashes
          /\ s = "cooling" => box[g][Head(batch[g])].attempts < MaxAttempts
    BY <1>8 DEF Settles
  <2>2. s \in RowState
    BY DEF RowState
  <2>3. PICK k : k = Head(batch[g])
    OBVIOUS
  <2>4. /\ UNCHANGED log /\ k \in DOMAIN log
        /\ \A h \in Group \ {g} : box'[h] = box[h]
        /\ box'[g][k].state = s
        /\ box'[g][k].at = box[g][k].at /\ box'[g][k].attempts = box[g][k].attempts
        /\ \A i \in DOMAIN log : i # k => box'[g][i] = box[g][i]
    BY <1>2, <2>1, <2>2, <2>3, SettleEffect
  <2>5. /\ box'[g][k].at \in 1..Len(log') + 1
        /\ box'[g][k].attempts <= MaxAttempts + crashes'
        /\ box'[g][k].state \in {"none", "due", "cooling", "orphaned"} =>
             box'[g][k].attempts < MaxAttempts + crashes'
    BY <1>1, <1>2, <2>1, <2>3, <2>4
  <2>6. ASSUME NEW h \in Group, NEW i \in DOMAIN log
        PROVE  /\ box'[h][i].at \in 1..Len(log') + 1
               /\ box'[h][i].attempts <= MaxAttempts + crashes'
               /\ box'[h][i].state \in {"none", "due", "cooling", "orphaned"} =>
                    box'[h][i].attempts < MaxAttempts + crashes'
    BY <1>3, <2>1, <2>4, <2>5
  <2> QED BY <2>4, <2>6 DEF AttemptsOK
<1>9. CASE Dies
  <2>1. Orphan /\ crashes' = crashes + 1
    BY <1>9 DEF Dies
  <2>2. /\ UNCHANGED log
        /\ \A g \in Group : \A i \in DOMAIN log :
             IF box[g][i].state = "running"
               THEN /\ box'[g][i].state = "orphaned" /\ box'[g][i].at = box[g][i].at
                    /\ box'[g][i].attempts = box[g][i].attempts
               ELSE box'[g][i] = box[g][i]
    BY <1>2, <2>1, OrphanEffect
  <2>3. ASSUME NEW g \in Group, NEW i \in DOMAIN log
        PROVE  /\ box'[g][i].at \in 1..Len(log') + 1
               /\ box'[g][i].attempts <= MaxAttempts + crashes'
               /\ box'[g][i].state \in {"none", "due", "cooling", "orphaned"} =>
                    box'[g][i].attempts < MaxAttempts + crashes'
    <3>1. CASE box[g][i].state = "running"
      BY <1>1, <1>2, <2>1, <2>2, <3>1
    <3>2. CASE box[g][i].state # "running"
      BY <1>3, <2>1, <2>2, <3>2
    <3> QED BY <3>1, <3>2
  <2> QED BY <2>2, <2>3 DEF AttemptsOK
<1> QED BY <1>4, <1>5, <1>6, <1>7, <1>8, <1>9, StepsAre

LEMMA MessagesStep ==
  ASSUME HealthInv, [Next]_vars
  PROVE  MessagesOK'
<1>1. ASSUME NEW m, Fits(m)
      PROVE  Fits(m)'
  <2>1. \A i \in DOMAIN log : i \in DOMAIN log' /\ log'[i] = log[i]
    BY HubStep
  <2> QED BY <1>1, <2>1 DEF Fits
<1>2. \A k \in DOMAIN log : Fits(log[k])
  BY DEF HealthInv, MessagesOK
<1>3. CASE UNCHANGED log
  BY <1>1, <1>2, <1>3 DEF MessagesOK, Fits
<1>4. CASE Logs
  <2>1. PICK m \in LogEntry : LogMessage(m) /\ Fits(m) /\ UNCHANGED batch
    BY <1>4 DEF Logs
  <2>2. /\ DOMAIN log' = DOMAIN log \cup {Len(log) + 1}
        /\ \A i \in DOMAIN log : log'[i] = log[i]
        /\ log'[Len(log) + 1] = m
    BY <2>1, LogsEffect
  <2> QED BY <1>2, <2>1, <2>2 DEF MessagesOK, Fits
<1>5. Aside \/ Claims \/ ComesBack \/ Settles \/ Dies => UNCHANGED log
  BY DEF Aside, hub, Claims, ClaimBatch, ComesBack, DelayEnds, LeaseEnds, Settles, Settle, Dies, Orphan
<1> QED BY <1>3, <1>4, <1>5, StepsAre

(* What the monitor has in hand stays until it is settled. *)
LEMMA InHand ==
  ASSUME HealthInv, [Next]_vars
  PROVE  \/ turn' = "idle"
         \/ /\ batch'["monitor_group"] = batch["monitor_group"]
            /\ batch["monitor_group"] # <<>>
<1>1. /\ turn \in {"idle", "reported", "handled"}
      /\ turn # "idle" => batch["monitor_group"] # <<>>
      /\ HubOK /\ log \in Seq(LogEntry) /\ "monitor_group" \in Group
  BY Constants DEF HealthInv, TurnOK
<1>2. CASE Aside \/ Logs
  BY <1>1, <1>2 DEF Aside, hub, Logs
<1>3. CASE Claims
  <2>1. PICK g \in Group : ClaimBatch(g) /\ UNCHANGED turn
    BY <1>3 DEF Claims
  <2>2. batch[g] = <<>> /\ \A h \in Group \ {g} : batch'[h] = batch[h]
    BY <1>1, <2>1, ClaimEffect
  <2> QED BY <1>1, <2>1, <2>2
<1>4. CASE ComesBack
  BY <1>1, <1>4 DEF ComesBack, DelayEnds, LeaseEnds
<1>5. CASE Settles
  <2>1. PICK g \in Group, s \in {"acked", "dead_letter", "cooling"} :
          /\ batch[g] # <<>> /\ Settle(g, s)
          /\ turn' = IF g = "monitor_group" THEN "idle" ELSE turn
    BY <1>5 DEF Settles
  <2>2. s \in RowState
    BY DEF RowState
  <2>3. \A h \in Group \ {g} : batch'[h] = batch[h]
    BY <1>1, <2>1, <2>2, SettleEffect
  <2> QED BY <1>1, <2>1, <2>3
<1>6. CASE Dies
  BY <1>6 DEF Dies
<1> QED BY <1>2, <1>3, <1>4, <1>5, <1>6, StepsAre

LEMMA TurnStep ==
  ASSUME HealthInv, [Next]_vars
  PROVE  TurnOK'
<1>1. /\ turn \in {"idle", "reported", "handled"}
      /\ turn = "reported" => log[Monitored].type = "event.monitor.tick"
  BY DEF HealthInv, TurnOK
<1>2. turn' \in {"idle", "reported", "handled"}
  BY <1>1, StepsAre DEF Aside, Logs, Claims, ComesBack, Settles, Dies
<1>3. turn' = "reported" => log[Monitored].type = "event.monitor.tick"
  <2>1. turn' = "reported" => turn = "reported" \/ log[Monitored].type = "event.monitor.tick"
    BY <1>1, StepsAre DEF Aside, Logs, Claims, ComesBack, Settles, Dies
  <2> QED BY <1>1, <2>1
<1>4. turn' # "idle" => /\ batch'["monitor_group"] # <<>>
                        /\ Monitored' = Monitored /\ Monitored \in DOMAIN log
  BY InHand, MonitoredFacts DEF Monitored, Current
<1> QED BY <1>2, <1>3, <1>4, HubStep DEF TurnOK

LEMMA AlertsAreFinite ==
  ASSUME HealthInv, NEW i
  PROVE  IsFiniteSet(AlertsOf(i)) /\ Cardinality(AlertsOf(i)) \in Nat
<1>1. IsFiniteSet(1..Len(log)) /\ AlertsOf(i) \subseteq 1..Len(log)
  BY Numbers, FS_Interval DEF AlertsOf
<1> QED BY <1>1, FS_Subset, FS_CardinalityType

(* No alert of the monitor is added for a message that it does not work on. *)
LEMMA AlertsChange ==
  ASSUME HealthInv, [Next]_vars, NEW i \in DOMAIN log
  PROVE  \/ AlertsOf(i)' = AlertsOf(i)
         \/ /\ turn = "reported" /\ turn' = "handled" /\ i = Monitored
            /\ UNCHANGED batch
            /\ AlertsOf(i)' = AlertsOf(i) \cup {Len(log) + 1}
<1>1. i # 0
  BY Numbers
<1>2. CASE UNCHANGED log
  BY <1>2 DEF AlertsOf
<1>3. CASE Logs
  <2>1. PICK m \in LogEntry :
          /\ LogMessage(m)
          /\ UNCHANGED <<batch, crashes>>
          /\ \/ turn' = turn /\ m.cause = 0
             \/ m.type = "event.system.health"
             \/ turn = "reported" /\ turn' = "handled" /\ m.cause = Monitored
    BY <1>3 DEF Logs
  <2>2. /\ DOMAIN log' = DOMAIN log \cup {Len(log) + 1}
        /\ \A k \in DOMAIN log : k # Len(log) + 1 /\ log'[k] = log[k]
        /\ log'[Len(log) + 1] = m
    BY <2>1, LogsEffect
  <2>3. AlertsOf(i)' = IF m.type = "event.system.alert" /\ m.cause = i
                         THEN AlertsOf(i) \cup {Len(log) + 1}
                         ELSE AlertsOf(i)
    BY <2>2 DEF AlertsOf
  <2> QED BY <1>1, <2>1, <2>3
<1>4. Aside \/ Claims \/ ComesBack \/ Settles \/ Dies => UNCHANGED log
  BY DEF Aside, hub, Claims, ClaimBatch, ComesBack, DelayEnds, LeaseEnds, Settles, Settle, Dies, Orphan
<1> QED BY <1>2, <1>3, <1>4, StepsAre

(* A message becomes owed an alert only by an attempt of its own. *)
LEMMA OwedChange ==
  ASSUME HealthInv, [Next]_vars, NEW i \in DOMAIN log
  PROVE  /\ box'["monitor_group"][i].attempts \in Nat
         /\ box'["monitor_group"][i].attempts >= box["monitor_group"][i].attempts
         /\ Owed(i)' =>
              Owed(i) \/ box'["monitor_group"][i].attempts = box["monitor_group"][i].attempts + 1
<1> DEFINE b == box["monitor_group"][i].attempts
           new == box'["monitor_group"][i].attempts
<1> SUFFICES new \in Nat /\ new >= b /\ (Owed(i)' => Owed(i) \/ new = b + 1)
  OBVIOUS
<1>1. /\ HubOK /\ log \in Seq(LogEntry) /\ b \in Nat /\ "monitor_group" \in Group
      /\ turn \in {"idle", "reported", "handled"}
      /\ turn # "idle" => batch["monitor_group"] # <<>>
  BY Numbers, Constants DEF HealthInv, TurnOK
<1>2. \A m \in Nat : m >= m
  OBVIOUS
<1>3. CASE Aside
  <2>1. UNCHANGED <<log, box, batch>> /\ (turn' = turn \/ turn = "idle")
    BY <1>3 DEF Aside, hub
  <2> QED BY <1>1, <1>2, <2>1 DEF Owed, Monitored, Current
<1>4. CASE Logs
  <2>1. PICK m \in LogEntry : /\ LogMessage(m)
                              /\ UNCHANGED batch
                              /\ turn' = turn \/ turn' = "handled" \/ turn = "idle"
    BY <1>4 DEF Logs
  <2>2. new = b
    BY <1>1, <2>1, LogsEffect
  <2> QED BY <1>1, <1>2, <2>1, <2>2 DEF Owed, Monitored, Current
<1>5. CASE Claims
  <2>1. PICK g \in Group : ClaimBatch(g) /\ UNCHANGED turn
    BY <1>5 DEF Claims
  <2>2. /\ batch[g] = <<>>
        /\ \A h \in Group \ {g} : batch'[h] = batch[h] /\ box'[h] = box[h]
        /\ \/ box'[g][i] = box[g][i] /\ \A n \in DOMAIN batch'[g] : batch'[g][n] # i
           \/ box'[g][i].attempts = box[g][i].attempts + 1
    BY <1>1, <2>1, ClaimEffect
  <2>3. CASE g = "monitor_group"
    <3>1. \/ new = b /\ \A n \in DOMAIN batch'["monitor_group"] : batch'["monitor_group"][n] # i
          \/ new = b + 1
      BY <2>2, <2>3
    <3>2. new \in Nat /\ new >= b
      BY SMTT(30), <1>1, <3>1
    <3> QED BY <3>1, <3>2 DEF Owed
  <2>4. CASE g # "monitor_group"
    <3>1. new = b /\ batch'["monitor_group"] = batch["monitor_group"]
      BY <1>1, <2>2, <2>4
    <3> QED BY <1>1, <1>2, <2>1, <3>1 DEF Owed, Monitored, Current
  <2> QED BY <2>3, <2>4
<1>6. CASE ComesBack
  <2>1. PICK g \in Group, k \in DOMAIN log :
          (DelayEnds(g, k) \/ LeaseEnds(g, k)) /\ UNCHANGED turn
    BY <1>6 DEF ComesBack
  <2>2. /\ UNCHANGED batch
        /\ \A h \in Group \ {g} : box'[h] = box[h]
        /\ box'[g][k].attempts = box[g][k].attempts
        /\ \A j \in DOMAIN log : j # k => box'[g][j] = box[g][j]
    BY <1>1, <2>1, DelayEndsEffect, LeaseEndsEffect
  <2>3. new = b
    BY <1>1, <2>2
  <2> QED BY <1>1, <1>2, <2>1, <2>2, <2>3 DEF Owed, Monitored, Current
<1>7. CASE Settles
  <2>1. PICK g \in Group, s \in {"acked", "dead_letter", "cooling"} :
          /\ batch[g] # <<>> /\ Settle(g, s)
          /\ turn' = IF g = "monitor_group" THEN "idle" ELSE turn
    BY <1>7 DEF Settles
  <2>2. s \in RowState
    BY DEF RowState
  <2>3. /\ batch'[g] = Tail(batch[g])
        /\ \A h \in Group \ {g} : batch'[h] = batch[h] /\ box'[h] = box[h]
        /\ box'[g][Head(batch[g])].attempts = box[g][Head(batch[g])].attempts
        /\ \A j \in DOMAIN log : j # Head(batch[g]) => box'[g][j] = box[g][j]
    BY <1>1, <2>1, <2>2, SettleEffect
  <2>4. new = b
    BY <1>1, <2>3
  <2>5. Owed(i)' => Owed(i)
    <3>1. CASE g = "monitor_group"
      <4>1. batch["monitor_group"] \in Seq(DOMAIN log)
        BY <1>1 DEF HubOK, BatchOK
      <4>2. PICK q \in Seq(DOMAIN log) : q = batch["monitor_group"]
        BY <4>1
      <4>3. /\ Head(q) = q[1] /\ 1 \in DOMAIN q
            /\ \A n \in DOMAIN Tail(q) : n + 1 \in DOMAIN q /\ n + 1 # 1 /\ Tail(q)[n] = q[n + 1]
        BY <2>1, <3>1, <4>2, TailFacts
      <4>4. \A n \in DOMAIN q : n # 1 => q[n] # q[1]
        BY <1>1, <4>2, <4>3 DEF HubOK, BatchOK
      <4>5. Monitored = q[1] /\ batch'["monitor_group"] = Tail(q)
        BY <2>3, <3>1, <4>2, <4>3 DEF Monitored, Current
      <4> QED BY <4>2, <4>3, <4>4, <4>5 DEF Owed
    <3>2. CASE g # "monitor_group"
      BY <1>1, <2>1, <2>3, <3>2 DEF Owed, Monitored, Current
    <3> QED BY <3>1, <3>2
  <2> QED BY <1>1, <1>2, <2>4, <2>5
<1>8. CASE Dies
  <2>1. Orphan
    BY <1>8 DEF Dies
  <2>2. new = b /\ batch'["monitor_group"] = <<>>
    BY <1>1, <2>1, OrphanEffect
  <2>3. DOMAIN batch'["monitor_group"] = {}
    BY <2>2
  <2> QED BY <1>1, <1>2, <2>2, <2>3 DEF Owed
<1> HIDE DEF b, new
<1> QED BY <1>3, <1>4, <1>5, <1>6, <1>7, <1>8, StepsAre

LEMMA AlertsStep ==
  ASSUME HealthInv, [Next]_vars
  PROVE  AlertsOK'
<1> DEFINE Load(i) == Cardinality(AlertsOf(i)) + (IF Owed(i) THEN 1 ELSE 0)
<1>1. ASSUME NEW i \in DOMAIN log
      PROVE  Load(i)' <= box'["monitor_group"][i].attempts
  <2>1. /\ Cardinality(AlertsOf(i)) + (IF Owed(i) THEN 1 ELSE 0) <= box["monitor_group"][i].attempts
        /\ IsFiniteSet(AlertsOf(i)) /\ Cardinality(AlertsOf(i)) \in Nat
        /\ box["monitor_group"][i].attempts \in Nat
    BY AlertsAreFinite, Numbers, Constants DEF HealthInv, AlertsOK
  <2>2. /\ box'["monitor_group"][i].attempts \in Nat
        /\ box'["monitor_group"][i].attempts >= box["monitor_group"][i].attempts
        /\ Owed(i)' =>
             Owed(i) \/ box'["monitor_group"][i].attempts = box["monitor_group"][i].attempts + 1
    BY OwedChange
  <2>3. CASE AlertsOf(i)' = AlertsOf(i)
    <3>1. Cardinality(AlertsOf(i))' = Cardinality(AlertsOf(i))
      BY <2>3
    <3> HIDE DEF Load
    <3>2. CASE Owed(i)'
      <4>1. Load(i)' = Cardinality(AlertsOf(i)) + 1
        BY <3>1, <3>2 DEF Load
      <4>2. CASE Owed(i)
        BY <2>1, <2>2, <4>1, <4>2
      <4>3. CASE ~Owed(i)
        BY <2>1, <2>2, <3>2, <4>1, <4>3
      <4> QED BY <4>2, <4>3
    <3>3. CASE ~Owed(i)'
      <4>1. Load(i)' = Cardinality(AlertsOf(i))
        BY <2>1, <3>1, <3>3 DEF Load
      <4> QED BY <2>1, <2>2, <4>1
    <3> QED BY <3>2, <3>3
  <2>4. CASE /\ turn = "reported" /\ turn' = "handled" /\ i = Monitored
             /\ UNCHANGED batch
             /\ AlertsOf(i)' = AlertsOf(i) \cup {Len(log) + 1}
    <3>1. Owed(i)
      BY <2>4, MonitoredFacts DEF Owed, HealthInv, TurnOK
    <3>2. ~Owed(i)'
      BY <2>4 DEF Owed, Monitored, Current
    <3>3. Cardinality(AlertsOf(i))' = Cardinality(AlertsOf(i)) + 1
      <4>1. PICK k : k = Len(log) + 1
        OBVIOUS
      <4>2. k \notin AlertsOf(i)
        BY Numbers, <4>1 DEF AlertsOf
      <4>3. AlertsOf(i)' = AlertsOf(i) \cup {k}
        BY <2>4, <4>1
      <4> QED BY <2>1, <4>2, <4>3, FS_AddElement
    <3>4. Load(i)' = Cardinality(AlertsOf(i)) + 1
      BY <2>1, <3>2, <3>3
    <3> QED BY <2>1, <2>2, <3>1, <3>4
  <2> QED BY <2>3, <2>4, AlertsChange
<1>2. ASSUME NEW i \in DOMAIN log', i \notin DOMAIN log
      PROVE  Load(i)' <= box'["monitor_group"][i].attempts
  <2>1. PICK m \in LogEntry : LogMessage(m) /\ UNCHANGED batch
    <3>1. Aside \/ Claims \/ ComesBack \/ Settles \/ Dies => UNCHANGED log
      BY DEF Aside, hub, Claims, ClaimBatch, ComesBack, DelayEnds, LeaseEnds, Settles, Settle, Dies, Orphan
    <3> QED BY <1>2, <3>1, StepsAre DEF Logs
  <2>2. PICK k : k = Len(log) + 1
    OBVIOUS
  <2>3. /\ DOMAIN log' = DOMAIN log \cup {k}
        /\ \A j \in DOMAIN log : log'[j] = log[j]
        /\ log'[k] = m
        /\ box'["monitor_group"][k].attempts = 0
    BY <2>1, <2>2, LogsEffect, Constants
  <2>4. i = k /\ \A j \in DOMAIN log' : log'[j].cause \in 0..Len(log)
    BY <1>2, <2>1, <2>3, Numbers DEF LogEntry
  <2>5. k \notin 0..Len(log)
    BY <2>2, Numbers
  <2>6. AlertsOf(i)' = {}
    BY <2>4, <2>5 DEF AlertsOf
  <2>7. ~Owed(i)'
    <3>1. batch["monitor_group"] \in Seq(DOMAIN log)
      BY Constants DEF HealthInv, HubOK, BatchOK
    <3>2. \A n \in DOMAIN batch["monitor_group"] : batch["monitor_group"][n] \in DOMAIN log
      BY <3>1, IsIndexed
    <3> QED BY <1>2, <2>1, <3>2 DEF Owed
  <2>8. Load(i)' = 0
    BY <2>6, <2>7, FS_EmptySet
  <2> HIDE DEF Load
  <2> QED BY <2>3, <2>4, <2>8
<1> QED BY <1>1, <1>2 DEF AlertsOK

(* The account, the receiver, the view and the counters. *)
LEMMA AccountTypesStep ==
  ASSUME HealthInv, [Next]_vars
  PROVE  AccountTypes'
<1>1. {changes, throws, crashes, budget.changes, budget.throws, budget.crashes} \subseteq Nat
  BY Numbers
<1>2. /\ view \in [Reported -> Shows]
      /\ {saved, valid} \subseteq 0..changes + 1
      /\ receiver \in [pc : {"off", "polling", "sleeping"}, token : 0..changes + 1]
      /\ budget \in Budgets
      /\ changes \in 0..budget.changes
      /\ throws \in 0..budget.throws
      /\ crashes \in 0..budget.crashes
  BY DEF HealthInv, AccountTypes
<1>3. CASE Expire \/ Login \/ Logout
  <2>1. changes' = changes + 1 /\ changes < budget.changes
        /\ UNCHANGED <<view, receiver, budget, throws, crashes>>
    BY <1>3 DEF Expire, Login, Logout, Change, faults
  <2>2. {saved', valid'} \subseteq {saved, valid, 0, changes' + 1}
    BY <1>3 DEF Expire, Login, Logout
  <2>3. PICK c : c = changes + 1
    OBVIOUS
  <2>4. /\ c \in 0..budget.changes /\ 0..changes + 1 \subseteq 0..c + 1
        /\ c + 1 \in 0..c + 1 /\ 0 \in 0..c + 1
    BY <1>1, <2>1, <2>3
  <2>5. {saved', valid'} \subseteq 0..changes' + 1
    BY <1>2, <2>1, <2>2, <2>3, <2>4
  <2>6. receiver \in [pc : {"off", "polling", "sleeping"}, token : 0..changes' + 1]
    BY <1>2, <2>1, <2>3, <2>4
  <2> QED BY <1>2, <2>1, <2>3, <2>4, <2>5, <2>6 DEF AccountTypes, Reported, Shows
<1>4. CASE /\ UNCHANGED <<view, account, budget, throws, crashes>>
           /\ receiver' \in [pc : {"off", "polling", "sleeping"}, token : 0..changes + 1]
  BY <1>2, <1>4 DEF AccountTypes, account, Reported, Shows
<1>5. CASE PollExpired \/ Wake \/ Start
  <2>1. receiver' \in [pc : {"off", "polling", "sleeping"}, token : 0..changes + 1]
    BY <1>2, <1>5 DEF PollExpired, Wake, Start
  <2> QED BY <1>4, <1>5, <2>1 DEF PollExpired, Wake, Start, faults
<1>6. CASE Crash
  <2>1. /\ crashes' = crashes + 1 /\ crashes < budget.crashes
        /\ receiver' = [pc |-> "off", token |-> 0]
        /\ UNCHANGED <<view, account, budget, throws>>
    BY <1>6 DEF Crash
  <2>2. crashes' \in 0..budget.crashes /\ 0 \in 0..changes + 1
    BY <1>1, <2>1
  <2> QED BY <1>2, <2>1, <2>2 DEF AccountTypes, account, Reported, Shows
<1>7. ASSUME UNCHANGED <<account, receiver, budget, crashes>>,
             throws' = throws \/ (throws' = throws + 1 /\ throws < budget.throws),
             view' \in [Reported -> Shows]
      PROVE  AccountTypes'
  <2>1. throws' \in 0..budget.throws
    BY <1>1, <1>2, <1>7
  <2> QED BY <1>2, <1>7, <2>1 DEF AccountTypes, account, Reported, Shows
<1>8. CASE Project
  <2>1. PICK m \in LogEntry : m = log[Current("projection_group")]
    <3>1. batch["projection_group"] \in Seq(DOMAIN log) /\ batch["projection_group"] # <<>>
      BY <1>8, Constants DEF HealthInv, HubOK, BatchOK, Project, Handling
    <3> QED BY <3>1, TailFacts, Numbers DEF Current
  <2>2. view' = [view EXCEPT ![m.component] = m.status] /\ m.status \in Shows
    BY <1>8, <2>1 DEF Project, Shown, LogEntry
  <2>3. view' \in [Reported -> Shows]
    BY <1>2, <2>2
  <2> QED BY <1>7, <1>8, <2>3 DEF Project
<1>9. CASE MonitorThrows \/ SuperviseMessage
  BY <1>2, <1>7, <1>9 DEF MonitorThrows, SuperviseMessage
<1>10. CASE UNCHANGED <<view, account, receiver, faults>>
  BY <1>2, <1>4, <1>10 DEF faults
<1> QED BY <1>3, <1>5, <1>6, <1>8, <1>9, <1>10
        DEF Next, vars, account, faults, Tick, UserMessage, LoopStep, Claim, Comeback, MonitorStep,
            ReportHealth, AppendAlert, LeaveAlone, Ack, ReceiverStep

LEMMA HealthInvInit == Init => HealthInv
<1> SUFFICES ASSUME Init PROVE HealthInv
  OBVIOUS
<1> USE DEF Init
<1>1. HubOK
  BY HubOKInit
<1>2. log = <<>> /\ batch["monitor_group"] = <<>>
  BY Constants DEF HubInit
<1>3. log \in Seq(LogEntry) /\ DOMAIN log = {}
  BY <1>2
<1>4. AttemptsOK /\ MessagesOK /\ AlertsOK
  BY <1>3 DEF AttemptsOK, MessagesOK, AlertsOK
<1>5. AccountTypes
  BY Constants DEF AccountTypes, Shows
<1>6. TurnOK
  BY DEF TurnOK
<1> QED BY <1>1, <1>3, <1>4, <1>5, <1>6 DEF HealthInv

LEMMA HealthInvStep == HealthInv /\ [Next]_vars => HealthInv'
<1> SUFFICES ASSUME HealthInv, [Next]_vars PROVE HealthInv'
  OBVIOUS
<1>1. HubOK' /\ log' \in Seq(LogEntry')
  BY HubStep
<1>2. AttemptsOK' /\ MessagesOK' /\ TurnOK'
  BY AttemptsStep, MessagesStep, TurnStep
<1>3. AlertsOK' /\ AccountTypes'
  BY AlertsStep, AccountTypesStep
<1> QED BY <1>1, <1>2, <1>3 DEF HealthInv

LEMMA HealthInvAlways == Spec => []HealthInv
BY HealthInvInit, HealthInvStep, PTL DEF Spec

-----------------------------------------------------------------------------
(* What is proved *)

(* The variables of the monitor, the receiver and the hub keep their types: no delivery   *)
(* is claimed more than MaxAttempts times and once more for each crash, and the monitor   *)
(* is never in the middle of a turn without the message that it answers                   *)
(* (health-monitor.ts, repository.ts).                                                    *)
THEOREM HealthKeepsTypes == Spec => []TypeOK
BY HealthInvAlways, TypesInParts, PTL

(* Alerts do not breed alerts: every alert of the monitor on the hub is caused by a tick, *)
(* and no tick has more alerts than it has had attempts, however often handlers throw and *)
(* the daemon dies and although the router sends the monitor its own alerts               *)
(* (health-monitor.ts, router.ts).                                                        *)
THEOREM AlertsAreOwedToTicks == Spec => []AlertsNeedTicks
<1>1. HealthInv => AlertsNeedTicks
  <2> SUFFICES ASSUME HealthInv, NEW k \in DOMAIN log, log[k].component = "event_hub"
               PROVE  /\ log[log[k].cause].type = "event.monitor.tick"
                      /\ Cardinality(AlertsOf(log[k].cause)) <= box["monitor_group"][log[k].cause].attempts
    BY DEF AlertsNeedTicks
  <2>1. PICK i \in DOMAIN log : i = log[k].cause /\ log[i].type = "event.monitor.tick"
    BY DEF HealthInv, MessagesOK, Fits
  <2>2. Cardinality(AlertsOf(i)) + (IF Owed(i) THEN 1 ELSE 0) <= box["monitor_group"][i].attempts
    BY DEF HealthInv, AlertsOK
  <2>3. Cardinality(AlertsOf(i)) \in Nat /\ box["monitor_group"][i].attempts \in Nat
    BY AlertsAreFinite, Numbers, Constants
  <2>4. Cardinality(AlertsOf(i)) <= box["monitor_group"][i].attempts
    BY <2>2, <2>3
  <2> QED BY <2>1, <2>4
<1> QED BY <1>1, HealthInvAlways, PTL

=============================================================================
