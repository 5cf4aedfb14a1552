----------------------- MODULE SupervisorSessionProofs -----------------------
(***************************************************************************)
(* Proofs about SupervisorSession for any limits: the sessions of the      *)
(* supervisor follow one another, whatever throws and whenever the daemon  *)
(* dies.                                                                   *)
(***************************************************************************)
EXTENDS SupervisorSession, TLAPS

Session == [status : {"active", "archived"}, handoff : Nat]

Handoff == [status : {"requested", "summarized", "archived", "activated", "skipped"},
            old : Nat, new : Nat]

(* What the chain needs to know of the tables: a handoff names a session that exists, and *)
(* a session a handoff that exists.                                                       *)
TablesOK ==
  /\ sessions \in Seq(Session)
  /\ handoffs \in Seq(Handoff)
  /\ \A s \in DOMAIN sessions : sessions[s].handoff \in 0..Len(handoffs)
  /\ \A h \in DOMAIN handoffs : handoffs[h].old \in 0..Len(sessions)
  /\ turn.handoff \in 0..Len(handoffs)

LoopsOK ==
  /\ turn \in [pc : {"idle", "thinking", "answered", "created", "recorded", "handled"},
               message : Nat, session : Nat, handoff : Nat, round : Nat]
  /\ upkeep \in [pc : {"idle", "claimed", "requested", "skipped", "summarized",
                       "sessionArchived", "archived", "announced", "handled"},
                 message : Nat, session : Nat]
  /\ log \in Seq({Trigger, Request})

(* The heart: a turn that found no active session may rely on it until it creates one. *)
NobodyElseCreates ==
  turn.pc \in {"thinking", "answered"} /\ turn.session = 0 => Active = {}

SessionInv == LoopsOK /\ TablesOK /\ NobodyElseCreates

SessionTables == <<sessions, handoffs, turn>>

LEMMA FunctionIsSequence ==
  ASSUME NEW S, NEW n \in Nat, NEW f \in [1..n -> S]
  PROVE  f \in Seq(S) /\ Len(f) = n /\ DOMAIN f = 1..n
OBVIOUS

LEMMA EntryChanges ==
  ASSUME NEW S, NEW q \in Seq(S), NEW i, NEW e, i \in DOMAIN q => e \in S
  PROVE  /\ [q EXCEPT ![i] = e] \in Seq(S)
         /\ Len([q EXCEPT ![i] = e]) = Len(q)
         /\ DOMAIN [q EXCEPT ![i] = e] = DOMAIN q
         /\ \A k \in DOMAIN q : [q EXCEPT ![i] = e][k] = IF k = i THEN e ELSE q[k]
<1> DEFINE p == [q EXCEPT ![i] = e]
<1>1. Len(q) \in Nat /\ DOMAIN q = 1..Len(q)
  OBVIOUS
<1>2. DOMAIN p = 1..Len(q) /\ \A k \in DOMAIN q : p[k] = IF k = i THEN e ELSE q[k]
  BY <1>1
<1>3. p = [k \in 1..Len(q) |-> p[k]]
  BY <1>1
<1> HIDE DEF p
<1>4. p \in Seq(S)
  <2>1. \A k \in 1..Len(q) : q[k] \in S
    BY <1>1
  <2>2. \A k \in 1..Len(q) : p[k] \in S
    BY <1>1, <1>2, <2>1
  <2> QED
    BY <1>1, <1>3, <2>2
<1>5. Len(p) = Len(q)
  BY <1>1, <1>2, <1>4
<1> QED
  BY <1>1, <1>2, <1>4, <1>5 DEF p

LEMMA NewestIn ==
  ASSUME NEW S
  PROVE  \A s \in Newest(S) : s = 0 \/ s \in S
BY DEF Newest

LEMMA NoneIsNewest ==
  ASSUME SessionInv, 0 \in Newest(Active)
  PROVE  Active = {}
<1>1. 0 \notin Active
  BY DEF SessionInv, TablesOK, Active
<1> QED
  BY <1>1 DEF Newest

LEMMA SessionInvInit == Init => SessionInv
BY DEF Init, SessionInv, LoopsOK, TablesOK, NobodyElseCreates, NoTurn, NoUpkeep, Session, Handoff

(* Steps that leave the tables and the turn alone. *)
LEMMA TablesUnchanged ==
  ASSUME SessionInv, LoopsOK', UNCHANGED <<sessions, handoffs, turn>>
  PROVE  SessionInv'
BY DEF SessionInv, TablesOK, NobodyElseCreates, Active

(* Steps of a turn that read and write neither table. *)
LEMMA TurnGoesOn ==
  ASSUME SessionInv, LoopsOK', UNCHANGED <<sessions, handoffs>>,
         turn'.handoff \in {0, turn.handoff},
         turn'.session = turn.session,
         turn'.pc \in {"thinking", "answered"} => turn.pc \in {"thinking", "answered"}
  PROVE  SessionInv'
BY DEF SessionInv, TablesOK, NobodyElseCreates, Active

LEMMA TurnEnds ==
  ASSUME SessionInv, LoopsOK', UNCHANGED <<sessions, handoffs>>, turn' = NoTurn
  PROVE  SessionInv'
BY DEF SessionInv, TablesOK, NobodyElseCreates, Active, NoTurn

LEMMA BeginTurnInv ==
  ASSUME SessionInv, NEW i \in DOMAIN log, BeginTurn(i)
  PROVE  SessionInv'
<1>1. PICK s \in Newest(Active), h \in IF Active = {} THEN PendingHandoff ELSE {0} :
        turn' = [pc |-> "thinking", message |-> i, session |-> s, handoff |-> h, round |-> 0]
  BY DEF BeginTurn
<1>2. s \in Nat
  BY NewestIn DEF SessionInv, TablesOK, Active
<1>3. h \in 0..Len(handoffs)
  <2>1. h = 0 \/ h \in PendingHandoffs
    BY NewestIn DEF PendingHandoff
  <2>2. Len(handoffs) \in Nat /\ DOMAIN handoffs = 1..Len(handoffs)
    BY DEF SessionInv, TablesOK
  <2> QED
    BY <2>1, <2>2 DEF PendingHandoffs
<1>4. i \in Nat
  BY DEF SessionInv, LoopsOK
<1>5. /\ turn'.handoff = h /\ turn'.session = s
      /\ turn' \in [pc : {"idle", "thinking", "answered", "created", "recorded", "handled"},
                    message : Nat, session : Nat, handoff : Nat, round : Nat]
  BY <1>1, <1>2, <1>3, <1>4
<1>6. UNCHANGED <<sessions, handoffs, upkeep, log>>
  BY DEF BeginTurn, tables
<1>7. s = 0 => Active = {}
  BY NoneIsNewest, <1>1
<1> QED
  BY <1>3, <1>5, <1>6, <1>7 DEF SessionInv, LoopsOK, TablesOK, NobodyElseCreates, Active

LEMMA CreateSessionInv ==
  ASSUME SessionInv, CreateSession
  PROVE  SessionInv'
<1> DEFINE new == [status |-> "active", handoff |-> turn.handoff]
<1>1. sessions' = Append(sessions, new) /\ UNCHANGED <<handoffs, upkeep, log>>
  BY DEF CreateSession, hub
<1>2. new \in Session /\ new.handoff \in 0..Len(handoffs)
  BY DEF SessionInv, TablesOK, LoopsOK, Session
<1>3. turn'.pc \in {"created", "recorded"} /\ turn'.handoff = turn.handoff /\ LoopsOK'
  BY <1>1 DEF CreateSession, SessionInv, LoopsOK
<1>4. /\ sessions' \in Seq(Session)
      /\ Len(sessions') = Len(sessions) + 1
      /\ \A s \in DOMAIN sessions' :
           sessions'[s] = new \/ (s \in DOMAIN sessions /\ sessions'[s] = sessions[s])
  BY <1>1, <1>2 DEF SessionInv, TablesOK
<1>5. TablesOK'
  BY <1>1, <1>2, <1>3, <1>4 DEF SessionInv, TablesOK
<1> QED
  BY <1>3, <1>5 DEF SessionInv, NobodyElseCreates

(* An UPDATE of a handoff leaves old as it is. *)
LEMMA HandoffUpdated ==
  ASSUME SessionInv, LoopsOK', UNCHANGED sessions, NEW h \in Nat, NEW s, NEW n \in Nat,
         s \in {"requested", "summarized", "archived", "activated", "skipped"},
         handoffs' = [handoffs EXCEPT ![h] = [@ EXCEPT !.status = s, !.new = n]],
         turn'.handoff \in {0, turn.handoff},
         turn'.session = turn.session,
         turn'.pc \in {"thinking", "answered"} => turn.pc \in {"thinking", "answered"}
  PROVE  SessionInv'
<1> DEFINE new(r) == [r EXCEPT !.status = s, !.new = n]
<1>1. \A r \in Handoff : new(r) \in Handoff /\ new(r).old = r.old
  BY DEF Handoff
<1>2. handoffs \in Seq(Handoff)
  BY DEF SessionInv, TablesOK
<1>3. handoffs' = [handoffs EXCEPT ![h] = new(handoffs[h])]
  OBVIOUS
<1> HIDE DEF new
<1>4. /\ handoffs' \in Seq(Handoff)
      /\ Len(handoffs') = Len(handoffs)
      /\ DOMAIN handoffs' = DOMAIN handoffs
      /\ \A k \in DOMAIN handoffs :
           handoffs'[k] = IF k = h THEN new(handoffs[h]) ELSE handoffs[k]
  <2>1. h \in DOMAIN handoffs => new(handoffs[h]) \in Handoff
    BY <1>1, <1>2, <1>3
  <2> QED
    BY <2>1, <1>1, <1>2, <1>3, EntryChanges
<1>5. \A k \in DOMAIN handoffs : handoffs'[k].old = handoffs[k].old
  BY <1>1, <1>2, <1>4
<1>6. TablesOK'
  BY <1>4, <1>5 DEF SessionInv, TablesOK
<1>7. NobodyElseCreates'
  BY DEF SessionInv, NobodyElseCreates, Active
<1> QED
  BY <1>6, <1>7 DEF SessionInv

LEMMA ActivateHandoffInv ==
  ASSUME SessionInv, ActivateHandoff
  PROVE  SessionInv'
<1>1. Len(sessions) \in Nat /\ turn.handoff \in Nat
  BY DEF SessionInv, TablesOK, LoopsOK
<1>2. LoopsOK'
  BY DEF ActivateHandoff, SessionInv, LoopsOK, hub
<1>3. /\ turn'.handoff = turn.handoff
      /\ turn'.session = turn.session
      /\ turn'.pc = "recorded"
      /\ UNCHANGED sessions
  BY DEF ActivateHandoff, SessionInv, LoopsOK
<1>4. handoffs' = [handoffs EXCEPT ![turn.handoff] =
                    [@ EXCEPT !.status = "activated", !.new = Len(sessions)]]
  BY DEF ActivateHandoff
<1> QED
  BY <1>1, <1>2, <1>3, <1>4, HandoffUpdated

(* updateHandoffStatus of the handoff that maintenance has just created. *)
LEMMA SetHandoffInv ==
  ASSUME SessionInv, LoopsOK', UNCHANGED <<sessions, turn>>, NEW s, SetHandoff(s),
         s \in {"requested", "summarized", "archived", "activated", "skipped"}
  PROVE  SessionInv'
<1>1. /\ handoffs \in Seq(Handoff)
      /\ Len(handoffs) \in Nat
  BY DEF SessionInv, TablesOK
<1> DEFINE new(r) == [r EXCEPT !.status = s]
<1>2. \A r \in Handoff : new(r) \in Handoff /\ new(r).old = r.old
  BY DEF Handoff
<1>3. handoffs' = [handoffs EXCEPT ![Len(handoffs)] = new(handoffs[Len(handoffs)])]
  BY DEF SetHandoff
<1> HIDE DEF new
<1>4. /\ handoffs' \in Seq(Handoff)
      /\ Len(handoffs') = Len(handoffs)
      /\ DOMAIN handoffs' = DOMAIN handoffs
      /\ \A k \in DOMAIN handoffs :
           handoffs'[k] = IF k = Len(handoffs) THEN new(handoffs[Len(handoffs)]) ELSE handoffs[k]
  <2>1. Len(handoffs) \in DOMAIN handoffs => new(handoffs[Len(handoffs)]) \in Handoff
    BY <1>1, <1>2, <1>3
  <2> QED
    BY <2>1, <1>1, <1>2, <1>3, EntryChanges
<1>5. \A k \in DOMAIN handoffs : handoffs'[k].old = handoffs[k].old
  BY <1>1, <1>2, <1>4
<1>6. TablesOK'
  BY <1>4, <1>5 DEF SessionInv, TablesOK
<1>7. NobodyElseCreates'
  BY DEF SessionInv, NobodyElseCreates, Active
<1> QED
  BY <1>6, <1>7 DEF SessionInv

LEMMA RequestHandoffInv ==
  ASSUME SessionInv, RequestHandoff
  PROVE  SessionInv'
<1>1. PICK s \in Newest(Active) :
        /\ handoffs' = Append(handoffs, [status |-> "requested", old |-> s, new |-> 0])
        /\ upkeep' = [upkeep EXCEPT !.pc = "requested", !.session = s]
  BY DEF RequestHandoff
<1> DEFINE new == [status |-> "requested", old |-> s, new |-> 0]
<1>2. s \in 0..Len(sessions)
  <2>1. s = 0 \/ s \in DOMAIN sessions
    BY NewestIn DEF Active
  <2>2. Len(sessions) \in Nat /\ DOMAIN sessions = 1..Len(sessions)
    BY DEF SessionInv, TablesOK
  <2> QED
    BY <2>1, <2>2
<1>3. new \in Handoff /\ new.old \in 0..Len(sessions)
  BY <1>2 DEF Handoff, SessionInv, TablesOK
<1>4. UNCHANGED <<sessions, turn, log>>
  BY DEF RequestHandoff, hub
<1>5. LoopsOK'
  <2>1. s \in Nat
    BY <1>2 DEF SessionInv, TablesOK
  <2> QED
    BY <1>1, <1>4, <2>1 DEF SessionInv, LoopsOK
<1>6. /\ handoffs' \in Seq(Handoff)
      /\ Len(handoffs') = Len(handoffs) + 1
      /\ \A h \in DOMAIN handoffs' :
           handoffs'[h] = new \/ (h \in DOMAIN handoffs /\ handoffs'[h] = handoffs[h])
  BY <1>1, <1>3 DEF SessionInv, TablesOK
<1>7. TablesOK'
  BY <1>3, <1>4, <1>6 DEF SessionInv, TablesOK, LoopsOK
<1> QED
  BY <1>4, <1>5, <1>7 DEF SessionInv, NobodyElseCreates, Active

LEMMA ArchiveSessionInv ==
  ASSUME SessionInv, ArchiveSession
  PROVE  SessionInv'
<1> DEFINE new(r) == [r EXCEPT !.status = "archived"]
<1>1. \A r \in Session : new(r) \in Session /\ new(r).handoff = r.handoff
                        /\ new(r).status = "archived"
  BY DEF Session
<1>2. sessions' = [sessions EXCEPT ![upkeep.session] = new(sessions[upkeep.session])]
  BY DEF ArchiveSession
<1>3. sessions \in Seq(Session) /\ UNCHANGED <<handoffs, turn, log>>
  BY DEF SessionInv, TablesOK, ArchiveSession, hub
<1> HIDE DEF new
<1>4. /\ sessions' \in Seq(Session)
      /\ Len(sessions') = Len(sessions)
      /\ DOMAIN sessions' = DOMAIN sessions
      /\ \A k \in DOMAIN sessions :
           sessions'[k] = IF k = upkeep.session THEN new(sessions[upkeep.session]) ELSE sessions[k]
  <2>1. upkeep.session \in DOMAIN sessions => new(sessions[upkeep.session]) \in Session
    BY <1>1, <1>2, <1>3
  <2> QED
    BY <2>1, <1>1, <1>2, <1>3, EntryChanges
<1>5. \A s \in DOMAIN sessions :
           /\ sessions'[s].handoff = sessions[s].handoff
           /\ sessions'[s].status = "active" => sessions[s].status = "active"
  BY <1>1, <1>3, <1>4
<1>6. LoopsOK'
  <2>1. upkeep' = [upkeep EXCEPT !.pc = "sessionArchived"]
    BY DEF ArchiveSession
  <2> QED
    BY <1>3, <2>1 DEF SessionInv, LoopsOK
<1>7. Active' \subseteq Active
  BY <1>4, <1>5 DEF Active
<1> QED
  BY <1>3, <1>4, <1>5, <1>6, <1>7 DEF SessionInv, TablesOK, NobodyElseCreates

LEMMA SessionInvStep == SessionInv /\ [Next]_vars => SessionInv'
<1> SUFFICES ASSUME SessionInv, [Next]_vars PROVE SessionInv'
  OBVIOUS
<1> USE DEF tables, hub
<1>1. ASSUME NEW type \in {Trigger, Request}, NEW bound, Arrive(type, bound) PROVE SessionInv'
  <2>2. log' = Append(log, type) /\ UNCHANGED <<sessions, handoffs, turn, upkeep>>
    BY <1>1 DEF Arrive
  <2>3. LoopsOK'
    BY <2>2 DEF SessionInv, LoopsOK
  <2> QED
    BY <2>2, <2>3, TablesUnchanged
<1>2. ASSUME NEW i \in DOMAIN log, BeginTurn(i) PROVE SessionInv'
  BY <1>2, BeginTurnInv
<1>3. CASE AskForTools \/ Answer \/ CompleteTurn
  <2>1. LoopsOK'
    BY <1>3 DEF AskForTools, Answer, CompleteTurn, Tell, SessionInv, LoopsOK
  <2>2. /\ UNCHANGED <<sessions, handoffs>>
        /\ turn'.handoff = turn.handoff
        /\ turn'.session = turn.session
        /\ turn'.pc \in {"thinking", "answered"} => turn.pc \in {"thinking", "answered"}
    BY <1>3 DEF AskForTools, Answer, CompleteTurn, Tell, SessionInv, LoopsOK
  <2> QED
    BY <2>1, <2>2, TurnGoesOn
<1>4. CASE CreateSession
  BY <1>4, CreateSessionInv
<1>5. CASE ActivateHandoff
  BY <1>5, ActivateHandoffInv
<1>6. CASE AckTurn \/ TurnThrows \/ Crash
  <2>1. LoopsOK' /\ UNCHANGED <<sessions, handoffs>> /\ turn' = NoTurn
    BY <1>6 DEF AckTurn, TurnThrows, Crash, SessionInv, LoopsOK, NoTurn, NoUpkeep
  <2> QED
    BY <2>1, TurnEnds
<1>7. ASSUME NEW i \in DOMAIN log, BeginUpkeep(i) PROVE SessionInv'
  <2>1. i \in Nat
    BY DEF SessionInv, LoopsOK
  <2>2. /\ upkeep' = [upkeep EXCEPT !.pc = "claimed", !.message = i]
        /\ UNCHANGED <<sessions, handoffs, turn, log>>
    BY <1>7 DEF BeginUpkeep
  <2>3. LoopsOK'
    BY <2>1, <2>2 DEF SessionInv, LoopsOK
  <2> QED
    BY <2>2, <2>3, TablesUnchanged
<1>8. CASE RequestHandoff
  BY <1>8, RequestHandoffInv
<1>9. CASE Skip \/ Summarize \/ ArchiveHandoff
  <2>1. LoopsOK' /\ UNCHANGED <<sessions, turn>>
    BY <1>9 DEF Skip, Summarize, ArchiveHandoff, SessionInv, LoopsOK
  <2>2. SetHandoff("skipped") \/ SetHandoff("summarized") \/ SetHandoff("archived")
    BY <1>9 DEF Skip, Summarize, ArchiveHandoff
  <2> QED
    BY <2>1, <2>2, SetHandoffInv
<1>10. CASE ArchiveSession
  BY <1>10, ArchiveSessionInv
<1>11. CASE AppendSkipped \/ AppendArchived \/ AppendHandoffCompleted \/ AckUpkeep \/ UpkeepThrows
  <2>1. LoopsOK' /\ UNCHANGED <<sessions, handoffs, turn>>
    BY <1>11 DEF AppendSkipped, AppendArchived, AppendHandoffCompleted, AckUpkeep, UpkeepThrows,
                 Tell, SessionInv, LoopsOK, NoUpkeep
  <2> QED
    BY <2>1, TablesUnchanged
<1>12. CASE UNCHANGED vars
  <2>1. LoopsOK' /\ UNCHANGED <<sessions, handoffs, turn>>
    BY <1>12 DEF vars, SessionInv, LoopsOK
  <2> QED
    BY <2>1, TablesUnchanged
<1> QED
  BY <1>1, <1>2, <1>3, <1>4, <1>5, <1>6, <1>7, <1>8, <1>9, <1>10, <1>11, <1>12
  DEF Next, TurnStep, UpkeepStep

LEMMA SessionInvariant == Spec => []SessionInv
<1> QED
  BY SessionInvInit, SessionInvStep, PTL DEF Spec

-----------------------------------------------------------------------------
(* The sessions implement SessionChain *)

LEMMA TwoActionsWriteSessions ==
  ASSUME [Next]_vars
  PROVE  UNCHANGED sessions \/ CreateSession \/ ArchiveSession
BY DEF Next, TurnStep, UpkeepStep, vars, Arrive, BeginTurn, AskForTools, Answer, ActivateHandoff,
       CompleteTurn, AckTurn, BeginUpkeep, RequestHandoff, Skip, AppendSkipped, Summarize,
       ArchiveHandoff, AppendArchived, AppendHandoffCompleted, AckUpkeep, TurnThrows, UpkeepThrows,
       Crash, tables

LEMMA FourActionsWriteHandoffs ==
  ASSUME [Next]_vars
  PROVE  \/ UNCHANGED handoffs
         \/ RequestHandoff
         \/ ActivateHandoff
         \/ \E s \in {"skipped", "summarized", "archived"} : SetHandoff(s)
BY DEF Next, TurnStep, UpkeepStep, vars, Arrive, BeginTurn, AskForTools, Answer, CreateSession,
       CompleteTurn, AckTurn, BeginUpkeep, Skip, AppendSkipped, Summarize, ArchiveSession,
       ArchiveHandoff, AppendArchived, AppendHandoffCompleted, AckUpkeep, TurnThrows, UpkeepThrows,
       Crash, tables

(* A handoff stays the handoff of the session it was written for. *)
LEMMA OldIsKept ==
  ASSUME SessionInv, [Next]_vars
  PROVE  \A h \in DOMAIN handoffs : handoffs'[h].old = handoffs[h].old
<1>1. handoffs \in Seq(Handoff)
  BY DEF SessionInv, TablesOK
<1>2. CASE RequestHandoff
  <2>1. PICK new : handoffs' = Append(handoffs, new)
    BY <1>2 DEF RequestHandoff
  <2> QED
    BY <1>1, <2>1
<1>3. CASE ActivateHandoff
  <2> DEFINE new(r) == [r EXCEPT !.status = "activated", !.new = Len(sessions)]
  <2>1. \A r \in Handoff : new(r).old = r.old
    BY DEF Handoff
  <2>2. handoffs' = [handoffs EXCEPT ![turn.handoff] = new(handoffs[turn.handoff])]
    BY <1>3 DEF ActivateHandoff
  <2> HIDE DEF new
  <2> QED
    BY <1>1, <2>1, <2>2
<1>4. CASE \E s \in {"skipped", "summarized", "archived"} : SetHandoff(s)
  <2> PICK s \in {"skipped", "summarized", "archived"} : SetHandoff(s)
    BY <1>4
  <2> DEFINE new(r) == [r EXCEPT !.status = s]
  <2>1. \A r \in Handoff : new(r).old = r.old
    BY DEF Handoff
  <2>2. handoffs' = [handoffs EXCEPT ![Len(handoffs)] = new(handoffs[Len(handoffs)])]
    BY DEF SetHandoff
  <2> HIDE DEF new
  <2> QED
    BY <1>1, <2>1, <2>2
<1> QED
  BY <1>2, <1>3, <1>4, FourActionsWriteHandoffs

LEMMA InheritsIsKept ==
  ASSUME SessionInv, [Next]_vars, NEW s \in DOMAIN sessions,
         sessions'[s].handoff = sessions[s].handoff
  PROVE  Inherits(s)' = Inherits(s)
<1>1. sessions[s].handoff = 0 \/ sessions[s].handoff \in DOMAIN handoffs
  BY DEF SessionInv, TablesOK
<1> QED
  BY <1>1, OldIsKept DEF Inherits

LEMMA ChainIsSequence ==
  ASSUME SessionInv
  PROVE  /\ chainView \in Seq([open : BOOLEAN, inherits : Nat])
         /\ Len(chainView) = Len(sessions)
         /\ Len(sessions) \in Nat
         /\ DOMAIN sessions = 1..Len(sessions)
         /\ DOMAIN chainView = DOMAIN sessions
<1>1. Len(sessions) \in Nat /\ DOMAIN sessions = 1..Len(sessions)
  BY DEF SessionInv, TablesOK
<1>2. \A s \in DOMAIN sessions : Inherits(s) \in Nat
  <2> TAKE s \in DOMAIN sessions
  <2>1. sessions[s].handoff = 0 \/ sessions[s].handoff \in DOMAIN handoffs
    BY DEF SessionInv, TablesOK
  <2>2. \A h \in DOMAIN handoffs : handoffs[h].old \in Nat
    BY DEF SessionInv, TablesOK, Handoff
  <2> QED
    BY <2>1, <2>2 DEF Inherits
<1>3. chainView \in [1..Len(sessions) -> [open : BOOLEAN, inherits : Nat]]
  BY <1>1, <1>2 DEF chainView
<1> QED
  BY <1>1, <1>3, FunctionIsSequence

LEMMA SessionStays ==
  ASSUME SessionInv, [Next]_vars, UNCHANGED sessions
  PROVE  UNCHANGED chainView
<1>1. \A s \in DOMAIN sessions : Inherits(s)' = Inherits(s)
  BY InheritsIsKept
<1> QED
  BY <1>1 DEF chainView

LEMMA CreateOpens ==
  ASSUME SessionInv, CreateSession
  PROVE  Chain!Open
<1> DEFINE new == [status |-> "active", handoff |-> turn.handoff]
           p == IF turn.handoff = 0 THEN 0 ELSE handoffs[turn.handoff].old
           entry == [open |-> TRUE, inherits |-> p]
<1>1. sessions' = Append(sessions, new) /\ UNCHANGED handoffs
  BY DEF CreateSession
<1>2. Active = {}
  BY DEF CreateSession, SessionInv, NobodyElseCreates
<1>3. \A s \in DOMAIN chainView : ~chainView[s].open
  BY <1>2, ChainIsSequence DEF Active, chainView
<1>4. p \in 0..Len(chainView)
  <2>1. turn.handoff = 0 \/ turn.handoff \in DOMAIN handoffs
    BY DEF SessionInv, TablesOK
  <2>2. \A h \in DOMAIN handoffs : handoffs[h].old \in 0..Len(sessions)
    BY DEF SessionInv, TablesOK
  <2> QED
    BY <2>1, <2>2, ChainIsSequence
<1> PICK n : n = Len(sessions) + 1
  OBVIOUS
<1>5. /\ DOMAIN sessions' = 1..n
      /\ \A s \in DOMAIN sessions : sessions'[s] = sessions[s]
      /\ sessions'[n] = new
  BY <1>1 DEF SessionInv, TablesOK
<1>6. \A s \in DOMAIN sessions : Inherits(s)' = Inherits(s)
  BY <1>1, <1>5 DEF Inherits
<1>7. Inherits(n)' = p
  BY <1>1, <1>5 DEF Inherits
<1>8. chainView' = [s \in 1..n |-> IF s = n THEN entry ELSE chainView[s]]
  <2>1. \A s \in 1..n : s = n \/ (s # n /\ s \in DOMAIN sessions)
    BY ChainIsSequence
  <2>2. chainView' = [s \in 1..n |-> [open |-> sessions'[s].status = "active",
                                       inherits |-> Inherits(s)']]
    BY <1>5 DEF chainView
  <2>3. [open |-> sessions'[n].status = "active", inherits |-> Inherits(n)'] = entry
    <3>1. (sessions'[n].status = "active") = TRUE
      BY <1>5
    <3> HIDE DEF p
    <3> QED
      BY <3>1, <1>7, Zenon
  <2>4. \A s \in DOMAIN sessions :
          [open |-> sessions'[s].status = "active", inherits |-> Inherits(s)'] = chainView[s]
    BY <1>5, <1>6 DEF chainView
  <2> HIDE DEF entry
  <2> QED
    BY <2>1, <2>2, <2>3, <2>4
<1>9. Append(chainView, entry) = [s \in 1..n |-> IF s = n THEN entry ELSE chainView[s]]
  BY ChainIsSequence
<1> QED
  BY <1>3, <1>4, <1>8, <1>9 DEF Chain!Open, Chain!AllClosed

LEMMA ArchiveCloses ==
  ASSUME SessionInv, ArchiveSession
  PROVE  Chain!Close \/ UNCHANGED chainView
<1> DEFINE k == upkeep.session
           new(r) == [r EXCEPT !.status = "archived"]
<1>1. \A r \in Session : new(r).handoff = r.handoff /\ new(r).status = "archived"
  BY DEF Session
<1>2. sessions' = [sessions EXCEPT ![k] = new(sessions[k])] /\ UNCHANGED handoffs
  BY DEF ArchiveSession
<1>3. sessions \in Seq(Session)
  BY DEF SessionInv, TablesOK
<1> HIDE DEF new
<1>4. /\ DOMAIN sessions' = DOMAIN sessions
      /\ \A s \in DOMAIN sessions :
           /\ sessions'[s].handoff = sessions[s].handoff
           /\ sessions'[s].status = IF s = k THEN "archived" ELSE sessions[s].status
  BY <1>1, <1>2, <1>3
<1>5. \A s \in DOMAIN sessions : Inherits(s)' = Inherits(s)
  BY <1>2, <1>4 DEF Inherits
<1>6. /\ DOMAIN chainView' = DOMAIN sessions
      /\ \A s \in DOMAIN sessions :
           chainView'[s] = [open |-> s # k /\ sessions[s].status = "active",
                            inherits |-> Inherits(s)]
  BY <1>4, <1>5 DEF chainView
<1>7. CASE k \in DOMAIN sessions /\ sessions[k].status = "active"
  <2>1. chainView[k].open
    BY <1>7 DEF chainView
  <2>2. chainView' = [chainView EXCEPT ![k].open = FALSE]
    BY <1>6, <1>7 DEF chainView
  <2> QED
    BY <1>7, <2>1, <2>2, ChainIsSequence DEF Chain!Close
<1>8. CASE ~(k \in DOMAIN sessions /\ sessions[k].status = "active")
  BY <1>6, <1>8 DEF chainView
<1> QED
  BY <1>7, <1>8

(* ImplementsChain for any limits: the next session is created only when the one before   *)
(* it is archived, although the turn looked for an active session before it called Codex  *)
(* (runner.ts:36) and maintenance archives sessions meanwhile; and what a session has     *)
(* inherited stays as it was.                                                             *)
THEOREM SessionsFormAChain == Spec => ImplementsChain
<1>1. Init => Chain!Init
  BY DEF Init, Chain!Init, chainView
<1>2. SessionInv /\ [Next]_vars => [Chain!Next]_chainView
  BY TwoActionsWriteSessions, SessionStays, CreateOpens, ArchiveCloses DEF Chain!Next
<1> QED
  BY <1>1, <1>2, SessionInvariant, PTL DEF Spec, ImplementsChain, Chain!Spec

-----------------------------------------------------------------------------
(* What the steps write *)

LEMMA Tables ==
  ASSUME SessionInv
  PROVE  /\ Len(sessions) \in Nat /\ DOMAIN sessions = 1..Len(sessions)
         /\ Len(handoffs) \in Nat /\ DOMAIN handoffs = 1..Len(handoffs)
         /\ Len(log) \in Nat /\ DOMAIN log = 1..Len(log)
         /\ \A s \in DOMAIN sessions : sessions[s] \in Session /\ sessions[s].handoff \in 0..Len(handoffs)
         /\ \A h \in DOMAIN handoffs : handoffs[h] \in Handoff /\ handoffs[h].old \in 0..Len(sessions)
         /\ turn.handoff \in 0..Len(handoffs)
         /\ turn.session \in Nat /\ turn.message \in Nat /\ turn.round \in Nat
         /\ upkeep.session \in Nat /\ upkeep.message \in Nat
<1>1. sessions \in Seq(Session) /\ handoffs \in Seq(Handoff) /\ log \in Seq({Trigger, Request})
  BY DEF SessionInv, TablesOK, LoopsOK
<1>2. /\ turn.session \in Nat /\ turn.message \in Nat /\ turn.round \in Nat
      /\ upkeep.session \in Nat /\ upkeep.message \in Nat
  BY DEF SessionInv, LoopsOK
<1> QED BY <1>1, <1>2 DEF SessionInv, TablesOK

LEMMA TheTurn ==
  ASSUME SessionInv, NEW p
  PROVE  [turn EXCEPT !.pc = p] =
           [pc |-> p, message |-> turn.message, session |-> turn.session,
            handoff |-> turn.handoff, round |-> turn.round]
<1>1. turn \in [pc : {"idle", "thinking", "answered", "created", "recorded", "handled"},
                message : Nat, session : Nat, handoff : Nat, round : Nat]
  BY DEF SessionInv, LoopsOK
<1> QED BY <1>1

LEMMA TheUpkeep ==
  ASSUME SessionInv, NEW p
  PROVE  [upkeep EXCEPT !.pc = p] = [pc |-> p, message |-> upkeep.message, session |-> upkeep.session]
<1>1. upkeep \in [pc : {"idle", "claimed", "requested", "skipped", "summarized",
                        "sessionArchived", "archived", "announced", "handled"},
                  message : Nat, session : Nat]
  BY DEF SessionInv, LoopsOK
<1> QED BY <1>1

LEMMA RequestEffect ==
  ASSUME SessionInv, RequestHandoff
  PROVE  \E s \in Newest(Active) :
           /\ Len(handoffs') = Len(handoffs) + 1
           /\ DOMAIN handoffs' = DOMAIN handoffs \cup {Len(handoffs) + 1}
           /\ \A h \in DOMAIN handoffs : h # Len(handoffs) + 1 /\ handoffs'[h] = handoffs[h]
           /\ handoffs'[Len(handoffs) + 1] = [status |-> "requested", old |-> s, new |-> 0]
           /\ upkeep' = [pc |-> "requested", message |-> upkeep.message, session |-> s]
<1>1. PICK s \in Newest(Active) :
        /\ handoffs' = Append(handoffs, [status |-> "requested", old |-> s, new |-> 0])
        /\ upkeep' = [upkeep EXCEPT !.pc = "requested", !.session = s]
  BY DEF RequestHandoff
<1>2. upkeep \in [pc : {"idle", "claimed", "requested", "skipped", "summarized",
                        "sessionArchived", "archived", "announced", "handled"},
                  message : Nat, session : Nat]
  BY DEF SessionInv, LoopsOK
<1>3. upkeep' = [pc |-> "requested", message |-> upkeep.message, session |-> s]
  BY <1>1, <1>2
<1>4. handoffs \in Seq(Handoff) /\ Len(handoffs) \in Nat /\ DOMAIN handoffs = 1..Len(handoffs)
  BY DEF SessionInv, TablesOK
<1> DEFINE new == [status |-> "requested", old |-> s, new |-> 0]
<1>5. handoffs' = Append(handoffs, new)
  BY <1>1
<1> HIDE DEF new
<1>6. /\ Len(handoffs') = Len(handoffs) + 1
      /\ DOMAIN handoffs' = DOMAIN handoffs \cup {Len(handoffs) + 1}
      /\ \A h \in DOMAIN handoffs : h # Len(handoffs) + 1 /\ handoffs'[h] = handoffs[h]
      /\ handoffs'[Len(handoffs) + 1] = new
  BY <1>4, <1>5
<1> QED BY <1>3, <1>6 DEF new

LEMMA SetHandoffEffect ==
  ASSUME SessionInv, NEW s, SetHandoff(s)
  PROVE  /\ Len(handoffs') = Len(handoffs) /\ DOMAIN handoffs' = DOMAIN handoffs
         /\ \A h \in DOMAIN handoffs :
              /\ handoffs'[h].old = handoffs[h].old /\ handoffs'[h].new = handoffs[h].new
              /\ handoffs'[h].status = IF h = Len(handoffs) THEN s ELSE handoffs[h].status
<1> DEFINE new(r) == [r EXCEPT !.status = s]
<1>1. \A r \in Handoff : new(r).old = r.old /\ new(r).new = r.new /\ new(r).status = s
  BY DEF Handoff
<1>2. handoffs' = [handoffs EXCEPT ![Len(handoffs)] = new(handoffs[Len(handoffs)])]
  BY DEF SetHandoff
<1>3. handoffs \in Seq(Handoff) /\ Len(handoffs) \in Nat /\ DOMAIN handoffs = 1..Len(handoffs)
  BY DEF SessionInv, TablesOK
<1> HIDE DEF new
<1>4. \A h \in DOMAIN handoffs : handoffs[h] \in Handoff
  BY <1>3
<1>5. /\ DOMAIN handoffs' = DOMAIN handoffs
      /\ \A h \in DOMAIN handoffs :
           handoffs'[h] = IF h = Len(handoffs) THEN new(handoffs[h]) ELSE handoffs[h]
  BY <1>2, <1>3
<1>6. Len(handoffs') = Len(handoffs)
  BY <1>2, <1>3
<1> QED BY <1>1, <1>4, <1>5, <1>6

LEMMA ActivateEffect ==
  ASSUME SessionInv, ActivateHandoff
  PROVE  /\ Len(handoffs') = Len(handoffs) /\ DOMAIN handoffs' = DOMAIN handoffs
         /\ \A h \in DOMAIN handoffs :
              /\ handoffs'[h].old = handoffs[h].old
              /\ h # turn.handoff => handoffs'[h] = handoffs[h]
              /\ h = turn.handoff => /\ handoffs'[h].status = "activated"
                                     /\ handoffs'[h].new = Len(sessions)
         /\ turn' = [pc |-> "recorded", message |-> turn.message, session |-> turn.session,
                     handoff |-> turn.handoff, round |-> turn.round]
<1> DEFINE new(r) == [r EXCEPT !.status = "activated", !.new = Len(sessions)]
<1>1. \A r \in Handoff : new(r).old = r.old /\ new(r).new = Len(sessions) /\ new(r).status = "activated"
  BY DEF Handoff
<1>2. handoffs' = [handoffs EXCEPT ![turn.handoff] = new(handoffs[turn.handoff])]
  BY DEF ActivateHandoff
<1>3. handoffs \in Seq(Handoff) /\ Len(handoffs) \in Nat /\ DOMAIN handoffs = 1..Len(handoffs)
  BY DEF SessionInv, TablesOK
<1> HIDE DEF new
<1>4. \A h \in DOMAIN handoffs : handoffs[h] \in Handoff
  BY <1>3
<1>5. /\ DOMAIN handoffs' = DOMAIN handoffs
      /\ \A h \in DOMAIN handoffs :
           handoffs'[h] = IF h = turn.handoff THEN new(handoffs[h]) ELSE handoffs[h]
  BY <1>2, <1>3
<1>6. Len(handoffs') = Len(handoffs)
  BY <1>2, <1>3
<1>7. turn' = [pc |-> "recorded", message |-> turn.message, session |-> turn.session,
              handoff |-> turn.handoff, round |-> turn.round]
  BY TheTurn DEF ActivateHandoff
<1> QED BY <1>1, <1>4, <1>5, <1>6, <1>7

LEMMA CreateEffect ==
  ASSUME SessionInv, CreateSession
  PROVE  /\ Len(sessions') = Len(sessions) + 1
         /\ DOMAIN sessions' = DOMAIN sessions \cup {Len(sessions) + 1}
         /\ \A s \in DOMAIN sessions : s # Len(sessions) + 1 /\ sessions'[s] = sessions[s]
         /\ sessions'[Len(sessions) + 1].status = "active"
         /\ sessions'[Len(sessions) + 1].handoff = turn.handoff
         /\ turn' = [pc |-> IF turn.handoff = 0 THEN "recorded" ELSE "created",
                     message |-> turn.message, session |-> turn.session,
                     handoff |-> turn.handoff, round |-> turn.round]
         /\ Active = {}
<1> DEFINE new == [status |-> "active", handoff |-> turn.handoff]
<1>1. sessions' = Append(sessions, new)
  BY DEF CreateSession
<1>2. sessions \in Seq(Session) /\ Len(sessions) \in Nat /\ DOMAIN sessions = 1..Len(sessions)
  BY DEF SessionInv, TablesOK
<1>3. new.status = "active" /\ new.handoff = turn.handoff
  OBVIOUS
<1> HIDE DEF new
<1>4. /\ Len(sessions') = Len(sessions) + 1
      /\ DOMAIN sessions' = DOMAIN sessions \cup {Len(sessions) + 1}
      /\ \A s \in DOMAIN sessions : s # Len(sessions) + 1 /\ sessions'[s] = sessions[s]
      /\ sessions'[Len(sessions) + 1] = new
  BY <1>1, <1>2
<1>5. turn' = [pc |-> IF turn.handoff = 0 THEN "recorded" ELSE "created",
              message |-> turn.message, session |-> turn.session,
              handoff |-> turn.handoff, round |-> turn.round]
  BY TheTurn DEF CreateSession
<1>6. Active = {}
  BY DEF CreateSession, SessionInv, NobodyElseCreates
<1> QED BY <1>3, <1>4, <1>5, <1>6

LEMMA ArchiveEffect ==
  ASSUME SessionInv, ArchiveSession
  PROVE  /\ Len(sessions') = Len(sessions) /\ DOMAIN sessions' = DOMAIN sessions
         /\ \A s \in DOMAIN sessions :
              /\ sessions'[s].handoff = sessions[s].handoff
              /\ sessions'[s].status = IF s = upkeep.session THEN "archived" ELSE sessions[s].status
<1> DEFINE new(r) == [r EXCEPT !.status = "archived"]
<1>1. \A r \in Session : new(r).handoff = r.handoff /\ new(r).status = "archived"
  BY DEF Session
<1>2. sessions' = [sessions EXCEPT ![upkeep.session] = new(sessions[upkeep.session])]
  BY DEF ArchiveSession
<1>3. sessions \in Seq(Session) /\ Len(sessions) \in Nat /\ DOMAIN sessions = 1..Len(sessions)
  BY DEF SessionInv, TablesOK
<1> HIDE DEF new
<1>4. \A s \in DOMAIN sessions : sessions[s] \in Session
  BY <1>3
<1>5. /\ DOMAIN sessions' = DOMAIN sessions
      /\ \A s \in DOMAIN sessions :
           sessions'[s] = IF s = upkeep.session THEN new(sessions[s]) ELSE sessions[s]
  BY <1>2, <1>3
<1>6. Len(sessions') = Len(sessions)
  BY <1>2, <1>3
<1> QED BY <1>1, <1>4, <1>5, <1>6

-----------------------------------------------------------------------------
(* A session starts from the summary of the one before it, if that one has left one *)

Done(h) == handoffs[h].status \in {"archived", "activated"}

Unused(h) == handoffs[h].status = "archived" /\ handoffs[h].new = 0

OnlyTheLastIsActive == \A s \in Active : s = Len(sessions)

(* The session of a handoff that is done is over, and those that are done come in the     *)
(* order of their sessions; one is used only once there is a session after its own.       *)
HandoffsOK ==
  /\ \A h \in DOMAIN handoffs : Done(h) =>
       /\ handoffs[h].old \in DOMAIN sessions
       /\ sessions[handoffs[h].old].status = "archived"
       /\ Unused(h) \/ handoffs[h].old < Len(sessions)
  /\ \A h, k \in DOMAIN handoffs :
       h < k /\ Done(h) => handoffs[k].old = 0 \/ handoffs[h].old < handoffs[k].old

HasHandoff == upkeep.pc \in {"requested", "summarized", "sessionArchived"}

(* What maintenance works on is the last handoff, which is of the last session or of none. *)
UpkeepOK ==
  /\ HasHandoff =>
       /\ Len(handoffs) # 0
       /\ handoffs[Len(handoffs)].status \in {"requested", "summarized"}
       /\ handoffs[Len(handoffs)].new = 0
       /\ handoffs[Len(handoffs)].old = upkeep.session
       /\ upkeep.session \in {0, Len(sessions)}
  /\ upkeep.pc \in {"summarized", "sessionArchived"} => upkeep.session # 0
  /\ upkeep.pc = "sessionArchived" => sessions[upkeep.session].status = "archived"

(* A turn that found no active session holds the handoff of the last session, if that has *)
(* one that is done, and no other will be done before the turn creates the next session.  *)
TurnOK ==
  /\ turn.handoff # 0 => Done(turn.handoff)
  /\ turn.pc = "created" => turn.handoff # 0 /\ handoffs[turn.handoff].old < Len(sessions)
  /\ turn.pc \in {"thinking", "answered"} /\ turn.session = 0 =>
       /\ \A h \in DOMAIN handoffs : Done(h) /\ handoffs[h].old = Len(sessions) => turn.handoff = h
       /\ HasHandoff => upkeep.session = 0

SuccessionInv == OnlyTheLastIsActive /\ HandoffsOK /\ UpkeepOK /\ TurnOK /\ SuccessorTakesNewest

LEMMA SevenActionsWriteTables ==
  ASSUME [Next]_vars
  PROVE  \/ UNCHANGED <<sessions, handoffs>>
         \/ CreateSession \/ ArchiveSession
         \/ RequestHandoff \/ ActivateHandoff
         \/ Skip \/ Summarize \/ ArchiveHandoff
BY DEF Next, TurnStep, UpkeepStep, vars, Arrive, BeginTurn, AskForTools, Answer, CompleteTurn, AckTurn,
       BeginUpkeep, AppendSkipped, AppendArchived, AppendHandoffCompleted, AckUpkeep, TurnThrows,
       UpkeepThrows, Crash, tables

LEMMA OnlyLastStep ==
  ASSUME SessionInv, OnlyTheLastIsActive, [Next]_vars
  PROVE  OnlyTheLastIsActive'
<1>1. CASE UNCHANGED sessions
  BY <1>1 DEF OnlyTheLastIsActive, Active
<1>2. CASE CreateSession
  <2>1. /\ Len(sessions') = Len(sessions) + 1
        /\ DOMAIN sessions' = DOMAIN sessions \cup {Len(sessions) + 1}
        /\ \A s \in DOMAIN sessions : sessions'[s] = sessions[s] /\ sessions[s].status # "active"
    BY <1>2, CreateEffect DEF Active
  <2> QED BY <2>1 DEF OnlyTheLastIsActive, Active
<1>3. CASE ArchiveSession
  BY <1>3, ArchiveEffect DEF OnlyTheLastIsActive, Active
<1> QED BY <1>1, <1>2, <1>3, TwoActionsWriteSessions

(* The sessions that are active are the last one or none, and so is the newest of them. *)
LEMMA NewestActive ==
  ASSUME SessionInv, OnlyTheLastIsActive, NEW s \in Newest(Active)
  PROVE  /\ s \in {0, Len(sessions)}
         /\ s # 0 => s \in DOMAIN sessions /\ sessions[s].status = "active"
         /\ s = 0 => Active = {}
<1>1. s = 0 \/ s \in Active
  BY NewestIn
<1> QED BY <1>1, NoneIsNewest DEF OnlyTheLastIsActive, Active

LEMMA HandoffsStep ==
  ASSUME SessionInv, OnlyTheLastIsActive, HandoffsOK, UpkeepOK, TurnOK, [Next]_vars
  PROVE  HandoffsOK'
<1>0. /\ Len(sessions) \in Nat /\ DOMAIN sessions = 1..Len(sessions)
      /\ Len(handoffs) \in Nat /\ DOMAIN handoffs = 1..Len(handoffs)
      /\ \A h \in DOMAIN handoffs : handoffs[h].old \in 0..Len(sessions)
  BY Tables
<1>1. CASE UNCHANGED <<sessions, handoffs>>
  BY <1>1 DEF HandoffsOK, Done, Unused
<1>2. CASE CreateSession
  <2>1. UNCHANGED handoffs
    BY <1>2 DEF CreateSession
  <2> QED BY <1>0, <1>2, <2>1, CreateEffect DEF HandoffsOK, Done, Unused
<1>3. CASE ArchiveSession
  <2>1. UNCHANGED handoffs
    BY <1>3 DEF ArchiveSession
  <2> QED BY <1>0, <1>3, <2>1, ArchiveEffect DEF HandoffsOK, Done, Unused
<1>4. CASE RequestHandoff
  <2>1. PICK s \in Newest(Active) :
          /\ Len(handoffs') = Len(handoffs) + 1
          /\ DOMAIN handoffs' = DOMAIN handoffs \cup {Len(handoffs) + 1}
          /\ \A h \in DOMAIN handoffs : h # Len(handoffs) + 1 /\ handoffs'[h] = handoffs[h]
          /\ handoffs'[Len(handoffs) + 1] = [status |-> "requested", old |-> s, new |-> 0]
    BY <1>4, RequestEffect
  <2> PICK n : n = Len(handoffs) + 1
    OBVIOUS
  <2>2. UNCHANGED sessions
    BY <1>4 DEF RequestHandoff
  <2>3. s = 0 \/ (s = Len(sessions) /\ sessions[s].status = "active")
    BY NewestActive
  <2>4. ~Done(n)' /\ handoffs'[n].old = s
    BY <2>1 DEF Done
  <2>5. \A h \in DOMAIN handoffs : Done(h) => handoffs[h].old < s \/ s = 0
    BY <1>0, <2>3 DEF HandoffsOK
  <2>6. \A h \in DOMAIN handoffs : (Done(h)' <=> Done(h)) /\ (Unused(h)' <=> Unused(h))
    BY <2>1 DEF Done, Unused
  <2>7. ASSUME NEW h \in DOMAIN handoffs', Done(h)'
        PROVE  /\ h \in DOMAIN handoffs /\ Done(h)
               /\ handoffs'[h].old \in DOMAIN sessions'
               /\ sessions'[handoffs'[h].old].status = "archived"
               /\ Unused(h)' \/ handoffs'[h].old < Len(sessions')
    <3>1. h \in DOMAIN handoffs /\ Done(h)
      <4>1. h # n
        BY <2>4, <2>7 DEF Done
      <4> QED BY <2>1, <2>6, <2>7, <4>1
    <3> QED BY <2>1, <2>2, <2>6, <3>1 DEF HandoffsOK
  <2>8. ASSUME NEW h \in DOMAIN handoffs', NEW k \in DOMAIN handoffs', h < k, Done(h)'
        PROVE  handoffs'[k].old = 0 \/ handoffs'[h].old < handoffs'[k].old
    <3>1. h \in DOMAIN handoffs /\ Done(h) /\ handoffs'[h] = handoffs[h]
      BY <2>1, <2>7, <2>8
    <3>2. CASE k \in DOMAIN handoffs
      BY <2>1, <2>8, <3>1, <3>2 DEF HandoffsOK
    <3>3. CASE k = n
      BY <2>4, <2>5, <3>1, <3>3
    <3> QED BY <2>1, <3>2, <3>3
  <2> QED BY <2>7, <2>8 DEF HandoffsOK
<1>5. CASE ActivateHandoff
  <2>1. UNCHANGED sessions /\ turn.handoff \in DOMAIN handoffs /\ Done(turn.handoff)
        /\ handoffs[turn.handoff].old < Len(sessions)
    BY <1>0, <1>5, Tables DEF ActivateHandoff, TurnOK
  <2>2. /\ DOMAIN handoffs' = DOMAIN handoffs
        /\ \A h \in DOMAIN handoffs : handoffs'[h].old = handoffs[h].old /\ (Done(h)' <=> Done(h))
    BY <1>5, <2>1, ActivateEffect DEF Done
  <2>3. \A h \in DOMAIN handoffs : h # turn.handoff => (Unused(h)' <=> Unused(h))
    BY <1>5, ActivateEffect DEF Unused
  <2> QED BY <2>1, <2>2, <2>3 DEF HandoffsOK
<1>6. CASE Skip \/ Summarize
  <2>1. HasHandoff /\ UNCHANGED sessions /\ ~Done(Len(handoffs))
    BY <1>6 DEF Skip, Summarize, HasHandoff, UpkeepOK, Done
  <2>2. PICK s \in {"skipped", "summarized"} : SetHandoff(s)
    BY <1>6 DEF Skip, Summarize
  <2>3. /\ DOMAIN handoffs' = DOMAIN handoffs
        /\ \A h \in DOMAIN handoffs : /\ handoffs'[h].old = handoffs[h].old
                                      /\ Done(h)' <=> Done(h)
                                      /\ Done(h) => (Unused(h)' <=> Unused(h))
    BY <2>1, <2>2, SetHandoffEffect DEF Done, Unused
  <2> QED BY <2>1, <2>3 DEF HandoffsOK
<1>7. CASE ArchiveHandoff
  <2> DEFINE n == Len(handoffs)
  <2>1. /\ n \in DOMAIN handoffs /\ UNCHANGED sessions /\ ~Done(n) /\ handoffs[n].new = 0
        /\ handoffs[n].old \in DOMAIN sessions /\ sessions[handoffs[n].old].status = "archived"
    BY <1>0, <1>7 DEF ArchiveHandoff, HasHandoff, UpkeepOK, Done
  <2>2. SetHandoff("archived")
    BY <1>7 DEF ArchiveHandoff
  <2>3. /\ DOMAIN handoffs' = DOMAIN handoffs
        /\ \A h \in DOMAIN handoffs : /\ handoffs'[h].old = handoffs[h].old
                                      /\ h # n => (Done(h)' <=> Done(h)) /\ (Unused(h)' <=> Unused(h))
        /\ Unused(n)'
    BY <2>1, <2>2, SetHandoffEffect DEF Done, Unused
  <2> QED BY <1>0, <2>1, <2>3 DEF HandoffsOK
<1> QED BY <1>1, <1>2, <1>3, <1>4, <1>5, <1>6, <1>7, SevenActionsWriteTables

LEMMA UpkeepOKStep ==
  ASSUME SessionInv, OnlyTheLastIsActive, UpkeepOK, TurnOK, [Next]_vars
  PROVE  UpkeepOK'
<1> USE DEF tables, hub
<1>0. /\ Len(sessions) \in Nat /\ DOMAIN sessions = 1..Len(sessions)
      /\ Len(handoffs) \in Nat /\ DOMAIN handoffs = 1..Len(handoffs)
  BY Tables
<1>1. CASE CreateSession
  <2>1. ~HasHandoff /\ upkeep.pc \notin {"summarized", "sessionArchived"} /\ UNCHANGED upkeep
    BY <1>1 DEF CreateSession, Yielded, HasHandoff
  <2> QED BY <2>1 DEF UpkeepOK, HasHandoff
<1>2. CASE ActivateHandoff
  <2>1. UNCHANGED <<sessions, upkeep>>
    BY <1>2 DEF ActivateHandoff
  <2>2. Len(handoffs') = Len(handoffs)
    BY <1>2, ActivateEffect
  <2>3. HasHandoff => /\ Len(handoffs) \in DOMAIN handoffs
                      /\ Len(handoffs) # turn.handoff
    BY <1>0, <1>2 DEF UpkeepOK, TurnOK, Done, ActivateHandoff
  <2>4. HasHandoff => handoffs'[Len(handoffs)] = handoffs[Len(handoffs)]
    BY <1>2, <2>3, ActivateEffect
  <2> QED BY <2>1, <2>2, <2>4 DEF UpkeepOK, HasHandoff
<1>3. CASE RequestHandoff
  <2>1. PICK s \in Newest(Active) :
          /\ Len(handoffs') = Len(handoffs) + 1
          /\ handoffs'[Len(handoffs) + 1] = [status |-> "requested", old |-> s, new |-> 0]
          /\ upkeep' = [pc |-> "requested", message |-> upkeep.message, session |-> s]
    BY <1>3, RequestEffect
  <2>2. UNCHANGED sessions /\ s \in {0, Len(sessions)}
    BY <1>3, NewestActive DEF RequestHandoff
  <2>3. handoffs'[Len(handoffs')] = [status |-> "requested", old |-> s, new |-> 0]
    BY <2>1
  <2>4. Len(handoffs') # 0 /\ upkeep'.pc = "requested" /\ upkeep'.session = s
    BY <1>0, <2>1
  <2> QED BY <2>2, <2>3, <2>4 DEF UpkeepOK, HasHandoff
<1>4. CASE Summarize
  <2>1. /\ SetHandoff("summarized") /\ HasHandoff /\ upkeep.session # 0 /\ UNCHANGED sessions
        /\ upkeep' = [pc |-> "summarized", message |-> upkeep.message, session |-> upkeep.session]
    BY <1>4, TheUpkeep DEF Summarize, HasHandoff
  <2>2. Len(handoffs) \in DOMAIN handoffs
    BY <1>0, <2>1 DEF UpkeepOK
  <2>3. /\ Len(handoffs') = Len(handoffs)
        /\ handoffs'[Len(handoffs)].old = handoffs[Len(handoffs)].old
        /\ handoffs'[Len(handoffs)].new = handoffs[Len(handoffs)].new
        /\ handoffs'[Len(handoffs)].status = "summarized"
    BY <2>1, <2>2, SetHandoffEffect
  <2> QED BY <2>1, <2>3 DEF UpkeepOK, HasHandoff
<1>5. CASE ArchiveSession
  <2>1. /\ upkeep' = [pc |-> "sessionArchived", message |-> upkeep.message, session |-> upkeep.session]
        /\ HasHandoff /\ upkeep.pc = "summarized" /\ UNCHANGED handoffs
    BY <1>5, TheUpkeep DEF ArchiveSession, HasHandoff
  <2>2. upkeep.session \in DOMAIN sessions
    BY <1>0, <2>1 DEF UpkeepOK
  <2>3. Len(sessions') = Len(sessions) /\ sessions'[upkeep.session].status = "archived"
    BY <1>5, <2>2, ArchiveEffect
  <2> QED BY <2>1, <2>3 DEF UpkeepOK, HasHandoff
<1>6. CASE Skip \/ ArchiveHandoff
  <2>1. upkeep'.pc \in {"skipped", "archived"}
    BY <1>6, TheUpkeep DEF Skip, ArchiveHandoff
  <2> QED BY <2>1 DEF UpkeepOK, HasHandoff
<1>7. CASE UNCHANGED <<sessions, handoffs>>
  <2>1. CASE UNCHANGED upkeep
    BY <1>7, <2>1 DEF UpkeepOK, HasHandoff
  <2>2. CASE upkeep'.pc \in {"idle", "claimed", "handled", "announced"}
    BY <2>2 DEF UpkeepOK, HasHandoff
  <2>3. ASSUME NEW i \in DOMAIN log, BeginUpkeep(i)
        PROVE  upkeep'.pc = "claimed"
    BY <2>3 DEF BeginUpkeep, SessionInv, LoopsOK
  <2>4. CASE AppendSkipped \/ AppendArchived \/ AppendHandoffCompleted
    <3>1. upkeep'.pc \in {"handled", "announced"}
      BY <2>4, TheUpkeep DEF AppendSkipped, AppendArchived, AppendHandoffCompleted
    <3> QED BY <2>2, <3>1
  <2>5. CASE AckUpkeep \/ UpkeepThrows \/ Crash
    BY <2>2, <2>5 DEF AckUpkeep, UpkeepThrows, Crash, NoUpkeep
  <2> QED
    BY <1>1, <1>2, <1>3, <1>4, <1>5, <1>6, <2>1, <2>2, <2>3, <2>4, <2>5
       DEF Next, TurnStep, UpkeepStep, vars, Arrive, BeginTurn, AskForTools, Answer, CompleteTurn, AckTurn,
           TurnThrows
<1> QED BY <1>1, <1>2, <1>3, <1>4, <1>5, <1>6, <1>7, SevenActionsWriteTables

LEMMA TurnOKStep ==
  ASSUME SessionInv, OnlyTheLastIsActive, HandoffsOK, UpkeepOK, TurnOK, [Next]_vars
  PROVE  TurnOK'
<1> USE DEF tables, hub
<1>0. /\ Len(sessions) \in Nat /\ DOMAIN sessions = 1..Len(sessions)
      /\ Len(handoffs) \in Nat /\ DOMAIN handoffs = 1..Len(handoffs)
      /\ turn.handoff \in 0..Len(handoffs)
      /\ \A h \in DOMAIN handoffs : handoffs[h].old \in 0..Len(sessions)
  BY Tables
(* The turn is as it was, or further on, and no handoff of the last session is done anew. *)
<1>1. ASSUME /\ turn'.handoff = turn.handoff /\ turn'.session = turn.session
             /\ turn'.pc = "created" => turn.pc = "created"
             /\ turn'.pc \in {"thinking", "answered"} => turn.pc \in {"thinking", "answered"},
             Len(sessions') = Len(sessions), DOMAIN handoffs \subseteq DOMAIN handoffs',
             \A h \in DOMAIN handoffs : handoffs'[h].old = handoffs[h].old /\ (Done(h) => Done(h)'),
             turn.pc \in {"thinking", "answered"} /\ turn.session = 0 =>
               /\ \A h \in DOMAIN handoffs' : Done(h)' => h \in DOMAIN handoffs /\ Done(h)
               /\ HasHandoff' => upkeep'.session = 0
      PROVE  TurnOK'
  <2>1. turn.handoff # 0 => turn.handoff \in DOMAIN handoffs
    BY <1>0
  <2>2. \A h : h = turn.handoff /\ h # 0 => Done(h)'
    BY <1>1, <2>1 DEF TurnOK
  <2>3. turn'.handoff # 0 => Done(turn.handoff)'
    BY <1>1, <2>2 DEF Done
  <2>4. turn'.pc = "created" => turn'.handoff # 0 /\ handoffs'[turn'.handoff].old < Len(sessions')
    BY <1>1, <2>1 DEF TurnOK
  <2>5. ASSUME turn'.pc \in {"thinking", "answered"}, turn'.session = 0
        PROVE  /\ \A h \in DOMAIN handoffs' :
                    Done(h)' /\ handoffs'[h].old = Len(sessions') => turn'.handoff = h
               /\ HasHandoff' => upkeep'.session = 0
    BY <1>1, <2>5 DEF TurnOK
  <2> QED BY <2>3, <2>4, <2>5 DEF TurnOK
<1>2. ASSUME NEW i \in DOMAIN log, BeginTurn(i)
      PROVE  TurnOK'
  <2>1. PICK s \in Newest(Active), h \in IF Active = {} THEN PendingHandoff ELSE {0} :
          turn' = [pc |-> "thinking", message |-> i, session |-> s, handoff |-> h, round |-> 0]
    BY <1>2 DEF BeginTurn
  <2>2. UNCHANGED <<sessions, handoffs, upkeep>> /\ ~HasHandoff
    BY <1>2 DEF BeginTurn, Yielded, HasHandoff
  <2>3. turn'.pc = "thinking" /\ turn'.session = s /\ turn'.handoff = h
    BY <2>1
  <2>4. h # 0 => h \in DOMAIN handoffs /\ Unused(h) /\ h \in PendingHandoff /\ Active = {}
    BY NewestIn DEF PendingHandoff, PendingHandoffs, Unused
  <2>5. ASSUME s = 0, NEW k \in DOMAIN handoffs, Done(k), handoffs[k].old = Len(sessions)
        PROVE  h = k
    <3>1. Active = {} /\ k \in PendingHandoffs /\ Unused(k)
      BY <2>5, NoneIsNewest DEF HandoffsOK, PendingHandoffs, Unused
    <3>2. h \in PendingHandoffs /\ k <= h
      BY <3>1 DEF PendingHandoff, Newest
    <3>3. h \in DOMAIN handoffs /\ Done(h) /\ handoffs[h].old \in DOMAIN sessions
      BY <3>2 DEF PendingHandoffs, Done, HandoffsOK
    <3>4. ~(k < h)
      BY <1>0, <2>5, <3>3 DEF HandoffsOK
    <3> QED BY <1>0, <3>2, <3>3, <3>4
  <2>6. Unused(h) => Done(h)
    BY DEF Unused, Done
  <2>7. turn'.handoff # 0 => Done(h)'
    BY <2>2, <2>3, <2>4, <2>6 DEF Done
  <2>8. turn'.session = 0 => \A k \in DOMAIN handoffs' :
           Done(k)' /\ handoffs'[k].old = Len(sessions') => turn'.handoff = k
    BY <2>2, <2>3, <2>5 DEF Done
  <2> QED BY <2>2, <2>3, <2>7, <2>8 DEF TurnOK, HasHandoff, Done
<1>3. CASE AskForTools \/ Answer \/ CompleteTurn
  <2>1. UNCHANGED <<sessions, handoffs, upkeep>>
    BY <1>3 DEF AskForTools, Answer, CompleteTurn, Tell
  <2>2. /\ turn'.handoff = turn.handoff /\ turn'.session = turn.session
        /\ turn'.pc = "created" => turn.pc = "created"
        /\ turn'.pc \in {"thinking", "answered"} => turn.pc \in {"thinking", "answered"}
    BY <1>3 DEF AskForTools, Answer, CompleteTurn, SessionInv, LoopsOK
  <2> QED BY <1>1, <2>1, <2>2 DEF TurnOK, HasHandoff, Done
<1>4. CASE CreateSession
  <2>1. /\ turn' = [pc |-> IF turn.handoff = 0 THEN "recorded" ELSE "created",
                    message |-> turn.message, session |-> turn.session,
                    handoff |-> turn.handoff, round |-> turn.round]
        /\ Len(sessions') = Len(sessions) + 1 /\ UNCHANGED handoffs
    BY <1>4, CreateEffect DEF CreateSession
  <2>2. /\ turn'.handoff = turn.handoff /\ turn'.pc \in {"recorded", "created"}
        /\ turn'.pc = "created" => turn.handoff # 0
    BY <2>1
  <2>3. turn.handoff # 0 => handoffs[turn.handoff].old < Len(sessions) + 1
    BY <1>0
  <2> QED BY <2>1, <2>2, <2>3 DEF TurnOK, Done
<1>5. CASE ActivateHandoff
  <2>1. UNCHANGED <<sessions, upkeep>> /\ turn.pc = "created"
    BY <1>5 DEF ActivateHandoff
  <2>2. /\ turn'.handoff = turn.handoff /\ turn'.session = turn.session /\ turn'.pc = "recorded"
        /\ DOMAIN handoffs' = DOMAIN handoffs
        /\ \A h \in DOMAIN handoffs : handoffs'[h].old = handoffs[h].old /\ (Done(h) => Done(h)')
    BY <1>5, ActivateEffect DEF Done
  <2> QED BY <1>1, <2>1, <2>2
<1>6. CASE AckTurn \/ TurnThrows \/ Crash
  <2>1. turn' = NoTurn
    BY <1>6 DEF AckTurn, TurnThrows, Crash
  <2> QED BY <2>1 DEF TurnOK, NoTurn
<1>7. CASE RequestHandoff
  <2>1. PICK s \in Newest(Active) :
          /\ DOMAIN handoffs' = DOMAIN handoffs \cup {Len(handoffs) + 1}
          /\ \A h \in DOMAIN handoffs : h # Len(handoffs) + 1 /\ handoffs'[h] = handoffs[h]
          /\ handoffs'[Len(handoffs) + 1] = [status |-> "requested", old |-> s, new |-> 0]
          /\ upkeep' = [pc |-> "requested", message |-> upkeep.message, session |-> s]
    BY <1>7, RequestEffect
  <2>2. UNCHANGED <<sessions, turn>>
    BY <1>7 DEF RequestHandoff
  <2>3. \A h \in DOMAIN handoffs' : Done(h)' => h \in DOMAIN handoffs /\ Done(h)
    BY <2>1 DEF Done
  <2>4. turn.pc \in {"thinking", "answered"} /\ turn.session = 0 => s = 0
    <3>1. turn.pc \in {"thinking", "answered"} /\ turn.session = 0 => Active = {}
      BY DEF SessionInv, NobodyElseCreates
    <3> QED BY <3>1, NewestIn
  <2>5. \A h \in DOMAIN handoffs : handoffs'[h].old = handoffs[h].old /\ (Done(h) => Done(h)')
    BY <2>1 DEF Done
  <2>6. DOMAIN handoffs \subseteq DOMAIN handoffs' /\ upkeep'.session = s
    BY <2>1
  <2> QED BY <1>1, <2>2, <2>3, <2>4, <2>5, <2>6
<1>8. CASE Skip \/ Summarize \/ ArchiveHandoff
  <2>1. HasHandoff /\ Len(handoffs) \in DOMAIN handoffs /\ ~Done(Len(handoffs)) /\ UNCHANGED <<sessions, turn>>
    BY <1>0, <1>8 DEF Skip, Summarize, ArchiveHandoff, HasHandoff, UpkeepOK, Done
  <2>2. PICK st \in {"skipped", "summarized", "archived"} : SetHandoff(st) /\ (Skip => st = "skipped")
    BY <1>8 DEF Skip, Summarize, ArchiveHandoff
  <2>3. /\ DOMAIN handoffs' = DOMAIN handoffs
        /\ \A h \in DOMAIN handoffs :
             /\ handoffs'[h].old = handoffs[h].old
             /\ handoffs'[h].status = IF h = Len(handoffs) THEN st ELSE handoffs[h].status
    BY <2>2, SetHandoffEffect
  <2>4. \A h \in DOMAIN handoffs : Done(h) => Done(h)'
    BY <2>1, <2>3 DEF Done
  <2>5. ASSUME turn.pc \in {"thinking", "answered"}, turn.session = 0
        PROVE  /\ \A h \in DOMAIN handoffs' : Done(h)' => h \in DOMAIN handoffs /\ Done(h)
               /\ ~HasHandoff'
    <3>1. upkeep.session = 0
      BY <2>1, <2>5 DEF TurnOK
    <3>2. Skip
      BY <1>8, <3>1 DEF Summarize, ArchiveHandoff, UpkeepOK
    <3>3. upkeep'.pc = "skipped"
      BY <3>2, TheUpkeep DEF Skip
    <3> QED BY <2>2, <2>3, <3>2, <3>3 DEF Done, HasHandoff
  <2> QED BY <1>1, <2>1, <2>3, <2>4, <2>5
<1>9. CASE ArchiveSession
  <2>1. UNCHANGED <<handoffs, turn>> /\ Len(sessions') = Len(sessions) /\ HasHandoff
        /\ upkeep'.session = upkeep.session
    BY <1>9, ArchiveEffect, TheUpkeep DEF ArchiveSession, HasHandoff
  <2>2. turn.pc \in {"thinking", "answered"} /\ turn.session = 0 => upkeep'.session = 0
    BY <2>1 DEF TurnOK
  <2> QED BY <1>1, <2>1, <2>2 DEF Done
<1>10. CASE UNCHANGED <<sessions, handoffs, turn, upkeep>>
  BY <1>10 DEF TurnOK, HasHandoff, Done
<1>11. ASSUME UNCHANGED <<sessions, handoffs, turn>>, ~HasHandoff'
       PROVE  TurnOK'
  BY <1>11 DEF TurnOK, HasHandoff, Done
<1>12. ASSUME \E i \in DOMAIN log : BeginUpkeep(i)
       PROVE  TurnOK'
  <2>1. PICK i : upkeep' = [upkeep EXCEPT !.pc = "claimed", !.message = i] /\ UNCHANGED <<sessions, handoffs, turn>>
    BY <1>12 DEF BeginUpkeep
  <2>2. ~HasHandoff'
    BY <2>1 DEF HasHandoff, SessionInv, LoopsOK
  <2> QED BY <1>11, <2>1, <2>2
<1>13. CASE AppendSkipped \/ AppendArchived \/ AppendHandoffCompleted
  <2>1. UNCHANGED <<sessions, handoffs, turn>> /\ upkeep'.pc \in {"handled", "announced"}
    BY <1>13, TheUpkeep DEF AppendSkipped, AppendArchived, AppendHandoffCompleted, Tell
  <2> QED BY <1>11, <2>1 DEF HasHandoff
<1>14. CASE AckUpkeep \/ UpkeepThrows
  <2>1. UNCHANGED <<sessions, handoffs, turn>> /\ upkeep' = NoUpkeep
    BY <1>14 DEF AckUpkeep, UpkeepThrows
  <2> QED BY <1>11, <2>1 DEF HasHandoff, NoUpkeep
<1> QED
  BY <1>2, <1>3, <1>4, <1>5, <1>6, <1>7, <1>8, <1>9, <1>10, <1>12, <1>13, <1>14
     DEF Next, TurnStep, UpkeepStep, vars, Arrive

LEMMA SuccessorStep ==
  ASSUME SessionInv, OnlyTheLastIsActive, HandoffsOK, UpkeepOK, TurnOK, SuccessorTakesNewest, [Next]_vars
  PROVE  SuccessorTakesNewest'
<1>0. /\ Len(sessions) \in Nat /\ DOMAIN sessions = 1..Len(sessions)
      /\ Len(handoffs) \in Nat /\ DOMAIN handoffs = 1..Len(handoffs)
  BY Tables
<1>00. \A s \in DOMAIN sessions, h \in DOMAIN handoffs :
         handoffs[h].old = s /\ Done(h) /\ s + 1 \in DOMAIN sessions => sessions[s + 1].handoff = h
  BY DEF SuccessorTakesNewest, Done
<1> SUFFICES ASSUME NEW s \in DOMAIN sessions', NEW h \in DOMAIN handoffs',
                    handoffs'[h].old = s, Done(h)', s + 1 \in DOMAIN sessions'
             PROVE  sessions'[s + 1].handoff = h
  BY DEF SuccessorTakesNewest, Done
<1>1. CASE UNCHANGED <<sessions, handoffs>>
  BY <1>00, <1>1 DEF Done
<1>2. CASE CreateSession
  <2>1. UNCHANGED handoffs /\ turn.pc = "answered" /\ turn.session = 0
    BY <1>2 DEF CreateSession
  <2>2. /\ DOMAIN sessions' = DOMAIN sessions \cup {Len(sessions) + 1}
        /\ \A t \in DOMAIN sessions : sessions'[t] = sessions[t]
        /\ sessions'[Len(sessions) + 1].handoff = turn.handoff
    BY <1>2, CreateEffect
  <2>3. Done(h) /\ handoffs[h].old = s
    BY <2>1 DEF Done
  <2>4. CASE s = Len(sessions)
    BY <2>1, <2>2, <2>3, <2>4 DEF TurnOK
  <2>5. CASE s # Len(sessions)
    <3>1. s \in DOMAIN sessions /\ s + 1 \in DOMAIN sessions
      BY <1>0, <2>2, <2>5
    <3> QED BY <1>00, <2>1, <2>2, <2>3, <3>1
  <2> QED BY <2>4, <2>5
<1>3. CASE ArchiveSession
  <2>1. UNCHANGED handoffs
    BY <1>3 DEF ArchiveSession
  <2> QED BY <1>00, <1>3, <2>1, ArchiveEffect DEF Done
<1>4. CASE RequestHandoff
  <2>1. UNCHANGED sessions
    BY <1>4 DEF RequestHandoff
  <2>2. /\ DOMAIN handoffs' = DOMAIN handoffs \cup {Len(handoffs) + 1}
        /\ \A k \in DOMAIN handoffs : handoffs'[k] = handoffs[k]
        /\ handoffs'[Len(handoffs) + 1].status = "requested"
    <3>1. PICK a \in Newest(Active) :
            /\ DOMAIN handoffs' = DOMAIN handoffs \cup {Len(handoffs) + 1}
            /\ \A k \in DOMAIN handoffs : handoffs'[k] = handoffs[k]
            /\ handoffs'[Len(handoffs) + 1] = [status |-> "requested", old |-> a, new |-> 0]
      BY <1>4, RequestEffect
    <3> QED BY <3>1
  <2>3. h \in DOMAIN handoffs /\ handoffs'[h] = handoffs[h]
    BY <2>2 DEF Done
  <2> QED BY <1>00, <2>1, <2>3 DEF Done
<1>5. CASE ActivateHandoff
  <2>1. UNCHANGED sessions
    BY <1>5 DEF ActivateHandoff
  <2>2. h \in DOMAIN handoffs /\ handoffs[h].old = s
    BY <1>5, ActivateEffect
  <2>3. Done(h)
    <3>1. CASE h = turn.handoff
      BY <1>0, <1>5, <2>2, <3>1 DEF TurnOK
    <3>2. CASE h # turn.handoff
      BY <1>5, <2>2, <3>2, ActivateEffect DEF Done
    <3> QED BY <3>1, <3>2
  <2> QED BY <1>00, <2>1, <2>2, <2>3
<1>6. CASE Skip \/ Summarize \/ ArchiveHandoff
  <2>1. UNCHANGED sessions
    BY <1>6 DEF Skip, Summarize, ArchiveHandoff
  <2>2. PICK st \in {"skipped", "summarized", "archived"} :
           SetHandoff(st) /\ (st = "archived" => ArchiveHandoff)
    BY <1>6 DEF Skip, Summarize, ArchiveHandoff
  <2>3. /\ h \in DOMAIN handoffs /\ handoffs[h].old = s
        /\ handoffs'[h].status = IF h = Len(handoffs) THEN st ELSE handoffs[h].status
    BY <2>2, SetHandoffEffect
  <2>4. CASE Done(h)
    BY <1>00, <2>1, <2>3, <2>4
  <2>5. CASE ~Done(h)
    <3>1. h = Len(handoffs) /\ st = "archived"
      BY <2>2, <2>3, <2>5 DEF Done
    <3>2. s \in {0, Len(sessions)}
      BY <2>2, <2>3, <3>1 DEF ArchiveHandoff, UpkeepOK, HasHandoff
    <3> QED BY <1>0, <2>1, <3>2
  <2> QED BY <2>4, <2>5
<1> QED BY <1>1, <1>2, <1>3, <1>4, <1>5, <1>6, SevenActionsWriteTables

-----------------------------------------------------------------------------
(* The deliveries and what the log says of them *)

Row == [status : {"none", "due", "running", "acked", "dead_letter"}, attempts : Nat]

RowsOK ==
  /\ rows \in [Group -> Seq(Row)]
  /\ \A g \in Group : Len(rows[g]) = Len(log)

(* The message in hand is in the log, and what was read is in the tables. *)
InHand ==
  /\ turn.message \in 0..Len(log) /\ turn.session \in 0..Len(sessions)
  /\ turn.round <= MaxToolIterations
  /\ turn.pc # "idle" => turn.message # 0
  /\ upkeep.message \in 0..Len(log) /\ upkeep.session \in 0..Len(sessions)
  /\ upkeep.pc # "idle" => upkeep.message # 0

BooksOK ==
  /\ told \subseteq Hub!MessageTypes \X (DOMAIN log)
  /\ \A h \in DOMAIN handoffs : handoffs[h].new \in 0..Len(sessions)
  /\ throws \in 0..MaxThrows
  /\ crashes \in 0..MaxCrashes

(* A handler that has returned has said so. *)
HandledIsTold ==
  /\ turn.pc = "handled" => Told(turn.message, {"event.supervisor.turn_completed"})
  /\ upkeep.pc = "handled" =>
       Told(upkeep.message, {"event.maintenance.handoff_completed", "event.maintenance.handoff_skipped"})

DeliveryInv == RowsOK /\ InHand /\ BooksOK /\ HandledIsTold /\ AckedIsTold

LEMMA SequenceOf ==
  ASSUME NEW S, NEW T, NEW q \in Seq(S), \A i \in DOMAIN q : q[i] \in T
  PROVE  q \in Seq(T)
<1>1. Len(q) \in Nat /\ DOMAIN q = 1..Len(q)
  OBVIOUS
<1>2. q = [i \in 1..Len(q) |-> q[i]]
  BY <1>1
<1> QED BY <1>1, <1>2

LEMMA RowsOfGroup ==
  ASSUME RowsOK, SessionInv, NEW g \in Group
  PROVE  /\ rows[g] \in Seq(Row) /\ DOMAIN rows[g] = DOMAIN log
         /\ \A i \in DOMAIN log : rows[g][i] \in Row
<1>1. rows[g] \in Seq(Row) /\ Len(rows[g]) = Len(log)
  BY DEF RowsOK
<1>2. Len(log) \in Nat /\ DOMAIN log = 1..Len(log)
  BY Tables
<1> QED BY <1>1, <1>2

(* One row changes. *)
LEMMA RowChanges ==
  ASSUME SessionInv, RowsOK, UNCHANGED log, NEW g \in Group, NEW i \in DOMAIN log, NEW e \in Row,
         rows' = [rows EXCEPT ![g] = [rows[g] EXCEPT ![i] = e]]
  PROVE  /\ RowsOK'
         /\ \A f \in Group, k \in DOMAIN log :
              rows'[f][k] = IF f = g /\ k = i THEN e ELSE rows[f][k]
<1>1. rows[g] \in Seq(Row) /\ DOMAIN rows[g] = DOMAIN log
  BY RowsOfGroup
<1> DEFINE q == [rows[g] EXCEPT ![i] = e]
<1>2. /\ q \in Seq(Row) /\ Len(q) = Len(rows[g])
      /\ \A k \in DOMAIN log : q[k] = IF k = i THEN e ELSE rows[g][k]
  BY <1>1, EntryChanges
<1>3. rows' = [rows EXCEPT ![g] = q]
  OBVIOUS
<1> HIDE DEF q
<1>4. rows' \in [Group -> Seq(Row)] /\ \A f \in Group : rows'[f] = IF f = g THEN q ELSE rows[f]
  BY <1>2, <1>3 DEF RowsOK
<1>5. RowsOK'
  BY <1>2, <1>4 DEF RowsOK
<1> QED BY <1>2, <1>4, <1>5

LEMMA SettleEffect ==
  ASSUME SessionInv, RowsOK, UNCHANGED log, NEW g \in Group, NEW i \in DOMAIN log,
         NEW s \in {"none", "due", "running", "acked", "dead_letter"}, Settle(g, i, s)
  PROVE  /\ RowsOK'
         /\ \A f \in Group, k \in DOMAIN log :
              rows'[f][k].status = IF f = g /\ k = i THEN s ELSE rows[f][k].status
<1>1. PICK e : e = [rows[g][i] EXCEPT !.status = s]
  OBVIOUS
<1>2. rows[g][i] \in Row
  BY RowsOfGroup
<1>3. e \in Row /\ e.status = s
  BY <1>1, <1>2 DEF Row
<1>4. rows' = [rows EXCEPT ![g] = [rows[g] EXCEPT ![i] = e]]
  BY <1>1 DEF Settle
<1>5. /\ RowsOK'
      /\ \A f \in Group, k \in DOMAIN log : rows'[f][k] = IF f = g /\ k = i THEN e ELSE rows[f][k]
  BY ONLY ZenonT(40), SessionInv, RowsOK, UNCHANGED log, g \in Group, i \in DOMAIN log, <1>3, <1>4, RowChanges
<1> QED BY <1>3, <1>5

LEMMA ClaimEffect ==
  ASSUME SessionInv, RowsOK, UNCHANGED log, NEW g \in Group, NEW i \in DOMAIN log,
         rows' = [rows EXCEPT ![g][i] = Claimed(@)]
  PROVE  /\ RowsOK'
         /\ \A f \in Group, k \in DOMAIN log :
              rows'[f][k].status = IF f = g /\ k = i THEN "running" ELSE rows[f][k].status
<1> DEFINE e == Claimed(rows[g][i])
<1>1. e \in Row /\ e.status = "running"
  <2>1. rows[g][i] \in Row
    BY RowsOfGroup
  <2>2. ASSUME NEW r \in Row
        PROVE  Claimed(r) \in Row /\ Claimed(r).status = "running"
    <3>1. r \in [status : {"none", "due", "running", "acked", "dead_letter"}, attempts : Nat]
      BY DEF Row
    <3>2. PICK n : n = r.attempts + 1
      OBVIOUS
    <3>3. n \in Nat
      BY <3>1, <3>2
    <3>4. Claimed(r) = [r EXCEPT !.status = "running", !.attempts = n]
      BY <3>2 DEF Claimed
    <3> QED BY <3>1, <3>3, <3>4 DEF Row
  <2> QED BY <2>1, <2>2
<1>2. rows' = [rows EXCEPT ![g] = [rows[g] EXCEPT ![i] = e]]
  OBVIOUS
<1> HIDE DEF e
<1>4. e \in Row
  BY <1>1
<1>3. /\ RowsOK'
      /\ \A f \in Group, k \in DOMAIN log : rows'[f][k] = IF f = g /\ k = i THEN e ELSE rows[f][k]
  BY ONLY SessionInv, RowsOK, UNCHANGED log, g \in Group, i \in DOMAIN log, <1>2, <1>4, RowChanges
<1> QED BY <1>1, <1>3

LEMMA ArriveEffect ==
  ASSUME SessionInv, RowsOK, NEW type \in {Trigger, Request}, NEW bound, Arrive(type, bound)
  PROVE  /\ RowsOK'
         /\ Len(log') = Len(log) + 1 /\ DOMAIN log' = DOMAIN log \cup {Len(log) + 1}
         /\ \A f \in Group : /\ \A k \in DOMAIN log : k # Len(log) + 1 /\ rows'[f][k] = rows[f][k]
                             /\ rows'[f][Len(log) + 1].status \in {"due", "none"}
<1> DEFINE e(g) == [status |-> IF g \in Readers(type) THEN "due" ELSE "none", attempts |-> 0]
<1>1. \A g : e(g) \in Row /\ e(g).status \in {"due", "none"}
  BY DEF Row
<1>2. rows' = [g \in Group |-> Append(rows[g], e(g))] /\ log' = Append(log, type)
  BY DEF Arrive
<1>3. log \in Seq({Trigger, Request})
  BY DEF SessionInv, LoopsOK
<1> HIDE DEF e
<1>4. /\ Len(log) \in Nat /\ DOMAIN log = 1..Len(log)
      /\ Len(log') = Len(log) + 1 /\ DOMAIN log' = DOMAIN log \cup {Len(log) + 1}
  BY <1>2, <1>3
<1>5. ASSUME NEW f \in Group
      PROVE  /\ rows'[f] \in Seq(Row) /\ Len(rows'[f]) = Len(log) + 1
             /\ \A k \in DOMAIN log : k # Len(log) + 1 /\ rows'[f][k] = rows[f][k]
             /\ rows'[f][Len(log) + 1] = e(f)
  <2>1. rows[f] \in Seq(Row) /\ Len(rows[f]) = Len(log)
    BY DEF RowsOK
  <2>2. rows'[f] = Append(rows[f], e(f)) /\ e(f) \in Row
    BY <1>1, <1>2
  <2> QED BY <1>4, <2>1, <2>2
<1>6. RowsOK'
  BY <1>2, <1>4, <1>5 DEF RowsOK
<1> QED BY <1>1, <1>4, <1>5, <1>6

LEMMA CrashEffect ==
  ASSUME SessionInv, RowsOK, Crash
  PROVE  /\ RowsOK'
         /\ \A f \in Group, k \in DOMAIN log : rows'[f][k].status \in {"due", rows[f][k].status}
<1> DEFINE e(g, i) == IF rows[g][i].status = "running" THEN [rows[g][i] EXCEPT !.status = "due"]
                                                       ELSE rows[g][i]
<1>1. \A g \in Group, i \in DOMAIN log : e(g, i) \in Row /\ e(g, i).status \in {"due", rows[g][i].status}
  BY RowsOfGroup DEF Row
<1>2. rows' = [g \in Group |-> [i \in DOMAIN log |-> e(g, i)]] /\ UNCHANGED log
  BY DEF Crash
<1>3. Len(log) \in Nat /\ DOMAIN log = 1..Len(log)
  BY Tables
<1> HIDE DEF e
<1>4. ASSUME NEW f \in Group
      PROVE  /\ rows'[f] \in Seq(Row) /\ Len(rows'[f]) = Len(log)
             /\ \A k \in DOMAIN log : rows'[f][k] = e(f, k)
  <2>1. rows'[f] = [i \in 1..Len(log) |-> e(f, i)]
    BY <1>2, <1>3
  <2>2. [i \in 1..Len(log) |-> e(f, i)] \in [1..Len(log) -> Row]
    BY <1>1, <1>3
  <2>3. [i \in 1..Len(log) |-> e(f, i)] \in Seq(Row) /\ Len([i \in 1..Len(log) |-> e(f, i)]) = Len(log)
    BY <1>3, <2>2, FunctionIsSequence
  <2> QED BY <1>3, <2>1, <2>3
<1>5. RowsOK'
  BY <1>2, <1>4 DEF RowsOK
<1> QED BY <1>1, <1>4, <1>5

(* The rows keep their types, and only the acks ack. *)
LEMMA RowsStep ==
  ASSUME SessionInv, RowsOK, InHand, [Next]_vars
  PROVE  /\ RowsOK'
         /\ \A f \in Group, k \in DOMAIN log' :
              rows'[f][k].status = "acked" =>
                \/ k \in DOMAIN log /\ rows[f][k].status = "acked"
                \/ AckTurn /\ f = "supervisor_group" /\ k = turn.message
                \/ AckUpkeep /\ f = "maintenance_group" /\ k = upkeep.message
<1> USE DEF hub, tables
<1>0. /\ Len(log) \in Nat /\ DOMAIN log = 1..Len(log)
      /\ turn.pc # "idle" => turn.message \in DOMAIN log
      /\ upkeep.pc # "idle" => upkeep.message \in DOMAIN log
      /\ {"supervisor_group", "maintenance_group"} = Group
  BY Tables DEF InHand, Group
<1>1. ASSUME NEW type \in {Trigger, Request}, NEW bound, Arrive(type, bound)
      PROVE  /\ RowsOK'
             /\ \A f \in Group, k \in DOMAIN log' :
                  rows'[f][k].status = "acked" => k \in DOMAIN log /\ rows[f][k].status = "acked"
  BY <1>1, ArriveEffect
<1>2. ASSUME NEW i \in DOMAIN log, BeginTurn(i) \/ BeginUpkeep(i)
      PROVE  /\ RowsOK' /\ UNCHANGED log
             /\ \A f \in Group, k \in DOMAIN log :
                  rows'[f][k].status = "acked" => rows[f][k].status = "acked"
  <2>1. PICK g \in Group : rows' = [rows EXCEPT ![g][i] = Claimed(@)]
    BY <1>0, <1>2 DEF BeginTurn, BeginUpkeep
  <2>2. UNCHANGED log
    BY <1>2 DEF BeginTurn, BeginUpkeep
  <2>3. /\ RowsOK'
        /\ \A f \in Group, k \in DOMAIN log :
             rows'[f][k].status = IF f = g /\ k = i THEN "running" ELSE rows[f][k].status
    BY <2>1, <2>2, ClaimEffect
  <2> QED BY <2>2, <2>3
<1>3. CASE AckTurn
  <2>1. /\ Settle("supervisor_group", turn.message, "acked") /\ UNCHANGED log
        /\ turn.message \in DOMAIN log /\ "supervisor_group" \in Group
    BY <1>0, <1>3 DEF AckTurn
  <2>2. /\ RowsOK'
        /\ \A f \in Group, k \in DOMAIN log :
             rows'[f][k].status = IF f = "supervisor_group" /\ k = turn.message THEN "acked"
                                                                               ELSE rows[f][k].status
    BY <2>1, SettleEffect
  <2> QED BY <1>3, <2>1, <2>2
<1>4. CASE AckUpkeep
  <2>1. /\ Settle("maintenance_group", upkeep.message, "acked") /\ UNCHANGED log
        /\ upkeep.message \in DOMAIN log /\ "maintenance_group" \in Group
    BY <1>0, <1>4 DEF AckUpkeep
  <2>2. /\ RowsOK'
        /\ \A f \in Group, k \in DOMAIN log :
             rows'[f][k].status = IF f = "maintenance_group" /\ k = upkeep.message THEN "acked"
                                                                                  ELSE rows[f][k].status
    BY <2>1, SettleEffect
  <2> QED BY <1>4, <2>1, <2>2
<1>5. ASSUME NEW g \in Group, NEW i \in DOMAIN log, UNCHANGED log, Fail(g, i)
      PROVE  /\ RowsOK'
             /\ \A f \in Group, k \in DOMAIN log :
                  rows'[f][k].status = "acked" => rows[f][k].status = "acked"
  <2>1. PICK st \in {"dead_letter", "due"} : Settle(g, i, st)
    BY <1>5 DEF Fail
  <2>2. /\ RowsOK'
        /\ \A f \in Group, k \in DOMAIN log :
             rows'[f][k].status = IF f = g /\ k = i THEN st ELSE rows[f][k].status
    BY <1>5, <2>1, SettleEffect
  <2> QED BY <2>2
<1>6. CASE TurnThrows
  <2>1. Fail("supervisor_group", turn.message) /\ UNCHANGED log /\ turn.message \in DOMAIN log
    BY <1>0, <1>6 DEF TurnThrows
  <2> QED BY <1>0, <1>5, <2>1
<1>7. CASE UpkeepThrows
  <2>1. Fail("maintenance_group", upkeep.message) /\ UNCHANGED log /\ upkeep.message \in DOMAIN log
    BY <1>0, <1>7 DEF UpkeepThrows
  <2> QED BY <1>0, <1>5, <2>1
<1>8. CASE Crash
  <2>1. UNCHANGED log
    BY <1>8 DEF Crash
  <2>2. RowsOK' /\ \A f \in Group, k \in DOMAIN log : rows'[f][k].status \in {"due", rows[f][k].status}
    BY <1>8, CrashEffect
  <2> QED BY <2>1, <2>2
<1>9. CASE UNCHANGED <<log, rows>>
  BY <1>9 DEF RowsOK
<1> QED
  BY <1>1, <1>2, <1>3, <1>4, <1>6, <1>7, <1>8, <1>9
     DEF Next, vars, TurnStep, UpkeepStep, AskForTools, Answer, CreateSession, ActivateHandoff, CompleteTurn,
         RequestHandoff, Skip, AppendSkipped, Summarize, ArchiveSession, ArchiveHandoff, AppendArchived,
         AppendHandoffCompleted, Tell

(* Nothing is taken back. *)
LEMMA TablesGrow ==
  ASSUME SessionInv, [Next]_vars
  PROVE  /\ Len(log) \in Nat /\ Len(log') \in Nat /\ Len(log) <= Len(log')
         /\ Len(sessions) \in Nat /\ Len(sessions') \in Nat /\ Len(sessions) <= Len(sessions')
         /\ DOMAIN log = 1..Len(log) /\ DOMAIN log' = 1..Len(log')
         /\ told \subseteq told'
<1>1. SessionInv'
  BY SessionInvStep
<1>2. /\ Len(log) \in Nat /\ DOMAIN log = 1..Len(log) /\ Len(sessions) \in Nat
  BY Tables
<1>3. /\ Len(log') \in Nat /\ DOMAIN log' = 1..Len(log') /\ Len(sessions') \in Nat
  BY SMTT(30), <1>1 DEF SessionInv, TablesOK, LoopsOK
<1>4. Len(sessions) <= Len(sessions')
  BY <1>2, TwoActionsWriteSessions, CreateEffect, ArchiveEffect
<1>5. told \subseteq told'
  BY DEF Next, vars, TurnStep, UpkeepStep, Arrive, BeginTurn, AskForTools, Answer, CreateSession,
         ActivateHandoff, CompleteTurn, AckTurn, BeginUpkeep, RequestHandoff, Skip, AppendSkipped, Summarize,
         ArchiveSession, ArchiveHandoff, AppendArchived, AppendHandoffCompleted, AckUpkeep, TurnThrows,
         UpkeepThrows, Crash, Tell, tables, hub
<1>6. UNCHANGED log \/ \E type, bound : Arrive(type, bound)
  BY DEF Next, vars, TurnStep, UpkeepStep, BeginTurn, AskForTools, Answer, CreateSession,
         ActivateHandoff, CompleteTurn, AckTurn, BeginUpkeep, RequestHandoff, Skip, AppendSkipped, Summarize,
         ArchiveSession, ArchiveHandoff, AppendArchived, AppendHandoffCompleted, AckUpkeep, TurnThrows,
         UpkeepThrows, Crash, Tell, tables, hub
<1>7. Len(log) <= Len(log')
  <2>1. ASSUME NEW type, NEW bound, Arrive(type, bound)
        PROVE  Len(log') = Len(log) + 1
    BY <2>1 DEF Arrive, SessionInv, LoopsOK
  <2> QED BY <1>2, <1>6, <2>1
<1> QED BY <1>2, <1>3, <1>4, <1>5, <1>7

LEMMA InHandStep ==
  ASSUME SessionInv, InHand, [Next]_vars
  PROVE  InHand'
<1> USE DEF tables, hub
<1>0. /\ Len(log) \in Nat /\ Len(log') \in Nat /\ Len(log) <= Len(log')
      /\ Len(sessions) \in Nat /\ Len(sessions') \in Nat /\ Len(sessions) <= Len(sessions')
      /\ DOMAIN log = 1..Len(log)
      /\ MaxToolIterations \in Nat
  BY TablesGrow, LimitsAssumption
<1>1. /\ turn.message \in 0..Len(log') /\ turn.session \in 0..Len(sessions')
      /\ upkeep.message \in 0..Len(log') /\ upkeep.session \in 0..Len(sessions')
  BY <1>0 DEF InHand
<1>2. /\ turn \in [pc : {"idle", "thinking", "answered", "created", "recorded", "handled"},
                   message : Nat, session : Nat, handoff : Nat, round : Nat]
      /\ upkeep \in [pc : {"idle", "claimed", "requested", "skipped", "summarized",
                           "sessionArchived", "archived", "announced", "handled"},
                     message : Nat, session : Nat]
  BY DEF SessionInv, LoopsOK
<1>3. \A s \in Newest(Active) : s \in 0..Len(sessions')
  BY <1>0, Tables, NewestIn DEF Active
<1>4. /\ turn'.message \in 0..Len(log') /\ turn'.session \in 0..Len(sessions')
      /\ turn'.round <= MaxToolIterations
      /\ turn'.pc # "idle" => turn'.message # 0
  <2>1. CASE UNCHANGED turn
    BY <1>1, <2>1 DEF InHand
  <2>2. CASE turn' = NoTurn
    BY <1>0, <2>2 DEF NoTurn
  <2>3. ASSUME NEW i \in DOMAIN log, BeginTurn(i)
        PROVE  /\ turn'.message \in 0..Len(log') /\ turn'.session \in 0..Len(sessions')
               /\ turn'.round <= MaxToolIterations /\ turn'.message # 0
    <3>1. PICK s \in Newest(Active), h \in IF Active = {} THEN PendingHandoff ELSE {0} :
            turn' = [pc |-> "thinking", message |-> i, session |-> s, handoff |-> h, round |-> 0]
      BY <2>3 DEF BeginTurn
    <3>2. /\ turn'.message = i /\ turn'.session = s /\ turn'.round = 0
      BY <3>1
    <3> QED BY <1>0, <1>3, <3>2
  <2>4. CASE AskForTools
    <3>1. /\ turn.pc # "idle" /\ turn'.message = turn.message /\ turn'.session = turn.session
          /\ turn'.round = turn.round \/ (turn'.round = turn.round + 1 /\ turn.round # MaxToolIterations)
      BY <1>2, <2>4 DEF AskForTools, LastRound
    <3>2. turn.round \in Nat
      BY <1>2
    <3> QED BY <1>0, <1>1, <3>1, <3>2 DEF InHand
  <2>5. CASE Answer \/ CreateSession \/ ActivateHandoff \/ CompleteTurn
    <3>1. /\ turn.pc # "idle" /\ turn'.message = turn.message /\ turn'.session = turn.session
          /\ turn'.round = turn.round
      BY <1>2, <2>5 DEF Answer, CreateSession, ActivateHandoff, CompleteTurn
    <3> QED BY <1>1, <3>1 DEF InHand
  <2> QED
    BY <2>1, <2>2, <2>3, <2>4, <2>5
       DEF Next, vars, TurnStep, UpkeepStep, Arrive, AckTurn, BeginUpkeep, RequestHandoff, Skip, AppendSkipped,
           Summarize, ArchiveSession, ArchiveHandoff, AppendArchived, AppendHandoffCompleted, AckUpkeep,
           TurnThrows, UpkeepThrows, Crash
<1>5. /\ upkeep'.message \in 0..Len(log') /\ upkeep'.session \in 0..Len(sessions')
      /\ upkeep'.pc # "idle" => upkeep'.message # 0
  <2>1. CASE UNCHANGED upkeep
    BY <1>1, <2>1 DEF InHand
  <2>2. CASE upkeep' = NoUpkeep
    BY <1>0, <2>2 DEF NoUpkeep
  <2>3. ASSUME NEW i \in DOMAIN log, BeginUpkeep(i)
        PROVE  /\ upkeep'.message \in 0..Len(log') /\ upkeep'.session \in 0..Len(sessions')
               /\ upkeep'.message # 0
    <3>1. upkeep'.message = i /\ upkeep'.session = upkeep.session
      BY <1>2, <2>3 DEF BeginUpkeep
    <3> QED BY <1>0, <1>1, <3>1
  <2>4. CASE RequestHandoff
    <3>1. PICK s \in Newest(Active) :
            upkeep' = [pc |-> "requested", message |-> upkeep.message, session |-> s]
      BY <2>4, RequestEffect
    <3>2. upkeep.pc # "idle"
      BY <2>4 DEF RequestHandoff
    <3> QED BY <1>1, <1>3, <3>1, <3>2 DEF InHand
  <2>5. CASE \/ Skip \/ AppendSkipped \/ Summarize \/ ArchiveSession \/ ArchiveHandoff
             \/ AppendArchived \/ AppendHandoffCompleted
    <3>1. upkeep.pc # "idle" /\ upkeep'.message = upkeep.message /\ upkeep'.session = upkeep.session
      BY <1>2, <2>5 DEF Skip, AppendSkipped, Summarize, ArchiveSession, ArchiveHandoff, AppendArchived,
                        AppendHandoffCompleted
    <3> QED BY <1>1, <3>1 DEF InHand
  <2> QED
    BY <2>1, <2>2, <2>3, <2>4, <2>5
       DEF Next, vars, TurnStep, UpkeepStep, Arrive, BeginTurn, AskForTools, Answer, CreateSession,
           ActivateHandoff, CompleteTurn, AckTurn, AckUpkeep, TurnThrows, UpkeepThrows, Crash
<1> QED BY <1>4, <1>5 DEF InHand

(* What a step says, it says of the message in hand. *)
LEMMA TellStep ==
  ASSUME SessionInv, InHand, [Next]_vars
  PROVE  \/ told' = told
         \/ \E type \in Hub!MessageTypes, i \in DOMAIN log : told' = told \cup {<<type, i>>}
<1> USE DEF tables, hub
<1>0. /\ turn.pc # "idle" => turn.message \in DOMAIN log
      /\ upkeep.pc # "idle" => upkeep.message \in DOMAIN log
  BY Tables DEF InHand
<1>1. {"event.supervisor.turn_completed", "event.maintenance.handoff_skipped", "event.session.archived",
       "event.maintenance.handoff_completed"} \subseteq Hub!MessageTypes
  BY DEF Hub!MessageTypes, Hub!ProjectedTypes, Hub!MaintenanceTypes
<1>2. CASE CompleteTurn
  BY <1>0, <1>1, <1>2 DEF CompleteTurn, Tell
<1>3. CASE AppendSkipped
  BY <1>0, <1>1, <1>3 DEF AppendSkipped, Tell
<1>4. CASE AppendArchived
  BY <1>0, <1>1, <1>4 DEF AppendArchived, Tell
<1>5. CASE AppendHandoffCompleted
  BY <1>0, <1>1, <1>5 DEF AppendHandoffCompleted, Tell
<1> QED
  BY <1>2, <1>3, <1>4, <1>5
     DEF Next, vars, TurnStep, UpkeepStep, Arrive, BeginTurn, AskForTools, Answer, CreateSession,
         ActivateHandoff, AckTurn, BeginUpkeep, RequestHandoff, Skip, Summarize,
         ArchiveSession, ArchiveHandoff, AckUpkeep, TurnThrows, UpkeepThrows, Crash

LEMMA BooksStep ==
  ASSUME SessionInv, InHand, BooksOK, [Next]_vars
  PROVE  BooksOK'
<1>0. /\ Len(log) \in Nat /\ Len(log') \in Nat /\ Len(log) <= Len(log')
      /\ Len(sessions) \in Nat /\ Len(sessions') \in Nat /\ Len(sessions) <= Len(sessions')
      /\ DOMAIN log = 1..Len(log) /\ DOMAIN log' = 1..Len(log')
  BY TablesGrow
<1>1. told' \subseteq Hub!MessageTypes \X (DOMAIN log')
  <2>1. DOMAIN log \subseteq DOMAIN log'
    BY <1>0
  <2> QED BY <2>1, TellStep DEF BooksOK
<1>2. \A h \in DOMAIN handoffs' : handoffs'[h].new \in 0..Len(sessions')
  <2>1. CASE UNCHANGED handoffs
    BY <1>0, <2>1 DEF BooksOK
  <2>2. CASE RequestHandoff
    <3>1. PICK s \in Newest(Active) :
            /\ DOMAIN handoffs' = DOMAIN handoffs \cup {Len(handoffs) + 1}
            /\ \A h \in DOMAIN handoffs : handoffs'[h] = handoffs[h]
            /\ handoffs'[Len(handoffs) + 1] = [status |-> "requested", old |-> s, new |-> 0]
      BY <2>2, RequestEffect
    <3>2. handoffs'[Len(handoffs) + 1].new = 0
      BY <3>1
    <3> QED BY <1>0, <3>1, <3>2 DEF BooksOK
  <2>3. CASE ActivateHandoff
    <3>1. /\ DOMAIN handoffs' = DOMAIN handoffs
          /\ \A h \in DOMAIN handoffs : handoffs'[h].new \in {handoffs[h].new, Len(sessions)}
      BY <2>3, ActivateEffect
    <3> QED BY <1>0, <3>1 DEF BooksOK
  <2>4. CASE \E s \in {"skipped", "summarized", "archived"} : SetHandoff(s)
    <3>1. /\ DOMAIN handoffs' = DOMAIN handoffs
          /\ \A h \in DOMAIN handoffs : handoffs'[h].new = handoffs[h].new
      BY <2>4, SetHandoffEffect
    <3> QED BY <1>0, <3>1 DEF BooksOK
  <2> QED BY <2>1, <2>2, <2>3, <2>4, FourActionsWriteHandoffs
<1>3. throws' \in 0..MaxThrows /\ crashes' \in 0..MaxCrashes
  <2>1. /\ throws' = throws \/ (throws < MaxThrows /\ throws' = throws + 1)
        /\ crashes' = crashes \/ (crashes < MaxCrashes /\ crashes' = crashes + 1)
    BY DEF Next, vars, TurnStep, UpkeepStep, Arrive, BeginTurn, AskForTools, Answer, CreateSession,
           ActivateHandoff, CompleteTurn, AckTurn, BeginUpkeep, RequestHandoff, Skip, AppendSkipped, Summarize,
           ArchiveSession, ArchiveHandoff, AppendArchived, AppendHandoffCompleted, AckUpkeep, TurnThrows,
           UpkeepThrows, Crash, bounds
  <2>2. throws \in 0..MaxThrows /\ crashes \in 0..MaxCrashes /\ MaxThrows \in Nat /\ MaxCrashes \in Nat
    BY LimitsAssumption DEF BooksOK
  <2> QED BY <2>1, <2>2
<1> QED BY <1>1, <1>2, <1>3 DEF BooksOK

LEMMA HandledStep ==
  ASSUME SessionInv, HandledIsTold, [Next]_vars
  PROVE  HandledIsTold'
<1> USE DEF tables, hub
<1>0. /\ told \subseteq told'
      /\ turn \in [pc : {"idle", "thinking", "answered", "created", "recorded", "handled"},
                   message : Nat, session : Nat, handoff : Nat, round : Nat]
      /\ upkeep \in [pc : {"idle", "claimed", "requested", "skipped", "summarized",
                           "sessionArchived", "archived", "announced", "handled"},
                     message : Nat, session : Nat]
  BY TablesGrow DEF SessionInv, LoopsOK
<1>1. turn'.pc = "handled" => Told(turn.message, {"event.supervisor.turn_completed"})'
  <2>1. CASE CompleteTurn
    <3>1. turn'.message = turn.message /\ <<"event.supervisor.turn_completed", turn.message>> \in told'
      BY <1>0, <2>1 DEF CompleteTurn, Tell
    <3> QED BY <3>1 DEF Told
  <2>2. CASE UNCHANGED turn
    BY <1>0, <2>2 DEF HandledIsTold, Told
  <2>3. ASSUME turn'.pc # "handled"
        PROVE  turn'.pc = "handled" => Told(turn.message, {"event.supervisor.turn_completed"})'
    BY <2>3
  <2>4. CASE AskForTools \/ Answer \/ CreateSession \/ ActivateHandoff
    <3>1. turn'.pc # "handled"
      BY <1>0, <2>4 DEF AskForTools, Answer, CreateSession, ActivateHandoff
    <3> QED BY <3>1
  <2>5. CASE turn' = NoTurn
    BY <2>5 DEF NoTurn
  <2>6. ASSUME NEW i \in DOMAIN log, BeginTurn(i)
        PROVE  turn'.pc # "handled"
    <3>1. PICK s, h : turn' = [pc |-> "thinking", message |-> i, session |-> s, handoff |-> h, round |-> 0]
      BY <2>6 DEF BeginTurn
    <3> QED BY <3>1
  <2> QED
    BY <2>1, <2>2, <2>4, <2>5, <2>6
       DEF Next, vars, TurnStep, UpkeepStep, Arrive, AckTurn, BeginUpkeep, RequestHandoff, Skip, AppendSkipped,
           Summarize, ArchiveSession, ArchiveHandoff, AppendArchived, AppendHandoffCompleted, AckUpkeep,
           TurnThrows, UpkeepThrows, Crash
<1>2. upkeep'.pc = "handled" =>
        Told(upkeep.message, {"event.maintenance.handoff_completed", "event.maintenance.handoff_skipped"})'
  <2>1. CASE AppendSkipped \/ AppendHandoffCompleted
    <3>1. /\ upkeep'.message = upkeep.message
          /\ \/ <<"event.maintenance.handoff_completed", upkeep.message>> \in told'
             \/ <<"event.maintenance.handoff_skipped", upkeep.message>> \in told'
      BY <1>0, <2>1 DEF AppendSkipped, AppendHandoffCompleted, Tell
    <3> QED BY <3>1 DEF Told
  <2>2. CASE UNCHANGED upkeep
    BY <1>0, <2>2 DEF HandledIsTold, Told
  <2>3. CASE Skip \/ Summarize \/ ArchiveSession \/ ArchiveHandoff \/ AppendArchived
    <3>1. upkeep'.pc # "handled"
      BY <1>0, <2>3 DEF Skip, Summarize, ArchiveSession, ArchiveHandoff, AppendArchived
    <3> QED BY <3>1
  <2>4. CASE upkeep' = NoUpkeep
    BY <2>4 DEF NoUpkeep
  <2>5. ASSUME NEW i \in DOMAIN log, BeginUpkeep(i)
        PROVE  upkeep'.pc # "handled"
    BY <1>0, <2>5 DEF BeginUpkeep
  <2>6. CASE RequestHandoff
    <3>1. PICK s : upkeep' = [pc |-> "requested", message |-> upkeep.message, session |-> s]
      BY <2>6, RequestEffect
    <3> QED BY <3>1
  <2> QED
    BY <2>1, <2>2, <2>3, <2>4, <2>5, <2>6
       DEF Next, vars, TurnStep, UpkeepStep, Arrive, BeginTurn, AskForTools, Answer, CreateSession,
           ActivateHandoff, CompleteTurn, AckTurn, AckUpkeep, TurnThrows, UpkeepThrows, Crash
<1> QED BY <1>1, <1>2 DEF HandledIsTold

LEMMA AckedStep ==
  ASSUME SessionInv, RowsOK, InHand, HandledIsTold, AckedIsTold, [Next]_vars
  PROVE  AckedIsTold'
<1>0. /\ told \subseteq told'
      /\ "supervisor_group" \in Group /\ "maintenance_group" \in Group
      /\ "supervisor_group" # "maintenance_group"
  BY TablesGrow DEF Group
<1> SUFFICES ASSUME NEW i \in DOMAIN log'
             PROVE  /\ rows'["supervisor_group"][i].status = "acked" =>
                         Told(i, {"event.supervisor.turn_completed"})'
                    /\ rows'["maintenance_group"][i].status = "acked" =>
                         Told(i, {"event.maintenance.handoff_completed",
                                  "event.maintenance.handoff_skipped"})'
  BY DEF AckedIsTold
<1>1. ASSUME rows'["supervisor_group"][i].status = "acked"
      PROVE  Told(i, {"event.supervisor.turn_completed"})'
  <2>1. \/ i \in DOMAIN log /\ rows["supervisor_group"][i].status = "acked"
        \/ AckTurn /\ i = turn.message
    BY <1>0, <1>1, RowsStep
  <2>2. Told(i, {"event.supervisor.turn_completed"})
    BY <2>1 DEF AckedIsTold, HandledIsTold, AckTurn
  <2> QED BY <1>0, <2>2 DEF Told
<1>2. ASSUME rows'["maintenance_group"][i].status = "acked"
      PROVE  Told(i, {"event.maintenance.handoff_completed", "event.maintenance.handoff_skipped"})'
  <2>1. \/ i \in DOMAIN log /\ rows["maintenance_group"][i].status = "acked"
        \/ AckUpkeep /\ i = upkeep.message
    BY <1>0, <1>2, RowsStep
  <2>2. Told(i, {"event.maintenance.handoff_completed", "event.maintenance.handoff_skipped"})
    BY <2>1 DEF AckedIsTold, HandledIsTold, AckUpkeep
  <2> QED BY <1>0, <2>2 DEF Told
<1> QED BY <1>1, <1>2

-----------------------------------------------------------------------------
(* The theorems *)

LEMMA SuccessionHolds == Spec => []SuccessionInv
<1>1. Init => SuccessionInv
  BY DEF Init, SuccessionInv, OnlyTheLastIsActive, Active, HandoffsOK, UpkeepOK, HasHandoff, TurnOK, NoTurn,
         NoUpkeep, SuccessorTakesNewest
<1>2. SessionInv /\ SuccessionInv /\ [Next]_vars => SuccessionInv'
  BY OnlyLastStep, HandoffsStep, UpkeepOKStep, TurnOKStep, SuccessorStep DEF SuccessionInv
<1> QED BY <1>1, <1>2, SessionInvariant, PTL DEF Spec

LEMMA DeliveryInvHolds == Spec => []DeliveryInv
<1>1. Init => DeliveryInv
  BY LimitsAssumption
     DEF Init, DeliveryInv, RowsOK, InHand, BooksOK, HandledIsTold, AckedIsTold, NoTurn, NoUpkeep
<1>2. SessionInv /\ DeliveryInv /\ [Next]_vars => DeliveryInv'
  BY RowsStep, InHandStep, BooksStep, HandledStep, AckedStep DEF DeliveryInv
<1> QED BY <1>1, <1>2, SessionInvariant, PTL DEF Spec

(* Every table, delivery and loop has its type: what a turn or maintenance holds in hand  *)
(* exists, and a tool loop never goes beyond its last round.                              *)
THEOREM SessionTypes == Spec => []TypeOK
<1>1. ASSUME SessionInv, DeliveryInv
      PROVE  TypeOK
  <2>1. log \in Seq({Trigger, Request}) /\ told \subseteq Hub!MessageTypes \X (DOMAIN log)
    BY <1>1 DEF SessionInv, LoopsOK, DeliveryInv, BooksOK
  <2>2. /\ rows \in [Group -> Seq([status : {"none", "due", "running", "acked", "dead_letter"},
                                   attempts : Nat])]
        /\ \A g \in Group : Len(rows[g]) = Len(log)
    BY <1>1 DEF DeliveryInv, RowsOK, Row
  <2>3. sessions \in Seq([status : {"active", "archived"}, handoff : 0..Len(handoffs)])
    <3>1. sessions \in Seq(Session)
      BY <1>1 DEF SessionInv, TablesOK
    <3>2. \A s \in DOMAIN sessions :
            sessions[s] \in [status : {"active", "archived"}, handoff : 0..Len(handoffs)]
      BY <1>1, Tables DEF Session
    <3> QED BY <3>1, <3>2, SequenceOf
  <2>4. handoffs \in Seq([status : {"requested", "summarized", "archived", "activated", "skipped"},
                          old : 0..Len(sessions), new : 0..Len(sessions)])
    <3>1. handoffs \in Seq(Handoff)
      BY <1>1 DEF SessionInv, TablesOK
    <3>2. \A h \in DOMAIN handoffs :
            handoffs[h] \in [status : {"requested", "summarized", "archived", "activated", "skipped"},
                             old : 0..Len(sessions), new : 0..Len(sessions)]
      BY <1>1, Tables DEF Handoff, DeliveryInv, BooksOK
    <3> QED BY <3>1, <3>2, SequenceOf
  <2>5. turn \in [pc : {"idle", "thinking", "answered", "created", "recorded", "handled"},
                  message : 0..Len(log), session : 0..Len(sessions), handoff : 0..Len(handoffs),
                  round : 0..MaxToolIterations]
    <3>1. /\ turn.message \in 0..Len(log) /\ turn.session \in 0..Len(sessions)
          /\ turn.handoff \in 0..Len(handoffs) /\ turn.round \in 0..MaxToolIterations
      BY <1>1, Tables, LimitsAssumption DEF DeliveryInv, InHand
    <3> QED BY <1>1, <3>1 DEF SessionInv, LoopsOK
  <2>6. upkeep \in [pc : {"idle", "claimed", "requested", "skipped", "summarized", "sessionArchived",
                          "archived", "announced", "handled"},
                    message : 0..Len(log), session : 0..Len(sessions)]
    BY <1>1 DEF SessionInv, LoopsOK, DeliveryInv, InHand
  <2>7. throws \in 0..MaxThrows /\ crashes \in 0..MaxCrashes
    BY <1>1 DEF DeliveryInv, BooksOK
  <2> QED BY <2>1, <2>2, <2>3, <2>4, <2>5, <2>6, <2>7 DEF TypeOK
<1> QED BY <1>1, SessionInvariant, DeliveryInvHolds, PTL

(* A message is acked only behind its turn_completed, a request only behind its rotation  *)
(* or its refusal, whatever throws between the writes and whenever the daemon dies.       *)
THEOREM AckedMessagesAreTold == Spec => []AckedIsTold
<1>1. DeliveryInv => AckedIsTold
  BY DEF DeliveryInv
<1> QED BY <1>1, DeliveryInvHolds, PTL

(* A session whose handoff was archived is followed by one that starts from that handoff, *)
(* although the turn picks it before Codex is called and other handoffs lie about unused. *)
THEOREM SuccessorsTakeTheNewest == Spec => []SuccessorTakesNewest
<1>1. SuccessionInv => SuccessorTakesNewest
  BY DEF SuccessionInv
<1> QED BY <1>1, SuccessionHolds, PTL
=============================================================================
