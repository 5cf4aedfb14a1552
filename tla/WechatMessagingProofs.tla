---------------------------- MODULE WechatMessagingProofs -----------------------
(***************************************************************************)
(* Proofs about WechatMessaging for any number of messages, commands and   *)
(* faults: what the receiver and the sender keep although every write may  *)
(* throw and the process may die between any two of them.                  *)
(***************************************************************************)
EXTENDS WechatMessaging, FiniteSetTheorems, SequenceTheorems, TLAPS

-----------------------------------------------------------------------------
(* The inductive invariant *)

(* An answer is being worked on. *)
InFlight == receiver.pc \in {"saving", "ingesting", "logged"}

(* What is left of an answer is no more than an answer has, and either the cursor in      *)
(* memory is past all of it or, with an answer that brought none, before all of it.       *)
ReceiverOK ==
  /\ daemon = "down" => receiver = Off
  /\ receiver.pc = "off" => receiver = Off
  /\ receiver.pc # "off" => syncBuf <= receiver.buf
  /\ InFlight =>
       /\ 1 <= receiver.next /\ receiver.next <= receiver.upto
       /\ receiver.upto < receiver.next + MaxAnswer
       /\ receiver.upto <= receiver.buf + MaxAnswer
       /\ receiver.buf = receiver.upto \/ receiver.buf < receiver.next
  /\ receiver.pc = "saving" => receiver.buf = receiver.upto
  /\ receiver.pc = "logged" => inbound[receiver.next].owner /\ Logged(receiver.next)

HasCommand == sender.pc \in {"sending", "sent", "failed", "handled"}

(* The running rows are the batch of the sender. *)
SenderOK ==
  /\ daemon = "down" => sender = Idle
  /\ sender.pc = "idle" => sender = Idle
  /\ HasCommand => sender.command \in sender.batch
  /\ \A c \in DOMAIN commands : commands[c].status = "running" <=> c \in sender.batch

(* A row is claimed once more than MaxAttempts only for each crash. *)
Attempts ==
  \A c \in DOMAIN commands :
    /\ commands[c].attempts <= MaxAttempts + crashes
    /\ commands[c].status = "due" => commands[c].attempts < MaxAttempts + crashes

Told(c) ==
  \/ <<"event.message.sent", c>> \in reports /\ delivered[c] > 0
  \/ <<"event.message.send_failed", c>> \in reports

Reported ==
  /\ sender.pc = "sent" => delivered[sender.command] > 0
  /\ sender.pc = "handled" => Told(sender.command)

(* The attempt of the row c is not over: another delivery of it needs no further fault.   *)
Open(c) ==
  \/ commands[c].status = "due"
  \/ /\ commands[c].status = "running"
     /\ ~(sender.pc \in {"sent", "failed", "handled"} /\ sender.command = c)

(* The one delivery that needs no fault is that of the attempt which is now over. *)
Deliveries ==
  \A c \in DOMAIN commands :
    /\ delivered[c] <= 1 + throws + crashes
    /\ Open(c) => delivered[c] <= throws + crashes

(* The cursor that counts: in memory, or in the file while the receiver is off. *)
Cursor == IF receiver.pc = "off" THEN syncBuf ELSE receiver.buf

Lost == {n \in 1..Cursor : ~Logged(n) /\ ~(InFlight /\ n >= receiver.next)}

Losses == Cardinality(Lost) <= (throws + crashes) * MaxAnswer

BringsToken(n) == inbound[n].owner /\ inbound[n].token

(* Without a fault the cursors agree, and the messages that an answer without a cursor    *)
(* brings again are all of those that were logged beyond the cursor: the token can go     *)
(* back while they are worked on, and is the newest again at the end of the answer.       *)
Tokens ==
  throws + crashes = 0 =>
    /\ receiver.pc \notin {"off", "saving"} => syncBuf = receiver.buf
    /\ \A n \in DOMAIN inbound : Logged(n) => n <= Cursor + MaxAnswer
    /\ InFlight => \A n \in DOMAIN inbound : Logged(n) => n <= receiver.upto
    /\ conversation.token # 0 => Logged(conversation.token) /\ BringsToken(conversation.token)
    /\ \A n \in DOMAIN inbound :
         Logged(n) /\ BringsToken(n) /\ (InFlight => n < receiver.next) => n <= conversation.token

WechatInv ==
  /\ TypeOK
  /\ ReceiverOK /\ SenderOK
  /\ Attempts /\ Reported /\ Deliveries
  /\ IngestedOnce /\ AckedIsReported
  /\ Losses /\ Tokens

-----------------------------------------------------------------------------
(* Sequences, records and what the steps do to them *)

LEMMA FunctionIsSequence ==
  ASSUME NEW S, NEW n \in Nat, NEW f \in [1..n -> S]
  PROVE  f \in Seq(S) /\ Len(f) = n /\ DOMAIN f = 1..n
OBVIOUS

LEMMA EntryChanges ==
  ASSUME NEW S, NEW q \in Seq(S), NEW i \in DOMAIN q, NEW e \in S
  PROVE  /\ [q EXCEPT ![i] = e] \in Seq(S)
         /\ Len([q EXCEPT ![i] = e]) = Len(q)
         /\ DOMAIN [q EXCEPT ![i] = e] = DOMAIN q
         /\ \A k \in DOMAIN q : [q EXCEPT ![i] = e][k] = IF k = i THEN e ELSE q[k]
<1>1. Len(q) \in Nat /\ DOMAIN q = 1..Len(q)
  OBVIOUS
<1>2. [q EXCEPT ![i] = e] \in Seq(S) /\ Len([q EXCEPT ![i] = e]) = Len(q)
  BY <1>1, ExceptSeq
<1> QED BY <1>1, <1>2

LEMMA Appended ==
  ASSUME NEW S, NEW q \in Seq(S), NEW e \in S
  PROVE  /\ Append(q, e) \in Seq(S)
         /\ Len(Append(q, e)) = Len(q) + 1 /\ Len(q) \in Nat
         /\ DOMAIN Append(q, e) = DOMAIN q \cup {Len(q) + 1}
         /\ DOMAIN q = 1..Len(q)
         /\ \A n \in DOMAIN q : n # Len(q) + 1 /\ Append(q, e)[n] = q[n]
         /\ Append(q, e)[Len(q) + 1] = e
<1>1. Len(q) \in Nat /\ DOMAIN q = 1..Len(q)
  OBVIOUS
<1>2. /\ Append(q, e) \in Seq(S) /\ Len(Append(q, e)) = Len(q) + 1
      /\ \A n \in 1..Len(q) : Append(q, e)[n] = q[n]
      /\ Append(q, e)[Len(q) + 1] = e
  BY AppendProperties
<1>3. DOMAIN Append(q, e) = 1..(Len(q) + 1)
  BY <1>2
<1> QED BY <1>1, <1>2, <1>3

LEMMA Smaller ==
  ASSUME NEW a \in Int, NEW b \in Int
  PROVE  Min({a, b}) = IF a <= b THEN a ELSE b
<1> DEFINE m == IF a <= b THEN a ELSE b
<1>1. m \in {a, b} /\ \A y \in {a, b} : m <= y
  OBVIOUS
<1>2. \A x \in {a, b} : (\A y \in {a, b} : x <= y) => x = m
  OBVIOUS
<1> QED BY <1>1, <1>2 DEF Min

CommandRow == [refused : BOOLEAN, status : {"due", "running", "acked", "dead_letter"},
               attempts : 0..(MaxAttempts + MaxCrashes)]

(* What the rest of the proof needs of the types. *)
LEMMA Numbers ==
  ASSUME TypeOK
  PROVE  /\ Len(inbound) \in Nat /\ DOMAIN inbound = 1..Len(inbound)
         /\ Len(commands) \in Nat /\ DOMAIN commands = 1..Len(commands)
         /\ delivered \in Seq(Nat) /\ DOMAIN delivered = DOMAIN commands
         /\ logged \in Seq(DOMAIN inbound)
         /\ commands \in Seq(CommandRow)
         /\ \A c \in DOMAIN commands : commands[c] \in CommandRow /\ delivered[c] \in Nat
         /\ \A i \in DOMAIN logged : logged[i] \in DOMAIN inbound
         /\ \A n \in DOMAIN inbound : inbound[n] \in Kind
         /\ MaxAnswer \in Nat \ {0} /\ MaxAttempts \in Nat \ {0} /\ SenderBatch \in Nat \ {0}
         /\ MaxCrashes \in Nat /\ MaxThrows \in Nat
         /\ syncBuf \in 0..Len(inbound)
         /\ receiver.buf \in 0..Len(inbound) /\ receiver.next \in 0..Len(inbound)
         /\ receiver.upto \in 0..Len(inbound)
         /\ throws \in Nat /\ crashes \in Nat /\ crashes <= MaxCrashes
         /\ conversation.token \in 0..Len(inbound)
<1>1. /\ inbound \in Seq(Kind) /\ delivered \in Seq(Nat) /\ commands \in Seq(CommandRow)
      /\ logged \in Seq(DOMAIN inbound) /\ Len(delivered) = Len(commands)
  BY DEF TypeOK, CommandRow
<1>2. /\ MaxAnswer \in Nat \ {0} /\ MaxAttempts \in Nat \ {0} /\ SenderBatch \in Nat \ {0}
      /\ MaxCrashes \in Nat /\ MaxThrows \in Nat
  BY LimitsAssumption
<1>3. throws \in 0..MaxThrows /\ crashes \in 0..MaxCrashes
  BY DEF TypeOK
<1>4. /\ syncBuf \in 0..Len(inbound)
      /\ receiver.buf \in 0..Len(inbound) /\ receiver.next \in 0..Len(inbound)
      /\ receiver.upto \in 0..Len(inbound)
      /\ conversation.token \in 0..Len(inbound)
  BY DEF TypeOK
<1> QED BY <1>1, <1>2, <1>3, <1>4

LEMMA TheReceiver ==
  ASSUME TypeOK, NEW p
  PROVE  [receiver EXCEPT !.pc = p] =
           [pc |-> p, buf |-> receiver.buf, next |-> receiver.next, upto |-> receiver.upto]
<1>1. receiver \in [pc : {"off", "polling", "saving", "ingesting", "logged"},
                   buf : 0..Len(inbound), next : 0..Len(inbound), upto : 0..Len(inbound)]
  BY DEF TypeOK
<1> QED BY <1>1

LEMMA TheSender ==
  ASSUME TypeOK, NEW p
  PROVE  [sender EXCEPT !.pc = p] = [pc |-> p, batch |-> sender.batch, command |-> sender.command]
<1>1. sender \in [pc : {"idle", "next", "sending", "sent", "failed", "handled"},
                 batch : SUBSET (DOMAIN commands), command : 0..Len(commands)]
  BY DEF TypeOK
<1> QED BY <1>1

LEMMA HandleEffect ==
  ASSUME TypeOK, NEW c, Handle(c)
  PROVE  sender' = [pc |-> IF CannotSend(c) THEN "failed" ELSE "sending",
                    batch |-> sender.batch, command |-> c]
<1>1. sender \in [pc : {"idle", "next", "sending", "sent", "failed", "handled"},
                 batch : SUBSET (DOMAIN commands), command : 0..Len(commands)]
  BY DEF TypeOK
<1> DEFINE p == IF CannotSend(c) THEN "failed" ELSE "sending"
           r == [sender EXCEPT !.pc = p, !.command = c]
<1>2. sender' = r
  BY DEF Handle
<1> HIDE DEF p
<1>3. /\ r \in [pc : {p}, batch : SUBSET (DOMAIN commands), command : {c}]
      /\ r.pc = p /\ r.batch = sender.batch /\ r.command = c
  BY <1>1
<1> HIDE DEF r
<1>4. r = [pc |-> p, batch |-> sender.batch, command |-> c]
  BY <1>3
<1> QED BY <1>2, <1>4 DEF p

(* After a message: the next one, or the next poll. *)
LEMMA AfterMessageIs ==
  ASSUME TypeOK, ReceiverOK, InFlight
  PROVE  \/ receiver.next = receiver.upto /\ AfterMessage = Polling(receiver.buf)
         \/ /\ receiver.next < receiver.upto
            /\ AfterMessage = [pc |-> "ingesting", buf |-> receiver.buf,
                               next |-> receiver.next + 1, upto |-> receiver.upto]
<1>1. /\ receiver.next \in Nat /\ receiver.upto \in Nat /\ receiver.next <= receiver.upto
  BY Numbers DEF ReceiverOK
<1>2. [receiver EXCEPT !.pc = "ingesting", !.next = @ + 1] =
        [pc |-> "ingesting", buf |-> receiver.buf, next |-> receiver.next + 1, upto |-> receiver.upto]
  <2>1. receiver \in [pc : {"off", "polling", "saving", "ingesting", "logged"},
                     buf : 0..Len(inbound), next : 0..Len(inbound), upto : 0..Len(inbound)]
    BY DEF TypeOK
  <2> DEFINE r == [receiver EXCEPT !.pc = "ingesting", !.next = @ + 1]
  <2>2. /\ r \in [pc : {"ingesting"}, buf : Nat, next : Nat, upto : Nat]
        /\ r.pc = "ingesting" /\ r.buf = receiver.buf
        /\ r.next = receiver.next + 1 /\ r.upto = receiver.upto
    <3>1. receiver \in [pc : {"off", "polling", "saving", "ingesting", "logged"},
                       buf : Nat, next : Nat, upto : Nat]
      BY <2>1, Numbers
    <3>2. receiver.next + 1 \in Nat
      BY <1>1
    <3> QED BY <3>1, <3>2
  <2> HIDE DEF r
  <2>3. r = [pc |-> "ingesting", buf |-> receiver.buf, next |-> receiver.next + 1, upto |-> receiver.upto]
    BY <2>2
  <2> QED BY <2>3 DEF r
<1> QED BY <1>1, <1>2 DEF AfterMessage

LEMMA CommandEffect ==
  ASSUME TypeOK, NEW refused \in BOOLEAN, Command(refused)
  PROVE  /\ commands' \in Seq(CommandRow) /\ delivered' \in Seq(Nat)
         /\ Len(commands') = Len(commands) + 1 /\ Len(delivered') = Len(delivered) + 1
         /\ DOMAIN commands' = DOMAIN commands \cup {Len(commands) + 1}
         /\ \A c \in DOMAIN commands : /\ c # Len(commands) + 1
                                     /\ commands'[c] = commands[c] /\ delivered'[c] = delivered[c]
         /\ commands'[Len(commands) + 1].status = "due" /\ commands'[Len(commands) + 1].attempts = 0
         /\ delivered'[Len(commands) + 1] = 0
<1> DEFINE new == [refused |-> refused, status |-> "due", attempts |-> 0]
<1>1. new \in CommandRow /\ new.status = "due" /\ new.attempts = 0
  BY LimitsAssumption DEF CommandRow
<1>2. commands' = Append(commands, new) /\ delivered' = Append(delivered, 0)
  BY DEF Command
<1> HIDE DEF new
<1>3. commands \in Seq(CommandRow) /\ delivered \in Seq(Nat)
  BY Numbers
<1>4. Len(delivered) = Len(commands) /\ DOMAIN delivered = DOMAIN commands
  BY Numbers DEF TypeOK
<1>5. /\ commands' \in Seq(CommandRow) /\ Len(commands') = Len(commands) + 1
      /\ DOMAIN commands' = DOMAIN commands \cup {Len(commands) + 1}
      /\ \A c \in DOMAIN commands : c # Len(commands) + 1 /\ commands'[c] = commands[c]
      /\ commands'[Len(commands) + 1] = new
  BY <1>1, <1>2, <1>3, Appended
<1>6. /\ delivered' \in Seq(Nat) /\ Len(delivered') = Len(delivered) + 1
      /\ \A c \in DOMAIN commands : delivered'[c] = delivered[c]
      /\ delivered'[Len(commands) + 1] = 0
  BY <1>2, <1>3, <1>4, Appended
<1> QED BY <1>1, <1>5, <1>6

LEMMA ClaimEffect ==
  ASSUME TypeOK, SenderOK, Attempts, Claim
  PROVE  \E B \in SUBSET (DOMAIN commands) :
           /\ sender' = [pc |-> "next", batch |-> B, command |-> 0]
           /\ commands' \in Seq(CommandRow) /\ Len(commands') = Len(commands)
           /\ DOMAIN commands' = DOMAIN commands
           /\ \A c \in B : /\ commands[c].status = "due" /\ commands'[c].status = "running"
                           /\ commands'[c].attempts = commands[c].attempts + 1
           /\ \A c \in DOMAIN commands \ B : commands'[c] = commands[c] /\ commands[c].status # "running"
<1>1. PICK B \in SUBSET Due :
        /\ commands' = [c \in DOMAIN commands |->
                          IF c \in B
                            THEN [commands[c] EXCEPT !.status = "running", !.attempts = @ + 1]
                            ELSE commands[c]]
        /\ sender' = [pc |-> "next", batch |-> B, command |-> 0]
  BY DEF Claim, kSubset
<1>2. B \subseteq DOMAIN commands /\ \A c \in B : commands[c].status = "due"
  BY DEF Due
<1>3. \A c \in DOMAIN commands : commands[c].status # "running"
  <2>1. sender.pc = "idle"
    BY DEF Claim
  <2>2. sender.batch = {}
    BY <2>1 DEF SenderOK, Idle
  <2> QED BY <2>2 DEF SenderOK
<1>4. ASSUME NEW c \in DOMAIN commands
      PROVE  /\ commands'[c] \in CommandRow
             /\ c \in B => /\ commands'[c].status = "running"
                           /\ commands'[c].attempts = commands[c].attempts + 1
             /\ c \notin B => commands'[c] = commands[c]
  <2>1. commands[c] \in CommandRow
    BY Numbers
  <2>2. CASE c \in B
    <3>1. commands[c].attempts < MaxAttempts + crashes
      BY <1>2, <2>2 DEF Attempts
    <3>2. commands[c].attempts + 1 \in 0..(MaxAttempts + MaxCrashes)
      <4>1. /\ crashes <= MaxCrashes /\ crashes \in Nat /\ MaxCrashes \in Nat
            /\ MaxAttempts \in Nat /\ commands[c].attempts \in Nat
        BY <2>1, Numbers DEF CommandRow
      <4> QED BY <3>1, <4>1
    <3>3. commands'[c] = [commands[c] EXCEPT !.status = "running", !.attempts = @ + 1]
      BY <1>1, <2>2
    <3> QED BY <2>1, <2>2, <3>2, <3>3 DEF CommandRow
  <2> QED BY <1>1, <2>1, <2>2
<1>5. commands' \in [1..Len(commands) -> CommandRow]
  <2>1. \A c \in 1..Len(commands) : commands'[c] \in CommandRow
    BY <1>4, Numbers
  <2>2. DOMAIN commands' = 1..Len(commands) /\ commands' = [c \in 1..Len(commands) |-> commands'[c]]
    BY <1>1, Numbers
  <2> QED BY <2>1, <2>2
<1>6. commands' \in Seq(CommandRow) /\ Len(commands') = Len(commands) /\ DOMAIN commands' = DOMAIN commands
  BY <1>5, Numbers, FunctionIsSequence
<1> QED BY <1>1, <1>2, <1>3, <1>4, <1>6

LEMMA SettleEffect ==
  ASSUME TypeOK, SenderOK, HasCommand, NEW status \in {"due", "acked", "dead_letter"}, Settle(status)
  PROVE  /\ sender.command \in DOMAIN commands
         /\ commands' \in Seq(CommandRow) /\ Len(commands') = Len(commands)
         /\ DOMAIN commands' = DOMAIN commands
         /\ commands'[sender.command].status = status
         /\ commands'[sender.command].attempts = commands[sender.command].attempts
         /\ \A c \in DOMAIN commands : c # sender.command => commands'[c] = commands[c]
         /\ sender'.batch = sender.batch \ {sender.command}
         /\ sender' = Idle \/ sender' = [pc |-> "next", batch |-> sender.batch \ {sender.command}, command |-> 0]
<1> DEFINE c == sender.command
           e == [commands[c] EXCEPT !.status = status]
<1>1. c \in sender.batch /\ c \in DOMAIN commands
  BY DEF SenderOK, TypeOK
<1>2. commands \in Seq(CommandRow) /\ commands[c] \in CommandRow
  BY <1>1, Numbers
<1>3. e \in CommandRow /\ e.status = status /\ e.attempts = commands[c].attempts
  BY <1>2 DEF CommandRow
<1>4. commands' = [commands EXCEPT ![c] = e]
  BY DEF Settle
<1> HIDE DEF e
<1>5. /\ commands' \in Seq(CommandRow) /\ Len(commands') = Len(commands)
      /\ DOMAIN commands' = DOMAIN commands
      /\ \A k \in DOMAIN commands : commands'[k] = IF k = c THEN e ELSE commands[k]
  BY <1>1, <1>2, <1>3, <1>4, EntryChanges
<1>6. /\ sender'.batch = sender.batch \ {c}
      /\ sender' = Idle \/ sender' = [pc |-> "next", batch |-> sender.batch \ {c}, command |-> 0]
  BY DEF Settle, Idle
<1> QED BY <1>1, <1>3, <1>5, <1>6

LEMMA CrashEffect ==
  ASSUME TypeOK, Crash
  PROVE  /\ commands' \in Seq(CommandRow) /\ Len(commands') = Len(commands)
         /\ DOMAIN commands' = DOMAIN commands
         /\ \A c \in DOMAIN commands :
              /\ commands'[c].attempts = commands[c].attempts
              /\ commands'[c].status = IF commands[c].status = "running" THEN "due" ELSE commands[c].status
<1>1. ASSUME NEW c \in DOMAIN commands
      PROVE  /\ commands'[c] \in CommandRow
             /\ commands'[c].attempts = commands[c].attempts
             /\ commands'[c].status = IF commands[c].status = "running" THEN "due" ELSE commands[c].status
  <2>1. commands[c] \in CommandRow
    BY Numbers
  <2>2. commands'[c] = IF commands[c].status = "running" THEN [commands[c] EXCEPT !.status = "due"]
                                                         ELSE commands[c]
    BY DEF Crash
  <2> QED BY <2>1, <2>2 DEF CommandRow
<1>2. commands' \in [1..Len(commands) -> CommandRow]
  <2>1. \A c \in 1..Len(commands) : commands'[c] \in CommandRow
    BY <1>1, Numbers
  <2>2. DOMAIN commands' = 1..Len(commands) /\ commands' = [c \in 1..Len(commands) |-> commands'[c]]
    BY Numbers DEF Crash
  <2> QED BY <2>1, <2>2
<1>3. commands' \in Seq(CommandRow) /\ Len(commands') = Len(commands) /\ DOMAIN commands' = DOMAIN commands
  BY <1>2, Numbers, FunctionIsSequence
<1> QED BY <1>1, <1>3

-----------------------------------------------------------------------------
(* Types *)

ReceivingTypes ==
  /\ inbound \in Seq(Kind)
  /\ syncBuf \in 0..Len(inbound)
  /\ logged \in Seq(DOMAIN inbound)
  /\ conversation \in [last : 0..Len(inbound), token : 0..Len(inbound)]
  /\ receiver \in [pc : {"off", "polling", "saving", "ingesting", "logged"},
                   buf : 0..Len(inbound), next : 0..Len(inbound), upto : 0..Len(inbound)]

SendingTypes ==
  /\ delivered \in Seq(Nat) /\ Len(delivered) = Len(commands)
  /\ commands \in Seq(CommandRow)
  /\ reports \subseteq {"event.message.sent", "event.message.send_failed"} \X (DOMAIN commands)
  /\ sender \in [pc : {"idle", "next", "sending", "sent", "failed", "handled"},
                 batch : SUBSET (DOMAIN commands), command : 0..Len(commands)]

DaemonTypes ==
  /\ daemon \in {"up", "stopping", "down"}
  /\ repeats \in 0..MaxRepeats
  /\ throws \in 0..MaxThrows
  /\ crashes \in 0..MaxCrashes
  /\ stops \in 0..MaxStops

LEMMA TypesInParts == TypeOK <=> ReceivingTypes /\ SendingTypes /\ DaemonTypes
BY DEF TypeOK, ReceivingTypes, SendingTypes, DaemonTypes, CommandRow

LEMMA ReceivingTypesStep ==
  ASSUME TypeOK, ReceiverOK, [Next]_vars
  PROVE  ReceivingTypes'
<1> USE DEF receiving, sending, bounds
<1>0. ReceivingTypes
  BY TypesInParts
<1> DEFINE L == Len(inbound)
           Receivers == [pc : {"off", "polling", "saving", "ingesting", "logged"},
                         buf : 0..L, next : 0..L, upto : 0..L]
<1>1. L \in Nat
  BY Numbers
<1>2. Off \in Receivers /\ \A buf \in 0..L : Polling(buf) \in Receivers
  BY <1>1 DEF Off, Polling
<1>3. \A p \in {"off", "polling", "saving", "ingesting", "logged"} : [receiver EXCEPT !.pc = p] \in Receivers
  BY <1>0 DEF ReceivingTypes
<1>4. InFlight => /\ AfterMessage \in Receivers
                  /\ receiver.next \in DOMAIN inbound
  <2> SUFFICES ASSUME InFlight PROVE AfterMessage \in Receivers /\ receiver.next \in DOMAIN inbound
    OBVIOUS
  <2>1. receiver.next \in Nat /\ receiver.upto \in 0..L /\ 1 <= receiver.next /\ receiver.next <= receiver.upto
    BY Numbers DEF ReceiverOK
  <2>2. receiver.next \in DOMAIN inbound /\ receiver.buf \in 0..L
    BY <2>1, Numbers
  <2>3. receiver.next < receiver.upto => receiver.next + 1 \in 0..L
    BY <1>1, <2>1
  <2>4. CASE AfterMessage = Polling(receiver.buf)
    BY <1>2, <2>2, <2>4
  <2>5. CASE /\ receiver.next < receiver.upto
             /\ AfterMessage = [pc |-> "ingesting", buf |-> receiver.buf,
                                next |-> receiver.next + 1, upto |-> receiver.upto]
    BY <2>1, <2>2, <2>3, <2>5
  <2> QED BY <2>2, <2>4, <2>5, AfterMessageIs
<1>5. CASE UNCHANGED <<inbound, syncBuf, logged, conversation>> /\ receiver' \in Receivers
  BY <1>0, <1>5 DEF ReceivingTypes
<1>6. ASSUME NEW kind \in Kind, Write(kind)
      PROVE  ReceivingTypes'
  <2>1. /\ inbound' \in Seq(Kind) /\ Len(inbound') = L + 1
        /\ DOMAIN inbound \subseteq DOMAIN inbound'
    BY <1>0, <1>6, Appended DEF Write, ReceivingTypes
  <2>2. logged \in Seq(DOMAIN inbound')
    BY <1>0, <2>1, SeqMonotonic DEF ReceivingTypes
  <2>3. 0..L \subseteq 0..Len(inbound')
    BY <1>1, <2>1
  <2> HIDE DEF L
  <2> QED BY <1>0, <1>6, <2>1, <2>2, <2>3 DEF Write, ReceivingTypes, L
<1>7. CASE Answered
  <2> DEFINE upto == Min({receiver.buf + MaxAnswer, L})
  <2>1. receiver.buf \in 0..L /\ receiver.buf < L /\ MaxAnswer \in Nat
    BY <1>7, Numbers DEF Answered
  <2>2. upto = IF receiver.buf + MaxAnswer <= L THEN receiver.buf + MaxAnswer ELSE L
    BY <1>1, <2>1, Smaller
  <2>3. upto \in 0..L /\ receiver.buf + 1 \in 0..L
    BY <1>1, <2>1, <2>2
  <2> HIDE DEF upto
  <2>4. \/ receiver' = [pc |-> "saving", buf |-> upto, next |-> receiver.buf + 1, upto |-> upto]
        \/ receiver' = [pc |-> "ingesting", buf |-> receiver.buf, next |-> receiver.buf + 1, upto |-> upto]
    BY <1>7 DEF Answered, upto
  <2>5. receiver' \in Receivers
    BY <2>1, <2>3, <2>4
  <2> QED BY <1>5, <1>7, <2>5 DEF Answered
<1>8. CASE SaveSyncBuf
  <2>1. syncBuf' \in 0..L /\ receiver' \in Receivers
    BY <1>3, <1>8, Numbers DEF SaveSyncBuf
  <2> QED BY <1>0, <1>8, <2>1 DEF SaveSyncBuf, ReceivingTypes
<1>9. CASE Ingest
  <2>1. InFlight
    BY <1>9 DEF Ingest, InFlight
  <2>2. receiver' \in Receivers
    BY <1>3, <1>4, <1>9, <2>1 DEF Ingest
  <2>3. logged' \in Seq(DOMAIN inbound)
    BY <1>0, <1>4, <1>9, <2>1, Appended DEF Ingest, ReceivingTypes
  <2> QED BY <1>0, <1>9, <2>2, <2>3 DEF Ingest, ReceivingTypes
<1>10. CASE UpsertConversation
  <2>1. InFlight
    BY <1>10 DEF UpsertConversation, InFlight
  <2>2. receiver' \in Receivers
    BY <1>4, <1>10, <2>1 DEF UpsertConversation
  <2>3. conversation' \in [last : 0..L, token : 0..L]
    BY <1>4, <1>10, <2>1, Numbers DEF UpsertConversation
  <2> QED BY <1>0, <1>10, <2>2, <2>3 DEF UpsertConversation, ReceivingTypes
<1>11. CASE ReceiverThrows
  BY <1>2, <1>5, <1>11, Numbers DEF ReceiverThrows
<1>12. CASE ReceiverReturns
  BY <1>2, <1>5, <1>12 DEF ReceiverReturns
<1>13. CASE Start
  BY <1>2, <1>5, <1>13, Numbers DEF Start
<1>14. CASE Crash
  BY <1>2, <1>5, <1>14 DEF Crash
<1>15. CASE UNCHANGED <<inbound, receiving>>
  BY <1>0, <1>15 DEF ReceivingTypes
<1> QED
  BY <1>6, <1>7, <1>8, <1>9, <1>10, <1>11, <1>12, <1>13, <1>14, <1>15
     DEF Next, vars, ReceiverStep, SenderStep, Command, Claim, Handle, SendSucceeds, SendFails, Report,
         AckCommand, SenderThrows, Stop, Stopped

LEMMA SendingTypesStep ==
  ASSUME TypeOK, SenderOK, Attempts, [Next]_vars
  PROVE  SendingTypes'
<1> USE DEF receiving, sending, bounds
<1>0. SendingTypes
  BY TypesInParts
<1> DEFINE D == DOMAIN commands
           Senders == [pc : {"idle", "next", "sending", "sent", "failed", "handled"},
                       batch : SUBSET D, command : 0..Len(commands)]
<1>1. Len(commands) \in Nat /\ D = 1..Len(commands) /\ 0 \in 0..Len(commands) /\ DOMAIN delivered = D
  BY Numbers
<1>2. Idle \in Senders /\ \A B \in SUBSET D : [pc |-> "next", batch |-> B, command |-> 0] \in Senders
  BY <1>1 DEF Idle
<1>3. \A p \in {"idle", "next", "sending", "sent", "failed", "handled"} : [sender EXCEPT !.pc = p] \in Senders
  BY <1>0 DEF SendingTypes
<1>4. HasCommand => sender.command \in D
  BY <1>0 DEF SendingTypes, SenderOK
<1>5. ASSUME NEW refused \in BOOLEAN, Command(refused)
      PROVE  SendingTypes'
  <2>1. /\ commands' \in Seq(CommandRow) /\ Len(commands') = Len(commands) + 1
        /\ D \subseteq DOMAIN commands'
        /\ delivered' \in Seq(Nat) /\ Len(delivered') = Len(delivered) + 1
    BY <1>5, CommandEffect
  <2>2. 0..Len(commands) \subseteq 0..Len(commands')
    BY <1>1, <2>1
  <2>3. UNCHANGED <<reports, sender>>
    BY <1>5 DEF Command
  <2> QED BY <1>0, <2>1, <2>2, <2>3 DEF SendingTypes
<1>6. CASE Claim
  <2>1. PICK B \in SUBSET D :
          /\ sender' = [pc |-> "next", batch |-> B, command |-> 0]
          /\ commands' \in Seq(CommandRow) /\ Len(commands') = Len(commands) /\ DOMAIN commands' = D
    BY <1>6, ClaimEffect
  <2>2. sender' \in Senders /\ UNCHANGED <<delivered, reports>>
    BY <1>2, <1>6, <2>1 DEF Claim
  <2> QED BY <1>0, <2>1, <2>2 DEF SendingTypes
<1>7. ASSUME NEW c \in D, Handle(c)
      PROVE  SendingTypes'
  <2>1. sender' = [pc |-> IF CannotSend(c) THEN "failed" ELSE "sending", batch |-> sender.batch, command |-> c]
    BY <1>7, HandleEffect
  <2>2. sender.batch \in SUBSET D /\ c \in 0..Len(commands)
    BY <1>0, <1>1 DEF SendingTypes
  <2>3. sender' \in Senders
    BY <2>1, <2>2
  <2> QED BY <1>0, <1>7, <2>3 DEF Handle, SendingTypes
<1>8. CASE SendSucceeds \/ SendFails
  <2>1. HasCommand
    BY <1>8 DEF SendSucceeds, SendFails, HasCommand
  <2>2. delivered[sender.command] \in Nat /\ sender.command \in DOMAIN delivered
    BY <1>1, <1>4, <2>1, Numbers
  <2>3. PICK more \in {0, 1} : delivered' = [delivered EXCEPT ![sender.command] = @ + more]
    BY <1>8 DEF SendSucceeds, SendFails
  <2> DEFINE e == delivered[sender.command] + more
  <2>4. e \in Nat /\ delivered' = [delivered EXCEPT ![sender.command] = e]
    BY <2>2, <2>3
  <2> HIDE DEF e
  <2>5. delivered' \in Seq(Nat) /\ Len(delivered') = Len(delivered)
    BY <1>0, <2>2, <2>4, EntryChanges DEF SendingTypes
  <2>6. sender' \in Senders /\ UNCHANGED <<commands, reports>>
    BY <1>3, <1>8 DEF SendSucceeds, SendFails
  <2> QED BY <1>0, <2>5, <2>6 DEF SendingTypes
<1>9. CASE Report
  <2>1. sender.command \in D
    BY <1>4, <1>9 DEF Report, HasCommand
  <2>2. reports' \subseteq {"event.message.sent", "event.message.send_failed"} \X D
    BY <1>0, <1>9, <2>1 DEF Report, SendingTypes
  <2>3. sender' \in Senders /\ UNCHANGED <<commands, delivered>>
    BY <1>3, <1>9 DEF Report
  <2> QED BY <1>0, <2>2, <2>3 DEF SendingTypes
<1>10. ASSUME NEW status \in {"due", "acked", "dead_letter"}, HasCommand, Settle(status),
              UNCHANGED <<delivered, reports>>
       PROVE  SendingTypes'
  <2>1. /\ commands' \in Seq(CommandRow) /\ Len(commands') = Len(commands) /\ DOMAIN commands' = D
        /\ sender' = Idle \/ sender' = [pc |-> "next", batch |-> sender.batch \ {sender.command}, command |-> 0]
    BY <1>10, SettleEffect
  <2>2. sender.batch \in SUBSET D
    BY <1>0 DEF SendingTypes
  <2>3. sender' \in Senders
    BY <1>2, <2>1, <2>2
  <2> QED BY <1>0, <1>10, <2>1, <2>3 DEF SendingTypes
<1>11. CASE AckCommand
  BY <1>10, <1>11 DEF AckCommand, HasCommand
<1>12. CASE SenderThrows
  <2>1. CASE sender.pc = "sent"
    BY <1>0, <1>3, <1>12, <2>1 DEF SenderThrows, SendingTypes
  <2>2. CASE sender.pc # "sent"
    BY <1>10, <1>12, <2>2 DEF SenderThrows, HasCommand
  <2> QED BY <2>1, <2>2
<1>13. CASE Crash
  <2>1. /\ commands' \in Seq(CommandRow) /\ Len(commands') = Len(commands) /\ DOMAIN commands' = D
    BY <1>13, CrashEffect
  <2> QED BY <1>0, <1>2, <1>13, <2>1 DEF Crash, SendingTypes
<1>14. CASE UNCHANGED sending
  BY <1>0, <1>14 DEF SendingTypes
<1> QED
  BY <1>5, <1>6, <1>7, <1>8, <1>9, <1>11, <1>12, <1>13, <1>14
     DEF Next, vars, ReceiverStep, SenderStep, Write, Answered, SaveSyncBuf, Ingest, UpsertConversation,
         ReceiverThrows, ReceiverReturns, Start, Stop, Stopped

LEMMA DaemonTypesStep ==
  ASSUME TypeOK, [Next]_vars
  PROVE  DaemonTypes'
<1>0. DaemonTypes
  BY TypesInParts
<1>1. {MaxRepeats, MaxThrows, MaxCrashes, MaxStops} \subseteq Nat
  BY LimitsAssumption
<1> USE DEF bounds, Next, vars, ReceiverStep, SenderStep, Write, Answered, SaveSyncBuf, Ingest,
            UpsertConversation, ReceiverThrows, ReceiverReturns, Command, Claim, Handle, SendSucceeds,
            SendFails, Report, AckCommand, SenderThrows, Start, Stop, Stopped, Crash
<1>2. daemon' \in {daemon, "up", "stopping", "down"}
  OBVIOUS
<1>3. repeats' = repeats \/ (repeats < MaxRepeats /\ repeats' = repeats + 1)
  OBVIOUS
<1>4. throws' = throws \/ (throws < MaxThrows /\ throws' = throws + 1)
  OBVIOUS
<1>5. crashes' = crashes \/ (crashes < MaxCrashes /\ crashes' = crashes + 1)
  OBVIOUS
<1>6. stops' = stops \/ (stops < MaxStops /\ stops' = stops + 1)
  OBVIOUS
<1> QED BY ONLY <1>0, <1>1, <1>2, <1>3, <1>4, <1>5, <1>6 DEF DaemonTypes

LEMMA TypeStep ==
  ASSUME TypeOK, ReceiverOK, SenderOK, Attempts, [Next]_vars
  PROVE  TypeOK'
<1>1. ReceivingTypes' /\ SendingTypes' /\ DaemonTypes'
  BY ReceivingTypesStep, SendingTypesStep, DaemonTypesStep
<1> QED BY <1>1 DEF TypeOK, ReceivingTypes, SendingTypes, DaemonTypes, CommandRow

-----------------------------------------------------------------------------
(* The sender *)

LEMMA SenderOKStep ==
  ASSUME TypeOK, SenderOK, Attempts, ReceiverOK, [Next]_vars
  PROVE  SenderOK'
<1> USE DEF receiving, sending, bounds
<1>1. sender.batch \subseteq DOMAIN commands
  BY DEF TypeOK
<1>2. ASSUME NEW refused \in BOOLEAN, Command(refused)
      PROVE  SenderOK'
  <2>1. UNCHANGED <<sender, daemon>>
    BY <1>2 DEF Command
  <2>2. /\ DOMAIN commands' = DOMAIN commands \cup {Len(commands) + 1}
        /\ \A c \in DOMAIN commands : c # Len(commands) + 1 /\ commands'[c] = commands[c]
        /\ commands'[Len(commands) + 1].status = "due"
    BY <1>2, CommandEffect
  <2>3. Len(commands) + 1 \notin sender.batch
    BY <1>1, <2>2
  <2> QED BY <2>1, <2>2, <2>3 DEF SenderOK, HasCommand
<1>3. CASE Claim
  <2>1. PICK B \in SUBSET (DOMAIN commands) :
           /\ sender' = [pc |-> "next", batch |-> B, command |-> 0]
           /\ DOMAIN commands' = DOMAIN commands
           /\ \A c \in B : commands'[c].status = "running"
           /\ \A c \in DOMAIN commands \ B : commands'[c] = commands[c] /\ commands[c].status # "running"
    BY <1>3, ClaimEffect
  <2>2. daemon' # "down"
    BY <1>3 DEF Claim
  <2> QED BY <2>1, <2>2 DEF SenderOK, HasCommand
<1>4. ASSUME NEW c \in DOMAIN commands, Handle(c)
      PROVE  SenderOK'
  <2>1. sender' = [pc |-> IF CannotSend(c) THEN "failed" ELSE "sending", batch |-> sender.batch, command |-> c]
    BY <1>4, HandleEffect
  <2>2. sender.pc = "next" /\ c \in sender.batch /\ UNCHANGED <<commands, daemon>>
    BY <1>4 DEF Handle
  <2>3. daemon # "down"
    BY <2>2 DEF SenderOK, Idle
  <2> QED BY <2>1, <2>2, <2>3 DEF SenderOK, HasCommand
<1>5. ASSUME NEW p \in {"sent", "failed", "handled"}, HasCommand, sender' = [sender EXCEPT !.pc = p],
             UNCHANGED <<commands, daemon>>
      PROVE  SenderOK'
  <2>1. sender' = [pc |-> p, batch |-> sender.batch, command |-> sender.command]
    BY <1>5, TheSender
  <2>2. daemon # "down"
    BY <1>5 DEF SenderOK, HasCommand, Idle
  <2> QED BY <1>5, <2>1, <2>2 DEF SenderOK, HasCommand
<1>6. CASE SendSucceeds \/ SendFails \/ Report
  BY <1>5, <1>6 DEF SendSucceeds, SendFails, Report, HasCommand
<1>7. ASSUME NEW status \in {"due", "acked", "dead_letter"}, HasCommand, Settle(status), daemon' = daemon
      PROVE  SenderOK'
  <2>1. /\ sender.command \in DOMAIN commands /\ DOMAIN commands' = DOMAIN commands
        /\ commands'[sender.command].status = status
        /\ \A c \in DOMAIN commands : c # sender.command => commands'[c] = commands[c]
        /\ sender'.batch = sender.batch \ {sender.command}
        /\ sender' = Idle \/ sender' = [pc |-> "next", batch |-> sender.batch \ {sender.command}, command |-> 0]
    BY <1>7, SettleEffect
  <2>2. daemon # "down"
    BY <1>7 DEF SenderOK, HasCommand, Idle
  <2>3. sender'.pc \in {"idle", "next"} /\ (sender'.pc = "idle" => sender' = Idle)
    BY <2>1 DEF Idle
  <2> QED BY <1>7, <2>1, <2>2, <2>3 DEF SenderOK, HasCommand
<1>8. CASE AckCommand
  BY <1>7, <1>8 DEF AckCommand, HasCommand
<1>9. CASE SenderThrows
  BY <1>5, <1>7, <1>9 DEF SenderThrows, HasCommand
<1>10. CASE Crash
  <2>1. /\ DOMAIN commands' = DOMAIN commands
        /\ \A c \in DOMAIN commands : commands'[c].status # "running"
    BY <1>10, CrashEffect
  <2> QED BY <1>10, <2>1 DEF Crash, SenderOK, HasCommand, Idle
<1>11. CASE Stopped
  BY <1>11 DEF Stopped, SenderOK, HasCommand
<1>12. CASE UNCHANGED <<commands, sender>> /\ (daemon' = daemon \/ daemon' # "down")
  BY <1>12 DEF SenderOK, HasCommand
<1> QED
  BY <1>2, <1>3, <1>4, <1>6, <1>8, <1>9, <1>10, <1>11, <1>12
     DEF Next, vars, ReceiverStep, SenderStep, Write, Answered, SaveSyncBuf, Ingest, UpsertConversation,
         ReceiverThrows, ReceiverReturns, Start, Stop

LEMMA AttemptsStep ==
  ASSUME TypeOK, SenderOK, Attempts, [Next]_vars
  PROVE  Attempts'
<1> USE DEF receiving, sending, bounds
<1>1. /\ MaxAttempts \in Nat \ {0} /\ crashes \in Nat
      /\ \A c \in DOMAIN commands : commands[c].attempts \in Nat
  BY Numbers DEF CommandRow
<1>2. ASSUME NEW refused \in BOOLEAN, Command(refused)
      PROVE  Attempts'
  <2>1. /\ DOMAIN commands' = DOMAIN commands \cup {Len(commands) + 1}
        /\ \A c \in DOMAIN commands : commands'[c] = commands[c]
        /\ commands'[Len(commands) + 1].attempts = 0
    BY <1>2, CommandEffect
  <2>2. crashes' = crashes
    BY <1>2 DEF Command
  <2> QED BY <1>1, <2>1, <2>2 DEF Attempts
<1>3. CASE Claim
  <2>1. PICK B \in SUBSET (DOMAIN commands) :
           /\ DOMAIN commands' = DOMAIN commands
           /\ \A c \in B : /\ commands[c].status = "due" /\ commands'[c].status = "running"
                           /\ commands'[c].attempts = commands[c].attempts + 1
           /\ \A c \in DOMAIN commands \ B : commands'[c] = commands[c]
    BY <1>3, ClaimEffect
  <2>2. crashes' = crashes
    BY <1>3 DEF Claim
  <2>3. \A c \in B : commands'[c].attempts <= MaxAttempts + crashes /\ commands'[c].status # "due"
    BY <1>1, <2>1 DEF Attempts
  <2> QED BY <2>1, <2>2, <2>3 DEF Attempts
<1>4. ASSUME NEW status \in {"due", "acked", "dead_letter"}, HasCommand, Settle(status), crashes' = crashes,
             status = "due" => commands[sender.command].attempts < MaxAttempts
      PROVE  Attempts'
  <2>1. /\ sender.command \in DOMAIN commands /\ DOMAIN commands' = DOMAIN commands
        /\ commands'[sender.command].status = status
        /\ commands'[sender.command].attempts = commands[sender.command].attempts
        /\ \A c \in DOMAIN commands : c # sender.command => commands'[c] = commands[c]
    BY <1>4, SettleEffect
  <2> QED BY <1>1, <1>4, <2>1 DEF Attempts
<1>5. CASE AckCommand
  BY <1>4, <1>5 DEF AckCommand, HasCommand
<1>6. CASE SenderThrows
  <2>1. CASE sender.pc = "sent"
    BY <1>6, <2>1 DEF SenderThrows, Attempts
  <2>2. CASE sender.pc # "sent"
    <3>1. HasCommand /\ sender.command \in DOMAIN commands /\ crashes' = crashes
      BY <1>6 DEF SenderThrows, HasCommand, SenderOK, TypeOK
    <3>2. CASE commands[sender.command].attempts >= MaxAttempts
      BY <1>4, <1>6, <2>2, <3>1, <3>2 DEF SenderThrows
    <3>3. CASE ~(commands[sender.command].attempts >= MaxAttempts)
      <4>1. commands[sender.command].attempts < MaxAttempts
        BY <1>1, <3>1, <3>3
      <4> QED BY <1>4, <1>6, <2>2, <3>1, <3>3, <4>1 DEF SenderThrows
    <3> QED BY <3>2, <3>3
  <2> QED BY <2>1, <2>2
<1>7. CASE Crash
  <2>1. /\ DOMAIN commands' = DOMAIN commands
        /\ \A c \in DOMAIN commands : commands'[c].attempts = commands[c].attempts
    BY <1>7, CrashEffect
  <2>2. crashes' = crashes + 1
    BY <1>7 DEF Crash
  <2>3. \A c \in DOMAIN commands : commands'[c].attempts < MaxAttempts + crashes'
    BY <1>1, <2>1, <2>2 DEF Attempts
  <2>4. \A c \in DOMAIN commands : commands'[c].attempts <= MaxAttempts + crashes'
    BY <1>1, <2>1, <2>2, <2>3
  <2> QED BY <2>1, <2>3, <2>4 DEF Attempts
<1>8. CASE UNCHANGED <<commands, crashes>>
  BY <1>8 DEF Attempts
<1> QED
  BY <1>2, <1>3, <1>5, <1>6, <1>7, <1>8
     DEF Next, vars, ReceiverStep, SenderStep, Write, Answered, SaveSyncBuf, Ingest, UpsertConversation,
         ReceiverThrows, ReceiverReturns, Handle, SendSucceeds, SendFails, Report, Start, Stop, Stopped

LEMMA SendEffect ==
  ASSUME TypeOK, SenderOK, NEW more \in {0, 1}, HasCommand,
         delivered' = [delivered EXCEPT ![sender.command] = @ + more]
  PROVE  /\ sender.command \in DOMAIN commands
         /\ delivered'[sender.command] = delivered[sender.command] + more
         /\ \A c \in DOMAIN commands : c # sender.command => delivered'[c] = delivered[c]
<1>1. sender.command \in DOMAIN commands
  BY DEF SenderOK, TypeOK
<1>2. DOMAIN delivered = DOMAIN commands
  BY Numbers
<1> QED BY <1>1, <1>2

(* What was reported or has arrived stays so. *)
LEMMA ToldStays ==
  ASSUME TypeOK, SenderOK, [Next]_vars, NEW c \in DOMAIN commands
  PROVE  /\ delivered'[c] \in Nat /\ delivered'[c] >= delivered[c]
         /\ Told(c) => Told(c)'
<1> USE DEF receiving, sending, bounds
<1>1. delivered[c] \in Nat
  BY Numbers
<1>2. reports \subseteq reports'
  BY DEF Next, vars, ReceiverStep, SenderStep, Write, Answered, SaveSyncBuf, Ingest, UpsertConversation,
         ReceiverThrows, ReceiverReturns, Command, Claim, Handle, SendSucceeds, SendFails, Report, AckCommand,
         SenderThrows, Start, Stop, Stopped, Crash
<1>3. delivered'[c] \in Nat /\ delivered'[c] >= delivered[c]
  <2>1. CASE SendSucceeds \/ SendFails
    <3>1. HasCommand /\ \E more \in {0, 1} : delivered' = [delivered EXCEPT ![sender.command] = @ + more]
      BY <2>1 DEF SendSucceeds, SendFails, HasCommand
    <3> QED BY <1>1, <3>1, SendEffect
  <2>2. ASSUME NEW refused \in BOOLEAN, Command(refused)
        PROVE  delivered'[c] = delivered[c]
    BY <2>2, CommandEffect
  <2>3. CASE delivered' = delivered
    BY <1>1, <2>3
  <2>4. \/ SendSucceeds \/ SendFails \/ (\E refused \in BOOLEAN : Command(refused))
        \/ delivered' = delivered
    BY DEF Next, vars, ReceiverStep, SenderStep, Write, Answered, SaveSyncBuf, Ingest, UpsertConversation,
           ReceiverThrows, ReceiverReturns, Claim, Handle, Report, AckCommand, SenderThrows, Start, Stop,
           Stopped, Crash
  <2> QED BY <1>1, <2>1, <2>2, <2>3, <2>4
<1> QED BY <1>1, <1>2, <1>3 DEF Told

LEMMA ReportedStep ==
  ASSUME TypeOK, SenderOK, Attempts, Reported, [Next]_vars
  PROVE  Reported'
<1> USE DEF receiving, sending, bounds
<1>1. HasCommand => sender.command \in DOMAIN commands
  BY DEF SenderOK, TypeOK
<1>2. CASE SendSucceeds
  <2>1. HasCommand /\ delivered' = [delivered EXCEPT ![sender.command] = @ + 1]
    BY <1>2 DEF SendSucceeds, HasCommand
  <2>2. delivered'[sender.command] > 0
    BY SMTT(30), <1>1, <2>1, SendEffect, Numbers
  <2>3. sender' = [pc |-> "sent", batch |-> sender.batch, command |-> sender.command]
    BY <1>2, TheSender DEF SendSucceeds
  <2> QED BY <2>2, <2>3 DEF Reported
<1>3. CASE Report
  <2>1. sender' = [pc |-> "handled", batch |-> sender.batch, command |-> sender.command]
    BY <1>3, TheSender DEF Report
  <2>2. Told(sender.command)'
    BY <1>3, <2>1 DEF Report, Reported, Told
  <2> QED BY <2>1, <2>2 DEF Reported
<1>4. CASE sender'.pc \notin {"sent", "handled"}
  BY <1>4 DEF Reported
<1>5. CASE sender' = sender
  <2>1. sender.pc \in {"sent", "handled"} => sender.command \in DOMAIN commands
    BY <1>1 DEF HasCommand
  <2>2. CASE sender.pc = "sent"
    <3>1. /\ delivered[sender.command] > 0 /\ delivered[sender.command] \in Nat
          /\ delivered'[sender.command] \in Nat /\ delivered'[sender.command] >= delivered[sender.command]
      BY <2>1, <2>2, ToldStays, Numbers DEF Reported
    <3> QED BY <1>5, <2>2, <3>1 DEF Reported
  <2>3. CASE sender.pc = "handled"
    <3>1. Told(sender.command) /\ sender.command \in DOMAIN commands
      BY <2>1, <2>3 DEF Reported
    <3>2. \A c \in DOMAIN commands : Told(c) => Told(c)'
      BY ToldStays
    <3>3. Told(sender.command)'
      BY <1>5, <3>1, <3>2 DEF Told
    <3> QED BY <1>5, <2>3, <3>3 DEF Reported
  <2>4. CASE sender.pc \notin {"sent", "handled"}
    BY <1>4, <1>5, <2>4
  <2> QED BY <2>2, <2>3, <2>4
<1>6. Claim => sender'.pc = "next"
  BY ClaimEffect
<1>7. ASSUME NEW c \in DOMAIN commands, Handle(c)
      PROVE  sender'.pc \in {"failed", "sending"}
  BY <1>7, HandleEffect
<1>8. SendFails => sender'.pc = "failed"
  BY TheSender DEF SendFails
<1>9. \A status : Settle(status) => sender'.pc \in {"idle", "next"}
  BY DEF Settle, Idle
<1>10. AckCommand => sender'.pc \in {"idle", "next"}
  BY <1>9 DEF AckCommand
<1>11. SenderThrows => sender'.pc \in {"idle", "next", "failed"}
  BY <1>9, TheSender DEF SenderThrows
<1>12. Crash => sender'.pc = "idle"
  BY DEF Crash, Idle
<1> QED
  BY <1>2, <1>3, <1>4, <1>5, <1>6, <1>7, <1>8, <1>10, <1>11, <1>12
     DEF Next, vars, ReceiverStep, SenderStep, Write, Answered, SaveSyncBuf, Ingest, UpsertConversation,
         ReceiverThrows, ReceiverReturns, Command, Start, Stop, Stopped

LEMMA AckedStep ==
  ASSUME TypeOK, SenderOK, Attempts, Reported, AckedIsReported, [Next]_vars
  PROVE  AckedIsReported'
<1> USE DEF receiving, sending, bounds
<1>0. \A c \in DOMAIN commands : commands[c].status = "acked" => Told(c)
  BY DEF AckedIsReported, Told
<1>1. \A c \in DOMAIN commands : Told(c) => Told(c)'
  BY ToldStays
<1> SUFFICES ASSUME NEW c \in DOMAIN commands', commands'[c].status = "acked"
             PROVE  Told(c)'
  BY DEF AckedIsReported, Told
<1>2. CASE c \in DOMAIN commands /\ commands[c].status = "acked"
  BY <1>0, <1>1, <1>2
<1>3. ASSUME NEW refused \in BOOLEAN, Command(refused)
      PROVE  Told(c)'
  <2>1. /\ DOMAIN commands' = DOMAIN commands \cup {Len(commands) + 1}
        /\ \A k \in DOMAIN commands : commands'[k] = commands[k]
        /\ commands'[Len(commands) + 1].status = "due"
    BY <1>3, CommandEffect
  <2> QED BY <1>2, <2>1
<1>4. CASE Claim
  <2>1. PICK B \in SUBSET (DOMAIN commands) :
           /\ DOMAIN commands' = DOMAIN commands
           /\ \A k \in B : commands'[k].status = "running"
           /\ \A k \in DOMAIN commands \ B : commands'[k] = commands[k]
    BY <1>4, ClaimEffect
  <2> QED BY <1>2, <2>1
<1>5. ASSUME NEW status \in {"due", "acked", "dead_letter"}, HasCommand, Settle(status),
             status = "acked" => sender.pc = "handled"
      PROVE  Told(c)'
  <2>1. /\ sender.command \in DOMAIN commands /\ DOMAIN commands' = DOMAIN commands
        /\ commands'[sender.command].status = status
        /\ \A k \in DOMAIN commands : k # sender.command => commands'[k] = commands[k]
    BY <1>5, SettleEffect
  <2>2. CASE c = sender.command
    BY <1>1, <1>5, <2>1, <2>2 DEF Reported
  <2>3. CASE c # sender.command
    BY <1>2, <2>1, <2>3
  <2> QED BY <2>2, <2>3
<1>6. CASE AckCommand
  BY <1>5, <1>6 DEF AckCommand, HasCommand
<1>7. CASE SenderThrows
  BY <1>2, <1>5, <1>7 DEF SenderThrows, HasCommand
<1>8. CASE Crash
  <2>1. /\ DOMAIN commands' = DOMAIN commands
        /\ \A k \in DOMAIN commands : commands'[k].status =
              IF commands[k].status = "running" THEN "due" ELSE commands[k].status
    BY <1>8, CrashEffect
  <2> QED BY <1>2, <2>1
<1>9. CASE UNCHANGED commands
  BY <1>2, <1>9
<1> QED
  BY <1>3, <1>4, <1>6, <1>7, <1>8, <1>9
     DEF Next, vars, ReceiverStep, SenderStep, Write, Answered, SaveSyncBuf, Ingest, UpsertConversation,
         ReceiverThrows, ReceiverReturns, Handle, SendSucceeds, SendFails, Report, Start, Stop, Stopped

LEMMA DeliveriesStep ==
  ASSUME TypeOK, SenderOK, Attempts, Deliveries, [Next]_vars
  PROVE  Deliveries'
<1> USE DEF receiving, sending, bounds
<1>0. /\ throws \in Nat /\ crashes \in Nat /\ throws' \in Nat /\ crashes' \in Nat
      /\ throws' >= throws /\ crashes' >= crashes
  <2>1. throws' = throws \/ throws' = throws + 1
    BY DEF Next, vars, ReceiverStep, SenderStep, Write, Answered, SaveSyncBuf, Ingest, UpsertConversation,
         ReceiverThrows, ReceiverReturns, Command, Claim, Handle, SendSucceeds, SendFails, Report, AckCommand,
         SenderThrows, Start, Stop, Stopped, Crash
  <2>2. crashes' = crashes \/ crashes' = crashes + 1
    BY DEF Next, vars, ReceiverStep, SenderStep, Write, Answered, SaveSyncBuf, Ingest, UpsertConversation,
         ReceiverThrows, ReceiverReturns, Command, Claim, Handle, SendSucceeds, SendFails, Report, AckCommand,
         SenderThrows, Start, Stop, Stopped, Crash
  <2> QED BY SMTT(30), <2>1, <2>2, Numbers
<1>1. ASSUME NEW c \in DOMAIN commands
      PROVE  /\ delivered[c] \in Nat /\ delivered[c] <= 1 + throws + crashes
             /\ Open(c) => delivered[c] <= throws + crashes
  BY <1>1, Numbers DEF Deliveries, Open
<1> SUFFICES ASSUME NEW c \in DOMAIN commands'
             PROVE  /\ delivered'[c] <= 1 + throws' + crashes'
                    /\ Open(c)' => delivered'[c] <= throws' + crashes'
  BY DEF Deliveries, Open
(* The text has not arrived now, and the row was open before or a fault has come. *)
<1>2. ASSUME c \in DOMAIN commands, delivered'[c] = delivered[c],
             Open(c)' => Open(c) \/ throws' + crashes' > throws + crashes
      PROVE  /\ delivered'[c] <= 1 + throws' + crashes'
             /\ Open(c)' => delivered'[c] <= throws' + crashes'
  BY <1>0, <1>1, <1>2
<1>3. ASSUME NEW refused \in BOOLEAN, Command(refused)
      PROVE  /\ delivered'[c] <= 1 + throws' + crashes'
             /\ Open(c)' => delivered'[c] <= throws' + crashes'
  <2>1. /\ DOMAIN commands' = DOMAIN commands \cup {Len(commands) + 1}
        /\ \A k \in DOMAIN commands : commands'[k] = commands[k] /\ delivered'[k] = delivered[k]
        /\ delivered'[Len(commands) + 1] = 0
    BY <1>3, CommandEffect
  <2>2. sender' = sender
    BY <1>3 DEF Command
  <2>3. CASE c \in DOMAIN commands
    BY <1>2, <2>1, <2>2, <2>3 DEF Open
  <2>4. CASE c = Len(commands) + 1
    BY <1>0, <2>1, <2>4
  <2> QED BY <2>1, <2>3, <2>4
<1>4. CASE Claim
  <2>1. PICK B \in SUBSET (DOMAIN commands) :
           /\ sender' = [pc |-> "next", batch |-> B, command |-> 0]
           /\ DOMAIN commands' = DOMAIN commands
           /\ \A k \in B : commands[k].status = "due"
           /\ \A k \in DOMAIN commands \ B : commands'[k] = commands[k] /\ commands[k].status # "running"
    BY <1>4, ClaimEffect
  <2>2. delivered' = delivered
    BY <1>4 DEF Claim
  <2> QED BY <1>2, <2>1, <2>2 DEF Open
<1>5. ASSUME NEW k \in DOMAIN commands, Handle(k)
      PROVE  /\ delivered'[c] <= 1 + throws' + crashes'
             /\ Open(c)' => delivered'[c] <= throws' + crashes'
  <2>1. sender.pc = "next" /\ UNCHANGED <<commands, delivered>>
    BY <1>5 DEF Handle
  <2> QED BY <1>2, <2>1 DEF Open
<1>6. CASE SendSucceeds \/ SendFails
  <2>1. /\ sender.pc = "sending" /\ HasCommand /\ UNCHANGED commands
        /\ \E more \in {0, 1} : delivered' = [delivered EXCEPT ![sender.command] = @ + more]
    BY <1>6 DEF SendSucceeds, SendFails, HasCommand
  <2>2. \E p \in {"sent", "failed"} :
          sender' = [pc |-> p, batch |-> sender.batch, command |-> sender.command]
    BY <1>6, TheSender DEF SendSucceeds, SendFails
  <2>3. c \in DOMAIN commands
    BY <2>1
  <2>4. CASE c # sender.command
    BY <1>2, <2>1, <2>2, <2>3, <2>4, SendEffect DEF Open
  <2>5. CASE c = sender.command
    <3>1. commands[c].status = "running"
      BY <2>1, <2>3, <2>5 DEF SenderOK
    <3>2. Open(c) /\ ~Open(c)'
      BY <2>1, <2>2, <2>5, <3>1 DEF Open
    <3>3. delivered'[c] = delivered[c] \/ delivered'[c] = delivered[c] + 1
      BY <1>1, <2>1, <2>3, <2>5, SendEffect
    <3> QED BY <1>0, <1>1, <2>3, <3>2, <3>3
  <2> QED BY <2>4, <2>5
<1>7. CASE Report
  <2>1. /\ sender' = [pc |-> "handled", batch |-> sender.batch, command |-> sender.command]
        /\ sender.pc \in {"sent", "failed"} /\ UNCHANGED <<commands, delivered>>
    BY <1>7, TheSender DEF Report
  <2> QED BY <1>2, <2>1 DEF Open
<1>8. ASSUME NEW status \in {"due", "acked", "dead_letter"}, HasCommand, Settle(status), delivered' = delivered,
             status = "due" => throws' + crashes' > throws + crashes
      PROVE  /\ delivered'[c] <= 1 + throws' + crashes'
             /\ Open(c)' => delivered'[c] <= throws' + crashes'
  <2>1. /\ sender.command \in DOMAIN commands /\ DOMAIN commands' = DOMAIN commands
        /\ commands'[sender.command].status = status
        /\ \A k \in DOMAIN commands : k # sender.command => commands'[k] = commands[k]
        /\ sender' = Idle \/ sender' = [pc |-> "next", batch |-> sender.batch \ {sender.command}, command |-> 0]
    BY <1>8, SettleEffect
  <2>2. CASE c = sender.command
    BY <1>2, <1>8, <2>1, <2>2 DEF Open
  <2>3. CASE c # sender.command
    <3>1. Open(c)' => Open(c)
      BY <2>1, <2>3 DEF Open
    <3> QED BY <1>2, <1>8, <2>1, <2>3, <3>1
  <2> QED BY <2>2, <2>3
<1>9. CASE AckCommand
  BY <1>8, <1>9 DEF AckCommand, HasCommand
<1>10. CASE SenderThrows
  <2>1. throws' + crashes' > throws + crashes /\ delivered' = delivered
    BY <1>0, <1>10 DEF SenderThrows
  <2>2. CASE sender.pc = "sent"
    BY <1>2, <1>10, <2>1, <2>2 DEF SenderThrows
  <2>3. CASE sender.pc # "sent"
    BY <1>8, <1>10, <2>1, <2>3 DEF SenderThrows, HasCommand
  <2> QED BY <2>2, <2>3
<1>11. CASE Crash
  <2>1. DOMAIN commands' = DOMAIN commands
    BY <1>11, CrashEffect
  <2>2. throws' + crashes' > throws + crashes /\ delivered' = delivered
    BY <1>0, <1>11 DEF Crash
  <2> QED BY <1>2, <2>1, <2>2
<1>12. CASE UNCHANGED <<commands, delivered, sender>>
  BY <1>2, <1>12 DEF Open
<1> QED
  BY <1>3, <1>4, <1>5, <1>6, <1>7, <1>9, <1>10, <1>11, <1>12
     DEF Next, vars, ReceiverStep, SenderStep, Write, Answered, SaveSyncBuf, Ingest, UpsertConversation,
         ReceiverThrows, ReceiverReturns, Start, Stop, Stopped

-----------------------------------------------------------------------------
(* The receiver *)

LEMMA InboundStays ==
  ASSUME TypeOK, [Next]_vars
  PROVE  /\ Len(inbound') \in Nat /\ Len(inbound) <= Len(inbound')
         /\ DOMAIN inbound' = 1..Len(inbound')
         /\ \A n \in DOMAIN inbound : n \in DOMAIN inbound' /\ inbound'[n] = inbound[n]
<1>0. inbound \in Seq(Kind) /\ Len(inbound) \in Nat
  BY Numbers DEF TypeOK
<1>1. ASSUME NEW kind \in Kind, Write(kind)
      PROVE  /\ Len(inbound') \in Nat /\ Len(inbound) <= Len(inbound')
             /\ DOMAIN inbound' = 1..Len(inbound')
             /\ \A n \in DOMAIN inbound : n \in DOMAIN inbound' /\ inbound'[n] = inbound[n]
  <2>1. inbound' = Append(inbound, kind)
    BY <1>1 DEF Write
  <2> QED BY <1>0, <2>1, Appended
<1>2. CASE inbound' = inbound
  BY <1>0, <1>2
<1>3. (\E kind \in Kind : Write(kind)) \/ inbound' = inbound
  BY DEF Next, vars, ReceiverStep, SenderStep, Answered, SaveSyncBuf, Ingest, UpsertConversation,
         ReceiverThrows, ReceiverReturns, Command, Claim, Handle, SendSucceeds, SendFails, Report, AckCommand,
         SenderThrows, Start, Stop, Stopped, Crash
<1> QED BY <1>1, <1>2, <1>3

(* Only the message in hand is ever added to the log. *)
LEMMA LoggedStays ==
  ASSUME TypeOK, ReceiverOK, [Next]_vars
  PROVE  /\ \A n : Logged(n) => Logged(n)'
         /\ \A n : Logged(n)' => Logged(n) \/ (Ingest /\ n = receiver.next)
         /\ \A n : Ingest /\ n = receiver.next => Logged(n)'
<1> USE DEF receiving, sending, bounds
<1>1. CASE Ingest
  <2> DEFINE m == receiver.next
  <2>1. m \in DOMAIN inbound /\ logged \in Seq(DOMAIN inbound)
    BY <1>1, Numbers DEF Ingest, ReceiverOK, InFlight
  <2>2. CASE Known(m)
    <3>1. logged' = logged
      BY <1>1, <2>2 DEF Ingest
    <3> QED BY <1>1, <2>2, <3>1 DEF Logged, Known
  <2>3. CASE ~Known(m)
    <3>1. logged' = Append(logged, m)
      BY <1>1, <2>3 DEF Ingest
    <3>2. /\ DOMAIN logged' = DOMAIN logged \cup {Len(logged) + 1}
          /\ \A i \in DOMAIN logged : logged'[i] = logged[i]
          /\ logged'[Len(logged) + 1] = m
      BY <2>1, <3>1, Appended
    <3> QED BY <1>1, <3>2 DEF Logged
  <2> QED BY <2>2, <2>3
<1>2. CASE logged' = logged /\ ~Ingest
  BY <1>2 DEF Logged
<1>3. Ingest \/ logged' = logged
  BY DEF Next, vars, ReceiverStep, SenderStep, Write, Answered, SaveSyncBuf, UpsertConversation,
         ReceiverThrows, ReceiverReturns, Command, Claim, Handle, SendSucceeds, SendFails, Report, AckCommand,
         SenderThrows, Start, Stop, Stopped, Crash
<1> QED BY <1>1, <1>2, <1>3

(* An answer has at least a message, and as many as there are or as it can have. *)
LEMMA AnsweredEffect ==
  ASSUME TypeOK, Answered
  PROVE  \E upto \in 1..Len(inbound) :
           /\ receiver.buf < upto /\ upto <= receiver.buf + MaxAnswer
           /\ upto = receiver.buf + MaxAnswer \/ upto = Len(inbound)
           /\ \/ receiver' = [pc |-> "saving", buf |-> upto, next |-> receiver.buf + 1, upto |-> upto]
              \/ receiver' = [pc |-> "ingesting", buf |-> receiver.buf, next |-> receiver.buf + 1, upto |-> upto]
<1> DEFINE upto == Min({receiver.buf + MaxAnswer, Len(inbound)})
<1>1. receiver.buf \in Nat /\ receiver.buf < Len(inbound) /\ MaxAnswer \in Nat \ {0} /\ Len(inbound) \in Nat
  BY Numbers DEF Answered
<1>2. upto = IF receiver.buf + MaxAnswer <= Len(inbound) THEN receiver.buf + MaxAnswer ELSE Len(inbound)
  BY <1>1, Smaller
<1>3. \/ receiver' = [pc |-> "saving", buf |-> upto, next |-> receiver.buf + 1, upto |-> upto]
      \/ receiver' = [pc |-> "ingesting", buf |-> receiver.buf, next |-> receiver.buf + 1, upto |-> upto]
  BY DEF Answered
<1> HIDE DEF upto
<1>4. upto \in 1..Len(inbound) /\ receiver.buf < upto /\ upto <= receiver.buf + MaxAnswer
  BY <1>1, <1>2
<1>5. upto = receiver.buf + MaxAnswer \/ upto = Len(inbound)
  BY <1>2
<1> QED BY <1>3, <1>4, <1>5

(* From a message the receiver goes to its conversation, or on. *)
LEMMA IngestEffect ==
  ASSUME TypeOK, Ingest
  PROVE  \/ /\ inbound[receiver.next].owner
            /\ receiver' = [pc |-> "logged", buf |-> receiver.buf, next |-> receiver.next, upto |-> receiver.upto]
         \/ /\ ~inbound[receiver.next].owner
            /\ receiver' = AfterMessage
BY TheReceiver DEF Ingest

LEMMA ReceiverOKStep ==
  ASSUME TypeOK, ReceiverOK, [Next]_vars
  PROVE  ReceiverOK'
<1> USE DEF receiving, sending, bounds
<1>0. /\ receiver.buf \in Nat /\ receiver.next \in Nat /\ receiver.upto \in Nat /\ syncBuf \in Nat
      /\ MaxAnswer \in Nat \ {0}
  BY Numbers
<1>1. ASSUME NEW kind \in Kind, Write(kind)
      PROVE  ReceiverOK'
  <2>1. UNCHANGED <<daemon, receiver, syncBuf, logged>>
    BY <1>1 DEF Write
  <2>2. receiver.pc = "logged" => inbound'[receiver.next] = inbound[receiver.next]
    <3>1. receiver.pc = "logged" => receiver.next \in DOMAIN inbound
      BY Numbers DEF ReceiverOK, InFlight
    <3> QED BY <3>1, InboundStays
  <2> QED BY <2>1, <2>2 DEF ReceiverOK, InFlight, Logged
<1>2. CASE Answered
  <2>1. PICK upto \in 1..Len(inbound) :
           /\ receiver.buf < upto /\ upto <= receiver.buf + MaxAnswer
           /\ \/ receiver' = [pc |-> "saving", buf |-> upto, next |-> receiver.buf + 1, upto |-> upto]
              \/ receiver' = [pc |-> "ingesting", buf |-> receiver.buf, next |-> receiver.buf + 1, upto |-> upto]
    BY <1>2, AnsweredEffect
  <2>2. daemon' # "down" /\ syncBuf' = syncBuf /\ syncBuf <= receiver.buf /\ upto \in Nat
    BY <1>2, Numbers DEF Answered, ReceiverOK
  <2> QED BY <1>0, <2>1, <2>2 DEF ReceiverOK, InFlight
<1>3. CASE SaveSyncBuf
  <2>1. receiver' = [pc |-> "ingesting", buf |-> receiver.buf, next |-> receiver.next, upto |-> receiver.upto]
    BY <1>3, TheReceiver DEF SaveSyncBuf
  <2>2. receiver.pc = "saving" /\ syncBuf' = receiver.buf /\ daemon' = daemon
    BY <1>3 DEF SaveSyncBuf
  <2>3. daemon # "down"
    BY <2>2 DEF ReceiverOK, Off
  <2> QED BY <1>0, <2>1, <2>2, <2>3 DEF ReceiverOK, InFlight
<1>4. ASSUME InFlight, receiver' = AfterMessage, UNCHANGED <<daemon, syncBuf>>
      PROVE  ReceiverOK'
  <2>1. daemon # "down" /\ syncBuf <= receiver.buf
    BY <1>4 DEF ReceiverOK, Off, InFlight
  <2>2. CASE receiver' = Polling(receiver.buf)
    BY <1>4, <2>1, <2>2 DEF ReceiverOK, InFlight, Polling
  <2>3. CASE /\ receiver.next < receiver.upto
             /\ receiver' = [pc |-> "ingesting", buf |-> receiver.buf,
                             next |-> receiver.next + 1, upto |-> receiver.upto]
    BY <1>0, <1>4, <2>1, <2>3 DEF ReceiverOK, InFlight
  <2> QED BY <1>4, <2>2, <2>3, AfterMessageIs
<1>5. CASE Ingest
  <2>1. receiver.pc = "ingesting" /\ InFlight /\ UNCHANGED <<daemon, syncBuf, inbound>>
    BY <1>5 DEF Ingest, InFlight
  <2>2. daemon # "down" /\ syncBuf <= receiver.buf
    BY <2>1 DEF ReceiverOK, Off
  <2>3. CASE /\ inbound[receiver.next].owner
             /\ receiver' = [pc |-> "logged", buf |-> receiver.buf, next |-> receiver.next, upto |-> receiver.upto]
    <3>1. \A n : n = receiver.next => Logged(n)'
      BY <1>5, LoggedStays
    <3>2. Logged(receiver.next)'
      BY <2>3, <3>1 DEF Logged
    <3>3. inbound'[receiver'.next].owner
      BY <2>1, <2>3
    <3>4. receiver'.pc = "logged" /\ syncBuf' <= receiver'.buf
      BY <2>1, <2>2, <2>3
    <3> QED BY <1>0, <2>1, <2>2, <2>3, <3>2, <3>3, <3>4 DEF ReceiverOK, InFlight
  <2> QED BY <1>4, <1>5, <2>1, <2>3, IngestEffect
<1>6. CASE UpsertConversation
  BY <1>4, <1>6 DEF UpsertConversation, InFlight
<1>7. CASE ReceiverThrows
  <2>1. InFlight /\ UNCHANGED <<daemon, syncBuf>> /\ receiver' = Polling(receiver.buf)
    BY <1>7 DEF ReceiverThrows, InFlight
  <2>2. daemon # "down" /\ syncBuf <= receiver.buf
    BY <2>1 DEF ReceiverOK, Off, InFlight
  <2> QED BY <2>1, <2>2 DEF ReceiverOK, InFlight, Polling
<1>8. CASE ReceiverReturns \/ Crash
  BY <1>8 DEF ReceiverReturns, Crash, ReceiverOK, InFlight, Off
<1>9. CASE Start
  BY <1>0, <1>9 DEF Start, ReceiverOK, InFlight, Polling
<1>10. CASE Stopped
  BY <1>10 DEF Stopped, ReceiverOK, InFlight, Logged
<1>11. CASE UNCHANGED <<inbound, receiving>> /\ (daemon' = daemon \/ daemon' # "down")
  BY <1>11 DEF ReceiverOK, InFlight, Logged
<1> QED
  BY <1>1, <1>2, <1>3, <1>5, <1>6, <1>7, <1>8, <1>9, <1>10, <1>11
     DEF Next, vars, ReceiverStep, SenderStep, Command, Claim, Handle, SendSucceeds, SendFails, Report,
         AckCommand, SenderThrows, Stop

LEMMA IngestedOnceStep ==
  ASSUME TypeOK, ReceiverOK, IngestedOnce, [Next]_vars
  PROVE  IngestedOnce'
<1> USE DEF receiving, sending, bounds
<1>0. logged \in Seq(DOMAIN inbound) /\ \A i \in DOMAIN logged : logged[i] \in DOMAIN inbound
  BY Numbers
<1>1. CASE Ingest
  <2> DEFINE m == receiver.next
  <2>1. m \in DOMAIN inbound /\ inbound' = inbound
    BY <1>1, Numbers DEF Ingest, ReceiverOK, InFlight
  <2>2. CASE Known(m)
    BY <1>1, <2>1, <2>2 DEF Ingest, IngestedOnce
  <2>3. CASE ~Known(m)
    <3>1. logged' = Append(logged, m)
      BY <1>1, <2>3 DEF Ingest
    <3>2. /\ DOMAIN logged' = DOMAIN logged \cup {Len(logged) + 1}
          /\ \A i \in DOMAIN logged : logged'[i] = logged[i]
          /\ logged'[Len(logged) + 1] = m
      BY <1>0, <2>1, <3>1, Appended
    <3>3. inbound[m].id => \A i \in DOMAIN logged : logged[i] # m
      BY <2>3 DEF Known
    <3> HIDE DEF m
    <3> QED BY <2>1, <3>2, <3>3 DEF IngestedOnce
  <2> QED BY <2>2, <2>3
<1>2. CASE logged' = logged
  BY <1>0, <1>2, InboundStays DEF IngestedOnce
<1> QED
  BY <1>1, <1>2 DEF Next, vars, ReceiverStep, SenderStep, Write, Answered, SaveSyncBuf, UpsertConversation,
         ReceiverThrows, ReceiverReturns, Command, Claim, Handle, SendSucceeds, SendFails, Report, AckCommand,
         SenderThrows, Start, Stop, Stopped, Crash

-----------------------------------------------------------------------------
(* What is lost *)

LEMMA Products ==
  ASSUME NEW k \in Nat, NEW l \in Nat, NEW m \in Nat, k <= l
  PROVE  /\ k * m \in Nat /\ l * m \in Nat
         /\ k * m <= l * m
         /\ (k + 1) * m = k * m + m
<1>1. k * m \in Nat /\ l * m \in Nat /\ (l - k) * m \in Nat
  OBVIOUS
<1>2. l * m = k * m + (l - k) * m
  OBVIOUS
<1>3. (k + 1) * m = k * m + m
  OBVIOUS
<1> QED BY <1>1, <1>2, <1>3

LEMMA LostIsFinite ==
  ASSUME TypeOK
  PROVE  IsFiniteSet(Lost) /\ Cardinality(Lost) \in Nat
<1>1. Cursor \in Nat
  BY Numbers DEF Cursor
<1>2. IsFiniteSet(1..Cursor) /\ Lost \in SUBSET (1..Cursor)
  BY <1>1, FS_Interval DEF Lost
<1> QED BY <1>2, FS_Subset, FS_CardinalityType

(* A step without a fault loses nothing, a fault what is left of an answer. *)
LEMMA LostStep ==
  ASSUME TypeOK, ReceiverOK, [Next]_vars
  PROVE  \/ Lost' \subseteq Lost
         \/ /\ ReceiverThrows \/ Crash
            /\ InFlight
            /\ Lost' \subseteq Lost \cup (receiver.next..receiver.upto)
<1> USE DEF receiving, sending, bounds
<1>0. /\ receiver.buf \in Nat /\ receiver.next \in Nat /\ receiver.upto \in Nat /\ syncBuf \in Nat
      /\ MaxAnswer \in Nat \ {0}
  BY Numbers
<1>1. \A n : ~Logged(n)' => ~Logged(n)
  BY LoggedStays
<1>2. CASE Answered
  <2>1. PICK upto \in 1..Len(inbound) :
           \/ receiver' = [pc |-> "saving", buf |-> upto, next |-> receiver.buf + 1, upto |-> upto]
           \/ receiver' = [pc |-> "ingesting", buf |-> receiver.buf, next |-> receiver.buf + 1, upto |-> upto]
    BY <1>2, AnsweredEffect
  <2>2. receiver.pc = "polling" /\ upto \in Nat
    BY <1>2, Numbers DEF Answered
  <2>3. Cursor = receiver.buf /\ ~InFlight
    BY <2>2 DEF Cursor, InFlight
  <2>4. InFlight' /\ Cursor' \in Nat /\ receiver'.next = receiver.buf + 1
    BY <1>0, <2>1, <2>2 DEF Cursor, InFlight
  <2> QED BY <1>0, <1>1, <2>3, <2>4 DEF Lost
<1>3. CASE SaveSyncBuf
  <2>1. receiver' = [pc |-> "ingesting", buf |-> receiver.buf, next |-> receiver.next, upto |-> receiver.upto]
    BY <1>3, TheReceiver DEF SaveSyncBuf
  <2>2. receiver.pc = "saving"
    BY <1>3 DEF SaveSyncBuf
  <2>3. Cursor' = Cursor /\ InFlight /\ InFlight' /\ receiver'.next = receiver.next
    BY <2>1, <2>2 DEF Cursor, InFlight
  <2> QED BY <1>1, <2>3 DEF Lost
<1>4. ASSUME InFlight, \A n : n = receiver.next => Logged(n)',
             \/ receiver' = AfterMessage
             \/ receiver' = [pc |-> "logged", buf |-> receiver.buf, next |-> receiver.next, upto |-> receiver.upto]
      PROVE  Lost' \subseteq Lost
  <2>1. /\ receiver.next <= receiver.upto
        /\ receiver.buf = receiver.upto \/ receiver.buf < receiver.next
        /\ Cursor = receiver.buf
    BY <1>4 DEF ReceiverOK, InFlight, Cursor
  <2>2. CASE receiver.next = receiver.upto /\ receiver' = Polling(receiver.buf)
    <3>1. Cursor' = receiver.buf
      BY <2>2 DEF Cursor, Polling
    <3>2. ASSUME NEW n \in 1..receiver.buf, ~Logged(n)'
          PROVE  ~(n >= receiver.next)
      BY <1>0, <1>4, <2>1, <2>2, <3>2
    <3> QED BY <1>1, <2>1, <3>1, <3>2 DEF Lost
  <2>3. CASE receiver' = [pc |-> "ingesting", buf |-> receiver.buf,
                          next |-> receiver.next + 1, upto |-> receiver.upto]
    <3>1. Cursor' = receiver.buf /\ InFlight' /\ receiver'.next = receiver.next + 1
      BY <2>3 DEF Cursor, InFlight
    <3>2. ASSUME NEW n \in 1..receiver.buf, ~Logged(n)', ~(n >= receiver.next + 1)
          PROVE  ~(n >= receiver.next)
      BY <1>0, <1>4, <3>2
    <3> QED BY <1>1, <2>1, <3>1, <3>2 DEF Lost
  <2>4. CASE receiver' = [pc |-> "logged", buf |-> receiver.buf, next |-> receiver.next, upto |-> receiver.upto]
    <3>1. Cursor' = receiver.buf /\ InFlight' /\ receiver'.next = receiver.next
      BY <2>4 DEF Cursor, InFlight
    <3> QED BY <1>1, <2>1, <3>1 DEF Lost
  <2> QED BY <1>4, <2>2, <2>3, <2>4, AfterMessageIs
<1>5. CASE Ingest
  BY <1>4, <1>5, LoggedStays, IngestEffect DEF Ingest, InFlight
<1>6. CASE UpsertConversation
  <2>1. InFlight /\ receiver' = AfterMessage /\ Logged(receiver.next)
    BY <1>6 DEF UpsertConversation, InFlight, ReceiverOK
  <2>2. \A n : n = receiver.next => Logged(n)'
    BY <2>1, LoggedStays
  <2> QED BY <1>4, <2>1, <2>2
<1>7. CASE ReceiverThrows \/ Crash
  <2>1. \/ receiver' = Polling(receiver.buf) /\ receiver.pc # "off"
        \/ receiver' = Off /\ syncBuf' = syncBuf
    BY <1>7 DEF ReceiverThrows, Crash
  <2>2. ~InFlight' /\ Cursor' <= Cursor /\ Cursor' \in Nat /\ Cursor \in Nat
    <3>1. CASE receiver' = Polling(receiver.buf) /\ receiver.pc # "off"
      BY <1>0, <3>1 DEF Polling, InFlight, Cursor
    <3>2. CASE receiver' = Off /\ syncBuf' = syncBuf
      BY <1>0, <3>2 DEF Off, InFlight, Cursor, ReceiverOK
    <3> QED BY <2>1, <3>1, <3>2
  <2>3. CASE ~InFlight
    BY <1>1, <2>2, <2>3 DEF Lost
  <2>4. CASE InFlight
    <3>1. ASSUME NEW n \in 1..Cursor, n >= receiver.next
          PROVE  n \in receiver.next..receiver.upto
      <4>1. Cursor = receiver.buf /\ (receiver.buf = receiver.upto \/ receiver.buf < receiver.next)
        BY <2>4 DEF Cursor, InFlight, ReceiverOK
      <4> QED BY <1>0, <3>1, <4>1
    <3> QED BY <1>1, <1>7, <2>2, <2>4, <3>1 DEF Lost
  <2> QED BY <2>3, <2>4
<1>8. CASE ReceiverReturns \/ Start
  <2>1. ~InFlight /\ ~InFlight' /\ Cursor' <= Cursor /\ Cursor' \in Nat /\ Cursor \in Nat
    BY <1>0, <1>8 DEF ReceiverReturns, Start, ReceiverOK, InFlight, Cursor, Off, Polling
  <2> QED BY <1>1, <2>1 DEF Lost
<1>9. CASE UNCHANGED <<syncBuf, receiver, logged>>
  BY <1>9 DEF Lost, Cursor, InFlight, Logged
<1> QED
  BY <1>2, <1>3, <1>5, <1>6, <1>7, <1>8, <1>9
     DEF Next, vars, ReceiverStep, SenderStep, Write, Command, Claim, Handle, SendSucceeds, SendFails, Report,
         AckCommand, SenderThrows, Stop, Stopped

LEMMA LossesStep ==
  ASSUME TypeOK, TypeOK', ReceiverOK, Losses, [Next]_vars
  PROVE  Losses'
<1> DEFINE k == throws + crashes
<1>1. /\ k \in Nat /\ MaxAnswer \in Nat /\ IsFiniteSet(Lost) /\ Cardinality(Lost) \in Nat
      /\ Cardinality(Lost) <= k * MaxAnswer
  BY Numbers, LostIsFinite DEF Losses
<1>2. /\ throws' = throws \/ throws' = throws + 1
      /\ crashes' = crashes \/ crashes' = crashes + 1
  BY DEF bounds, Next, vars, ReceiverStep, SenderStep, Write, Answered, SaveSyncBuf, Ingest,
       UpsertConversation, ReceiverThrows, ReceiverReturns, Command, Claim, Handle, SendSucceeds, SendFails,
       Report, AckCommand, SenderThrows, Start, Stop, Stopped, Crash
<1>3. k' \in Nat /\ k' >= k
  BY SMTT(30), <1>2, Numbers
<1>4. k * MaxAnswer <= k' * MaxAnswer /\ k * MaxAnswer \in Nat /\ k' * MaxAnswer \in Nat
  BY <1>1, <1>3, Products
<1>5. CASE Lost' \subseteq Lost
  <2>1. Cardinality(Lost') <= Cardinality(Lost) /\ Cardinality(Lost') \in Nat
    BY <1>1, <1>5, FS_Subset, FS_CardinalityType
  <2>2. Cardinality(Lost') <= k' * MaxAnswer
    BY <1>1, <1>4, <2>1
  <2> QED BY <2>2 DEF Losses
<1>6. CASE /\ ReceiverThrows \/ Crash
           /\ InFlight
           /\ Lost' \subseteq Lost \cup (receiver.next..receiver.upto)
  <2> DEFINE R == receiver.next..receiver.upto
  <2>1. IsFiniteSet(R) /\ Cardinality(R) \in Nat /\ Cardinality(R) <= MaxAnswer
    <3>1. /\ receiver.next \in Nat /\ receiver.upto \in Nat /\ receiver.next <= receiver.upto
          /\ receiver.upto < receiver.next + MaxAnswer
      BY <1>6, Numbers DEF ReceiverOK
    <3>2. IsFiniteSet(R) /\ Cardinality(R) = receiver.upto - receiver.next + 1
      BY SMTT(30), <3>1, FS_Interval
    <3> QED BY <1>1, <3>1, <3>2
  <2> HIDE DEF R
  <2>2. /\ IsFiniteSet(Lost \cup R) /\ IsFiniteSet(Lost \cap R)
        /\ Cardinality(Lost \cup R) = Cardinality(Lost) + Cardinality(R) - Cardinality(Lost \cap R)
    BY <1>1, <2>1, FS_Union, FS_Intersection
  <2>3. Cardinality(Lost \cap R) \in Nat /\ Cardinality(Lost \cup R) \in Nat
    BY <2>2, FS_CardinalityType
  <2>4. Cardinality(Lost \cup R) <= k * MaxAnswer + MaxAnswer
    BY <1>1, <1>4, <2>1, <2>2, <2>3
  <2>5. Cardinality(Lost') <= Cardinality(Lost \cup R) /\ Cardinality(Lost') \in Nat
    BY <1>6, <2>2, FS_Subset, FS_CardinalityType DEF R
  <2>6. k' >= k + 1
    BY SMTT(30), <1>2, <1>6, Numbers DEF ReceiverThrows, Crash
  <2>7. k * MaxAnswer + MaxAnswer <= k' * MaxAnswer
    <3>1. k + 1 \in Nat
      BY <1>1
    <3>2. (k + 1) * MaxAnswer <= k' * MaxAnswer
      BY <1>1, <1>3, <2>6, <3>1, Products
    <3>3. (k + 1) * MaxAnswer = k * MaxAnswer + MaxAnswer
      BY <1>1, Products
    <3> QED BY <3>2, <3>3
  <2>8. Cardinality(Lost') <= k' * MaxAnswer
    BY <1>1, <1>4, <2>3, <2>4, <2>5, <2>7
  <2> QED BY <2>8 DEF Losses
<1> QED BY <1>5, <1>6, LostStep

-----------------------------------------------------------------------------
(* The token *)

LEMMA TokensStep ==
  ASSUME TypeOK, ReceiverOK, Tokens, [Next]_vars
  PROVE  Tokens'
<1> USE DEF receiving, sending, bounds
<1> SUFFICES ASSUME throws' + crashes' = 0
             PROVE  /\ receiver'.pc \notin {"off", "saving"} => syncBuf' = receiver'.buf
                    /\ \A n \in DOMAIN inbound' : Logged(n)' => n <= (Cursor + MaxAnswer)'
                    /\ InFlight' => \A n \in DOMAIN inbound' : Logged(n)' => n <= receiver'.upto
                    /\ conversation'.token # 0 =>
                         Logged(conversation.token)' /\ BringsToken(conversation.token)'
                    /\ \A n \in DOMAIN inbound' :
                         Logged(n)' /\ BringsToken(n)' /\ (InFlight' => n < receiver'.next) =>
                           n <= conversation'.token
  BY DEF Tokens
<1>0. /\ receiver.buf \in Nat /\ receiver.next \in Nat /\ receiver.upto \in Nat /\ syncBuf \in Nat
      /\ MaxAnswer \in Nat \ {0} /\ throws \in Nat /\ crashes \in Nat
      /\ conversation.token \in 0..Len(inbound) /\ Len(inbound) \in Nat
      /\ DOMAIN inbound = 1..Len(inbound)
  BY Numbers
<1>1. throws' = throws /\ crashes' = crashes
  <2>1. /\ throws' = throws \/ throws' = throws + 1
        /\ crashes' = crashes \/ crashes' = crashes + 1
    BY DEF Next, vars, ReceiverStep, SenderStep, Write, Answered, SaveSyncBuf, Ingest, UpsertConversation,
       ReceiverThrows, ReceiverReturns, Command, Claim, Handle, SendSucceeds, SendFails, Report, AckCommand,
       SenderThrows, Start, Stop, Stopped, Crash
  <2> QED BY <1>0, <2>1
<1>2. ~ReceiverThrows /\ ~SenderThrows /\ ~Crash
  BY <1>0, <1>1 DEF ReceiverThrows, SenderThrows, Crash
<1>3. /\ receiver.pc \notin {"off", "saving"} => syncBuf = receiver.buf
      /\ \A n \in DOMAIN inbound : Logged(n) => n <= Cursor + MaxAnswer
      /\ InFlight => \A n \in DOMAIN inbound : Logged(n) => n <= receiver.upto
      /\ conversation.token # 0 => Logged(conversation.token) /\ BringsToken(conversation.token)
      /\ \A n \in DOMAIN inbound :
           Logged(n) /\ BringsToken(n) /\ (InFlight => n < receiver.next) => n <= conversation.token
  BY <1>1 DEF Tokens
<1>4. /\ \A n : Logged(n) => Logged(n)'
      /\ \A n : Logged(n)' => Logged(n) \/ (Ingest /\ n = receiver.next)
      /\ \A n : Ingest /\ n = receiver.next => Logged(n)'
  BY LoggedStays
<1>5. \A n : Logged(n)' => n \in DOMAIN inbound
  <2>1. \A n : Logged(n) => n \in DOMAIN inbound
    BY Numbers DEF Logged
  <2>2. Ingest => receiver.next \in DOMAIN inbound
    BY Numbers DEF Ingest, ReceiverOK, InFlight
  <2> QED BY <1>4, <2>1, <2>2
<1>6. \A n \in DOMAIN inbound : BringsToken(n)' = BringsToken(n)
  BY InboundStays DEF BringsToken
(* The conversation stays, and nothing is logged now. *)
<1>7. ASSUME UNCHANGED conversation
      PROVE  conversation'.token # 0 =>
               Logged(conversation.token)' /\ BringsToken(conversation.token)'
  <2> SUFFICES ASSUME conversation.token # 0
               PROVE  Logged(conversation.token)' /\ BringsToken(conversation.token)'
    BY <1>7
  <2>1. /\ Logged(conversation.token) /\ BringsToken(conversation.token)
        /\ conversation.token \in DOMAIN inbound
    BY <1>0, <1>3
  <2>2. \A n : n = conversation.token => Logged(n)' /\ BringsToken(n)'
    BY <1>4, <1>6, <2>1
  <2> QED BY <1>7, <2>2 DEF Logged, BringsToken
<1>8. CASE Answered
  <2>1. PICK upto \in 1..Len(inbound) :
           /\ receiver.buf < upto /\ upto <= receiver.buf + MaxAnswer
           /\ upto = receiver.buf + MaxAnswer \/ upto = Len(inbound)
           /\ \/ receiver' = [pc |-> "saving", buf |-> upto, next |-> receiver.buf + 1, upto |-> upto]
              \/ receiver' = [pc |-> "ingesting", buf |-> receiver.buf, next |-> receiver.buf + 1, upto |-> upto]
    BY <1>8, AnsweredEffect
  <2>2. receiver.pc = "polling" /\ ~Ingest /\ UNCHANGED <<syncBuf, conversation>>
    BY <1>8 DEF Answered, Ingest
  <2>3. Cursor = receiver.buf /\ ~InFlight /\ upto \in Nat
    BY <1>0, <2>2 DEF Cursor, InFlight
  <2>4. /\ InFlight' /\ Cursor' \in Nat /\ Cursor' >= Cursor /\ receiver'.upto = upto
        /\ receiver'.pc # "saving" => receiver'.buf = receiver.buf
    <3>1. CASE receiver' = [pc |-> "saving", buf |-> upto, next |-> receiver.buf + 1, upto |-> upto]
      <4>1. receiver'.pc = "saving" /\ receiver'.buf = upto /\ receiver'.upto = upto
        BY <3>1
      <4>2. InFlight' /\ Cursor' = receiver'.buf
        BY <4>1 DEF Cursor, InFlight
      <4>3. receiver.buf \in Nat /\ upto \in Nat /\ receiver.buf < upto
        <5>1. receiver.buf \in Nat
          BY <1>0
        <5>2. upto \in Nat
          BY <2>3
        <5>3. receiver.buf < upto
          BY ONLY <2>1
        <5> QED BY <5>1, <5>2, <5>3
      <4>4. Cursor' \in Nat /\ Cursor' >= Cursor
        BY ONLY <2>3, <4>1, <4>2, <4>3
      <4> QED BY <4>1, <4>2, <4>4
    <3>2. CASE receiver' = [pc |-> "ingesting", buf |-> receiver.buf, next |-> receiver.buf + 1, upto |-> upto]
      <4>1. receiver'.pc = "ingesting" /\ receiver'.buf = receiver.buf /\ receiver'.upto = upto
        BY <3>2
      <4>2. InFlight' /\ Cursor' = receiver'.buf
        BY <4>1 DEF Cursor, InFlight
      <4>3. receiver.buf \in Nat /\ upto \in Nat /\ receiver.buf < upto
        <5>1. receiver.buf \in Nat
          BY <1>0
        <5>2. upto \in Nat
          BY <2>3
        <5>3. receiver.buf < upto
          BY ONLY <2>1
        <5> QED BY <5>1, <5>2, <5>3
      <4>4. Cursor' \in Nat /\ Cursor' >= Cursor
        BY ONLY <2>3, <4>1, <4>2, <4>3
      <4> QED BY <4>1, <4>2, <4>4
    <3> QED BY <2>1, <3>1, <3>2
  <2>5. \A n : Logged(n)' => n \in DOMAIN inbound /\ n <= receiver.buf + MaxAnswer /\ n <= Len(inbound)
    BY <1>0, <1>3, <1>4, <1>5, <2>2, <2>3
  <2>6. \A n : Logged(n)' => n <= upto
    BY <1>0, <2>1, <2>5
  <2>7. \A n : Logged(n)' => n <= (Cursor + MaxAnswer)'
    BY <1>0, <2>3, <2>4, <2>5
  <2>8. \A n : Logged(n)' /\ BringsToken(n)' => n <= conversation'.token
    BY <1>3, <1>4, <1>5, <1>6, <2>2, <2>3
  <2> QED BY <1>3, <1>7, <2>2, <2>4, <2>6, <2>7, <2>8
<1>9. CASE SaveSyncBuf
  <2>1. receiver' = [pc |-> "ingesting", buf |-> receiver.buf, next |-> receiver.next, upto |-> receiver.upto]
    BY <1>9, TheReceiver DEF SaveSyncBuf
  <2>2. receiver.pc = "saving" /\ ~Ingest /\ syncBuf' = receiver.buf /\ conversation' = conversation
    BY <1>9 DEF SaveSyncBuf, Ingest
  <2>3. InFlight /\ InFlight' /\ Cursor' = Cursor
    BY <2>1, <2>2 DEF Cursor, InFlight
  <2>4. \A n : Logged(n)' => Logged(n) /\ n \in DOMAIN inbound
    BY <1>4, <1>5, <2>2
  <2> QED BY <1>3, <1>6, <1>7, <2>1, <2>2, <2>3, <2>4
(* After a message: what is logged before the next one is not newer than the token. *)
<1>10. ASSUME InFlight, receiver' = AfterMessage, receiver.pc # "saving", UNCHANGED syncBuf,
              \A n \in DOMAIN inbound :
                Logged(n)' /\ BringsToken(n)' /\ n <= receiver.next => n <= conversation'.token,
              conversation'.token # 0 =>
                Logged(conversation.token)' /\ BringsToken(conversation.token)'
       PROVE  /\ receiver'.pc \notin {"off", "saving"} => syncBuf' = receiver'.buf
              /\ \A n \in DOMAIN inbound' : Logged(n)' => n <= (Cursor + MaxAnswer)'
              /\ InFlight' => \A n \in DOMAIN inbound' : Logged(n)' => n <= receiver'.upto
              /\ conversation'.token # 0 =>
                   Logged(conversation.token)' /\ BringsToken(conversation.token)'
              /\ \A n \in DOMAIN inbound' :
                   Logged(n)' /\ BringsToken(n)' /\ (InFlight' => n < receiver'.next) =>
                     n <= conversation'.token
  <2>1. /\ receiver.next <= receiver.upto /\ receiver.upto <= receiver.buf + MaxAnswer
        /\ syncBuf = receiver.buf
    BY <1>3, <1>10 DEF ReceiverOK, InFlight
  <2>2. \A n : Logged(n)' => n \in DOMAIN inbound /\ n <= receiver.upto
    BY <1>3, <1>4, <1>5, <1>10, <2>1
  <2>3. CASE receiver.next = receiver.upto /\ receiver' = Polling(receiver.buf)
    <3>1. ~InFlight' /\ Cursor' = receiver.buf /\ receiver'.buf = receiver.buf
      BY <2>3 DEF InFlight, Cursor, Polling
    <3>2. \A n : Logged(n)' => n <= (Cursor + MaxAnswer)'
      BY <1>0, <2>1, <2>2, <3>1
    <3>3. \A n : Logged(n)' /\ BringsToken(n)' => n <= conversation'.token
      BY <1>10, <2>2, <2>3
    <3> QED BY <1>10, <2>1, <3>1, <3>2, <3>3
  <2>4. CASE receiver' = [pc |-> "ingesting", buf |-> receiver.buf,
                          next |-> receiver.next + 1, upto |-> receiver.upto]
    <3>1. /\ InFlight' /\ Cursor' = receiver.buf /\ receiver'.buf = receiver.buf
          /\ receiver'.upto = receiver.upto /\ receiver'.next = receiver.next + 1
      BY <2>4 DEF InFlight, Cursor
    <3>2. \A n : Logged(n)' => n <= (Cursor + MaxAnswer)'
      BY <1>0, <2>1, <2>2, <3>1
    <3>3. \A n : Logged(n)' /\ BringsToken(n)' /\ n < receiver.next + 1 => n <= conversation'.token
      BY <1>0, <1>10, <2>2
    <3> QED BY <1>10, <2>1, <2>2, <3>1, <3>2, <3>3
  <2> QED BY <1>10, <2>3, <2>4, AfterMessageIs
<1>11. CASE Ingest
  <2>1. /\ receiver.pc = "ingesting" /\ InFlight /\ UNCHANGED <<syncBuf, conversation>>
        /\ receiver.next \in DOMAIN inbound /\ receiver.next <= receiver.upto
    BY <1>11, Numbers DEF Ingest, InFlight, ReceiverOK
  <2>2. CASE /\ inbound[receiver.next].owner
             /\ receiver' = [pc |-> "logged", buf |-> receiver.buf, next |-> receiver.next, upto |-> receiver.upto]
    <3>1. /\ InFlight' /\ Cursor' = Cursor /\ receiver'.upto = receiver.upto /\ receiver'.next = receiver.next
          /\ receiver'.buf = receiver.buf /\ Cursor = receiver.buf
      BY <2>1, <2>2 DEF InFlight, Cursor
    <3>2. \A n : Logged(n)' => n \in DOMAIN inbound /\ n <= receiver.upto
      BY <1>3, <1>4, <1>5, <2>1
    <3>3. \A n : Logged(n)' => n <= (Cursor + MaxAnswer)'
      BY <1>0, <2>1, <3>1, <3>2 DEF ReceiverOK
    <3>4. \A n : Logged(n)' /\ BringsToken(n)' /\ n < receiver.next => n <= conversation'.token
      BY <1>0, <1>3, <1>4, <1>6, <2>1, <3>2
    <3> QED BY <1>3, <1>7, <2>1, <3>1, <3>2, <3>3, <3>4
  <2>3. CASE ~inbound[receiver.next].owner /\ receiver' = AfterMessage
    <3>1. ASSUME NEW n \in DOMAIN inbound, Logged(n)', BringsToken(n)', n <= receiver.next
          PROVE  n <= conversation'.token
      <4>1. BringsToken(n) /\ n # receiver.next
        BY <1>6, <2>3, <3>1 DEF BringsToken
      <4>2. Logged(n) /\ n < receiver.next
        BY <1>0, <1>4, <3>1, <4>1
      <4> QED BY <1>3, <2>1, <4>1, <4>2
    <3> QED BY <1>7, <1>10, <2>1, <2>3, <3>1
  <2> QED BY <1>11, <2>2, <2>3, IngestEffect
<1>12. CASE UpsertConversation
  <2> DEFINE m == receiver.next
  <2>1. /\ InFlight /\ receiver.pc = "logged" /\ receiver' = AfterMessage /\ syncBuf' = syncBuf /\ ~Ingest
        /\ m \in DOMAIN inbound /\ Logged(m) /\ inbound[m].owner
        /\ conversation' = [last |-> m, token |-> IF inbound[m].token THEN m ELSE conversation.token]
    BY <1>12, Numbers DEF UpsertConversation, Ingest, InFlight, ReceiverOK
  <2> HIDE DEF m
  <2>2. CASE inbound[m].token
    <3>1. conversation'.token = m
      BY <2>1, <2>2
    <3>2. \A n : n = m => Logged(n)' /\ BringsToken(n)'
      BY <1>4, <1>6, <2>1, <2>2 DEF BringsToken
    <3>3. Logged(conversation.token)' /\ BringsToken(conversation.token)'
      BY <3>1, <3>2 DEF Logged, BringsToken
    <3> QED BY <1>0, <1>10, <2>1, <3>1, <3>3 DEF m
  <2>3. CASE ~inbound[m].token
    <3>1. conversation'.token = conversation.token
      BY <2>1, <2>3
    <3>2. ASSUME NEW n \in DOMAIN inbound, Logged(n)', BringsToken(n)', n <= m
          PROVE  n <= conversation'.token
      <4>1. BringsToken(n) /\ n # m /\ Logged(n)
        BY <1>4, <1>6, <2>1, <2>3, <3>2 DEF BringsToken
      <4>2. n < m
        BY <1>0, <3>2, <4>1 DEF m
      <4> QED BY <1>3, <2>1, <3>1, <4>1, <4>2 DEF m
    <3>3. conversation'.token # 0 => Logged(conversation.token)' /\ BringsToken(conversation.token)'
      <4> SUFFICES ASSUME conversation'.token # 0
                   PROVE  Logged(conversation.token)' /\ BringsToken(conversation.token)'
        OBVIOUS
      <4>1. conversation.token \in DOMAIN inbound /\ Logged(conversation.token) /\ BringsToken(conversation.token)
        BY <1>0, <1>3, <3>1
      <4>2. \A n : n = conversation.token => Logged(n)' /\ BringsToken(n)'
        BY <1>4, <1>6, <4>1
      <4> QED BY <3>1, <4>2 DEF Logged, BringsToken
    <3> QED BY <1>10, <2>1, <3>2, <3>3 DEF m
  <2> QED BY <2>2, <2>3
<1>13. CASE ReceiverReturns \/ Start
  <2>1. ~InFlight /\ ~InFlight' /\ ~Ingest /\ UNCHANGED <<syncBuf, conversation>>
    BY <1>13 DEF ReceiverReturns, Start, ReceiverOK, InFlight, Off, Polling, Ingest
  <2>2. /\ Cursor' = Cursor
        /\ receiver'.pc \notin {"off", "saving"} => syncBuf' = receiver'.buf
    BY <1>3, <1>13 DEF ReceiverReturns, Start, ReceiverOK, Cursor, Off, Polling
  <2>3. \A n : Logged(n)' => Logged(n) /\ n \in DOMAIN inbound
    BY <1>4, <1>5, <2>1
  <2> QED BY <1>3, <1>6, <1>7, <2>1, <2>2, <2>3
<1>14. CASE UNCHANGED <<syncBuf, receiver, logged, conversation>>
  <2>1. Cursor' = Cursor /\ InFlight' = InFlight
    BY <1>14 DEF Cursor, InFlight
  <2>2. \A n : Logged(n)' => Logged(n) /\ n \in DOMAIN inbound
    BY <1>5, <1>14 DEF Logged
  <2> QED BY <1>3, <1>6, <1>7, <1>14, <2>1, <2>2
<1> QED
  BY <1>2, <1>8, <1>9, <1>11, <1>12, <1>13, <1>14
     DEF Next, vars, ReceiverStep, SenderStep, Write, Command, Claim, Handle, SendSucceeds, SendFails, Report,
         AckCommand, Stop, Stopped

-----------------------------------------------------------------------------
(* The invariant holds *)

LEMMA WechatInvInit ==
  ASSUME Init
  PROVE  WechatInv
<1> USE LimitsAssumption DEF Init, Off, Idle
<1>1. TypeOK
  BY DEF TypeOK
<1>2. ReceiverOK /\ SenderOK
  BY DEF ReceiverOK, SenderOK, InFlight, HasCommand
<1>3. Attempts /\ Reported /\ Deliveries /\ IngestedOnce /\ AckedIsReported
  BY DEF Attempts, Reported, Deliveries, IngestedOnce, AckedIsReported
<1>4. Losses
  <2>1. Lost = {}
    BY DEF Lost, Cursor
  <2> QED BY <2>1, FS_EmptySet DEF Losses
<1>5. Tokens
  BY DEF Tokens, Cursor, InFlight, Logged
<1> QED BY <1>1, <1>2, <1>3, <1>4, <1>5 DEF WechatInv

LEMMA WechatInvStep ==
  ASSUME WechatInv, [Next]_vars
  PROVE  WechatInv'
<1>1. TypeOK' /\ ReceiverOK' /\ SenderOK'
  BY TypeStep, ReceiverOKStep, SenderOKStep DEF WechatInv
<1>2. Attempts' /\ Reported' /\ Deliveries' /\ AckedIsReported'
  BY AttemptsStep, ReportedStep, DeliveriesStep, AckedStep DEF WechatInv
<1>3. IngestedOnce' /\ Losses' /\ Tokens'
  BY <1>1, IngestedOnceStep, LossesStep, TokensStep DEF WechatInv
<1> QED BY <1>1, <1>2, <1>3 DEF WechatInv

LEMMA WechatInvHolds == Spec => []WechatInv
<1>1. Init => WechatInv
  BY WechatInvInit
<1>2. WechatInv /\ [Next]_vars => WechatInv'
  BY WechatInvStep
<1> QED BY <1>1, <1>2, PTL DEF Spec

-----------------------------------------------------------------------------
(* The properties *)

(* Every variable of the receiver, the sender and the daemon has its type: a cursor never *)
(* passes what was written, and a row's attempts stay within the budget and the crashes.  *)
THEOREM WechatTypes == Spec => []TypeOK
<1>1. WechatInv => TypeOK
  BY DEF WechatInv
<1> QED BY <1>1, WechatInvHolds, PTL

(* However often an answer is repeated, a write throws or the process dies, the dedupe    *)
(* key lets a message that has an id into the log once.                                   *)
THEOREM MessagesAreIngestedOnce == Spec => []IngestedOnce
<1>1. WechatInv => IngestedOnce
  BY DEF WechatInv
<1> QED BY <1>1, WechatInvHolds, PTL

(* A command is acked only behind its report, and reported as sent only if it arrived.    *)
THEOREM AcksFollowReports == Spec => []AckedIsReported
<1>1. WechatInv => AckedIsReported
  BY DEF WechatInv
<1> QED BY <1>1, WechatInvHolds, PTL

(* A text arrives more than once only after as many throws or crashes.                    *)
THEOREM RepeatedTextsNeedFaults == Spec => []RepeatsNeedFaults
<1>1. WechatInv => RepeatsNeedFaults
  BY DEF WechatInv, Deliveries, RepeatsNeedFaults
<1> QED BY <1>1, WechatInvHolds, PTL

(* The cursor that runs ahead of the log costs at most the rest of one answer for each    *)
(* throw or crash, however many answers there are.                                        *)
THEOREM LossesAreBounded == Spec => []OneAnswerPerFault
<1>1. ASSUME WechatInv
      PROVE  OneAnswerPerFault
  <2>1. /\ Cardinality(Lost) <= (throws + crashes) * MaxAnswer
        /\ Cardinality(Lost) \in Nat
        /\ receiver.pc = "off" => receiver.buf = 0
    BY <1>1, LostIsFinite DEF WechatInv, Losses, ReceiverOK, Off
  <2>2. CASE receiver.pc = "off"
    <3>1. Skipped = {}
      <4>1. \A n \in 1..receiver.buf : FALSE
        BY <2>1, <2>2
      <4> QED BY <4>1 DEF Skipped
    <3>2. Cardinality(Skipped) = 0
      BY <3>1, FS_EmptySet
    <3> QED BY <2>1, <3>2, Products, <1>1, Numbers DEF OneAnswerPerFault, WechatInv
  <2>3. CASE receiver.pc # "off"
    <3>1. Skipped = Lost
      BY <2>3 DEF Skipped, Lost, Cursor, InFlight
    <3> QED BY <2>1, <3>1 DEF OneAnswerPerFault
  <2> QED BY <2>2, <2>3
<1> QED BY <1>1, WechatInvHolds, PTL

(* Without a fault the conversation holds, whenever the receiver polls, the newest token  *)
(* of the owner's messages that were logged, also when answers came twice.                *)
THEOREM TheTokenIsTheNewest == Spec => []TokenIsNewest
<1>1. ASSUME WechatInv, receiver.pc = "polling", throws + crashes = 0
      PROVE  conversation.token =
               Max({0} \cup {n \in DOMAIN inbound : Logged(n) /\ inbound[n].owner /\ inbound[n].token})
  <2> DEFINE S == {0} \cup {n \in DOMAIN inbound : Logged(n) /\ inbound[n].owner /\ inbound[n].token}
  <2>1. conversation.token \in Nat /\ conversation.token \in {0} \cup DOMAIN inbound /\ S \subseteq Nat
    BY <1>1, Numbers DEF WechatInv
  <2>2. conversation.token \in S /\ \A n \in S : n <= conversation.token
    BY <1>1, <2>1 DEF WechatInv, Tokens, BringsToken, InFlight
  <2>3. \A x \in S : (\A y \in S : x >= y) => x = conversation.token
    BY <2>1, <2>2
  <2>4. conversation.token \in S /\ \A y \in S : conversation.token >= y
    BY <2>1, <2>2
  <2> HIDE DEF S
  <2>5. Max(S) = conversation.token
    BY <2>3, <2>4 DEF Max
  <2> QED BY <2>5 DEF S
<1>2. WechatInv => TokenIsNewest
  BY <1>1 DEF TokenIsNewest
<1> QED BY <1>2, WechatInvHolds, PTL
=============================================================================
