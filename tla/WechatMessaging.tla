--------------------------- MODULE WechatMessaging ---------------------------
(***************************************************************************)
(* WeChat as an external device: the receiver that polls for messages and  *)
(* ingests them, and the sender that carries out the send commands.  They  *)
(* meet in the owner's conversation, whose context token every reply       *)
(* needs, and in the account, which the adapter has only while the         *)
(* receiver runs.                                                          *)
(*                                                                         *)
(* One daemon.  The receiver yields while it polls and the sender while it *)
(* sends; from an answer to the next poll, or to the next send, nothing    *)
(* else runs (~Yielded), but the process can die between two writes and a  *)
(* write can throw.  The hub is that of EventHub without time and order: a *)
(* due command may be next, and one that failed or that a dead process     *)
(* held is due again.  Left out: polls without messages, and the delays    *)
(* and alerts after polls that fail, which change neither cursor nor log;  *)
(* a write of the cursor file is one step.                                 *)
(***************************************************************************)
EXTENDS Naturals, Sequences, FiniteSets, FiniteSetsExt

CONSTANTS
  Kind,         \* what users may send: a set of [owner, token, id : BOOLEAN]
  MaxAnswer,    \* messages in one answer to a poll
  SenderBatch,  \* senderConcurrency
  MaxAttempts,
  MaxInbound,   \* bound: messages from users
  MaxCommands,  \* bound: send commands
  MaxRepeats,   \* bound: answers without a new cursor
  MaxThrows,    \* bound: writes that throw
  MaxCrashes,   \* bound: how often the daemon dies
  MaxStops      \* bound: how often it is stopped

ASSUME KindAssumption == Kind \subseteq [owner : BOOLEAN, token : BOOLEAN, id : BOOLEAN]

ASSUME LimitsAssumption ==
  /\ {MaxAnswer, SenderBatch, MaxAttempts} \subseteq Nat \ {0}
  /\ {MaxInbound, MaxCommands, MaxRepeats, MaxThrows, MaxCrashes, MaxStops} \subseteq Nat

VARIABLES
  inbound,       \* in WeChat: what users have sent, in order
  delivered,     \* in WeChat: delivered[c], how often the text of command c arrived
  syncBuf,       \* the file of get_updates_buf, as the number of messages it counts as read
  logged,        \* event_log: the messages received or rejected, by their place in inbound
  conversation,  \* the owner's row of wechat_conversations: places in inbound, 0 for NULL
  commands,      \* the commands command.message.send_wechat, with their delivery
  reports,       \* event_log: event.message.sent and send_failed, as <<type, causation>>
  daemon,
  receiver,      \* the poll loop: buf is getUpdatesBuf, next..upto what is left of an answer
  sender,        \* the sender's loop: the batch it holds, and the command in hand
  repeats, throws, crashes, stops

vars == <<inbound, delivered, syncBuf, logged, conversation, commands, reports,
          daemon, receiver, sender, repeats, throws, crashes, stops>>

receiving == <<syncBuf, logged, conversation, receiver>>
sending == <<delivered, commands, reports, sender>>
bounds == <<repeats, throws, crashes, stops>>

Off == [pc |-> "off", buf |-> 0, next |-> 0, upto |-> 0]

Polling(buf) == [pc |-> "polling", buf |-> buf, next |-> 0, upto |-> 0]

Idle == [pc |-> "idle", batch |-> {}, command |-> 0]

Init ==
  /\ inbound = <<>>
  /\ delivered = <<>>
  /\ syncBuf = 0
  /\ logged = <<>>
  /\ conversation = [last |-> 0, token |-> 0]
  /\ commands = <<>>
  /\ reports = {}
  /\ daemon = "down"
  /\ receiver = Off
  /\ sender = Idle
  /\ repeats = 0 /\ throws = 0 /\ crashes = 0 /\ stops = 0

Yielded == receiver.pc \in {"off", "polling"} /\ sender.pc \in {"idle", "sending"}

-----------------------------------------------------------------------------
(* Receiving: runClawbotPollLoop and appendWechatInboundMessage *)

(* A user writes to the bot. *)
Write(kind) ==
  /\ Len(inbound) < MaxInbound
  /\ inbound' = Append(inbound, kind)
  /\ UNCHANGED <<receiving, sending, daemon, bounds>>

(* getUpdates resolves with the next messages.  The new cursor is in memory before it is  *)
(* in the file; an answer without one leaves both as they are.                            *)
Answered ==
  LET upto == Min({receiver.buf + MaxAnswer, Len(inbound)})
      got(pc, buf) == [pc |-> pc, buf |-> buf, next |-> receiver.buf + 1, upto |-> upto]
  IN  /\ Yielded
      /\ daemon = "up"
      /\ receiver.pc = "polling"
      /\ receiver.buf < Len(inbound)
      /\ \/ receiver' = got("saving", upto) /\ UNCHANGED repeats
         \/ /\ repeats < MaxRepeats
            /\ repeats' = repeats + 1
            /\ receiver' = got("ingesting", receiver.buf)
      /\ UNCHANGED <<inbound, syncBuf, logged, conversation, sending, daemon, throws, crashes, stops>>

SaveSyncBuf ==
  /\ receiver.pc = "saving"
  /\ syncBuf' = receiver.buf
  /\ receiver' = [receiver EXCEPT !.pc = "ingesting"]
  /\ UNCHANGED <<inbound, logged, conversation, sending, daemon, bounds>>

(* Mutant: one message more than the answer has. *)
AfterMessage_OffByOne ==
  IF receiver.next > receiver.upto THEN Polling(receiver.buf)
                                   ELSE [receiver EXCEPT !.pc = "ingesting", !.next = @ + 1]

(* The next message of the answer, or the next poll. *)
AfterMessage ==
  IF receiver.next = receiver.upto THEN Polling(receiver.buf)
                                   ELSE [receiver EXCEPT !.pc = "ingesting", !.next = @ + 1]

(* Mutant: the key is made of an id of our own. *)
Known_OwnId(n) == FALSE

(* The dedupe key is known.  A message without an id gets a fresh one, and so a fresh key. *)
Known(n) == inbound[n].id /\ \E i \in DOMAIN logged : logged[i] = n

(* Mutant: after a message of a stranger the rest of the answer is dropped. *)
Ingest_OwnersOnly ==
  LET n == receiver.next IN
    /\ receiver.pc = "ingesting"
    /\ logged' = IF Known(n) THEN logged ELSE Append(logged, n)
    /\ receiver' = IF inbound[n].owner THEN [receiver EXCEPT !.pc = "logged"]
                                       ELSE Polling(receiver.buf)
    /\ UNCHANGED <<inbound, syncBuf, conversation, sending, daemon, bounds>>

(* appendWechatInboundMessage: received or, from a stranger, rejected; once for each key. *)
Ingest ==
  LET n == receiver.next IN
    /\ receiver.pc = "ingesting"
    /\ logged' = IF Known(n) THEN logged ELSE Append(logged, n)
    /\ receiver' = IF inbound[n].owner THEN [receiver EXCEPT !.pc = "logged"]
                                       ELSE AfterMessage
    /\ UNCHANGED <<inbound, syncBuf, conversation, sending, daemon, bounds>>

(* Mutant: the token is taken from the message as it is. *)
UpsertConversation_NoCoalesce ==
  LET n == receiver.next IN
    /\ receiver.pc = "logged"
    /\ conversation' = [last |-> n, token |-> IF inbound[n].token THEN n ELSE 0]
    /\ receiver' = AfterMessage
    /\ UNCHANGED <<inbound, syncBuf, logged, sending, daemon, bounds>>

(* upsertWechatConversation, a write of its own and also for a duplicate. *)
UpsertConversation ==
  LET n == receiver.next IN
    /\ receiver.pc = "logged"
    /\ conversation' = [last |-> n, token |-> IF inbound[n].token THEN n ELSE conversation.token]
    /\ receiver' = AfterMessage
    /\ UNCHANGED <<inbound, syncBuf, logged, sending, daemon, bounds>>

(* A write throws: the loop logs it, waits, and polls on from the cursor in memory. *)
ReceiverThrows ==
  /\ receiver.pc \in {"saving", "ingesting", "logged"}
  /\ throws < MaxThrows
  /\ throws' = throws + 1
  /\ receiver' = Polling(receiver.buf)
  /\ UNCHANGED <<inbound, syncBuf, logged, conversation, sending, daemon, repeats, crashes, stops>>

(* The poll is aborted, and the adapter's account is cleared. *)
ReceiverReturns ==
  /\ Yielded
  /\ daemon = "stopping"
  /\ receiver.pc = "polling"
  /\ receiver' = Off
  /\ UNCHANGED <<inbound, syncBuf, logged, conversation, sending, daemon, bounds>>

-----------------------------------------------------------------------------
(* Sending: createWechatSenderHandler and ClawbotWechatAdapter.sendMessage *)

(* A tool of the supervisor asks for a message; the sender will refuse a blank text or a  *)
(* target that is not the owner.                                                          *)
Command(refused) ==
  /\ Yielded
  /\ daemon # "down"
  /\ Len(commands) < MaxCommands
  /\ commands' = Append(commands, [refused |-> refused, status |-> "due", attempts |-> 0])
  /\ delivered' = Append(delivered, 0)
  /\ UNCHANGED <<inbound, receiving, reports, sender, daemon, bounds>>

Due == {c \in DOMAIN commands : commands[c].status = "due"}

Claim ==
  /\ Yielded
  /\ daemon = "up"
  /\ sender.pc = "idle"
  /\ Due # {}
  /\ \E B \in kSubset(Min({SenderBatch, Cardinality(Due)}), Due) :
       /\ commands' = [c \in DOMAIN commands |->
                         IF c \in B
                           THEN [commands[c] EXCEPT !.status = "running", !.attempts = @ + 1]
                           ELSE commands[c]]
       /\ sender' = [pc |-> "next", batch |-> B, command |-> 0]
  /\ UNCHANGED <<inbound, delivered, reports, receiving, daemon, bounds>>

(* The handler refuses the command, or the adapter lacks the account or the token. *)
CannotSend(c) == commands[c].refused \/ receiver.pc = "off" \/ conversation.token = 0

Handle(c) ==
  /\ sender.pc = "next"
  /\ c \in sender.batch
  /\ sender' = [sender EXCEPT !.pc = IF CannotSend(c) THEN "failed" ELSE "sending", !.command = c]
  /\ UNCHANGED <<inbound, delivered, commands, reports, receiving, daemon, bounds>>

(* WeChat takes the text and says so. *)
SendSucceeds ==
  /\ Yielded
  /\ sender.pc = "sending"
  /\ delivered' = [delivered EXCEPT ![sender.command] = @ + 1]
  /\ sender' = [sender EXCEPT !.pc = "sent"]
  /\ UNCHANGED <<inbound, commands, reports, receiving, daemon, bounds>>

(* The request fails or times out, with the text arrived or not. *)
SendFails ==
  /\ Yielded
  /\ sender.pc = "sending"
  /\ \E arrived \in {0, 1} : delivered' = [delivered EXCEPT ![sender.command] = @ + arrived]
  /\ sender' = [sender EXCEPT !.pc = "failed"]
  /\ UNCHANGED <<inbound, commands, reports, receiving, daemon, bounds>>

(* Mutant: the report of a failure is left to the log line. *)
Report_SentOnly ==
  /\ sender.pc \in {"sent", "failed"}
  /\ reports' = IF sender.pc = "sent" THEN reports \cup {<<"event.message.sent", sender.command>>}
                                      ELSE reports
  /\ sender' = [sender EXCEPT !.pc = "handled"]
  /\ UNCHANGED <<inbound, delivered, commands, receiving, daemon, bounds>>

Report ==
  /\ sender.pc \in {"sent", "failed"}
  /\ LET type == IF sender.pc = "sent" THEN "event.message.sent" ELSE "event.message.send_failed"
     IN  reports' = reports \cup {<<type, sender.command>>}
  /\ sender' = [sender EXCEPT !.pc = "handled"]
  /\ UNCHANGED <<inbound, delivered, commands, receiving, daemon, bounds>>

(* The row of the command in hand is settled, and the loop goes on in its batch. *)
Settle(status) ==
  LET rest == sender.batch \ {sender.command} IN
    /\ commands' = [commands EXCEPT ![sender.command].status = status]
    /\ sender' = IF rest = {} THEN Idle ELSE [pc |-> "next", batch |-> rest, command |-> 0]

(* Mutant: a failed send is thrown on after its report, so that the hub retries it. *)
AckCommand_Rethrow ==
  /\ sender.pc = "handled"
  /\ LET c == sender.command
     IN  Settle(IF <<"event.message.sent", c>> \in reports THEN "acked"
                ELSE IF commands[c].attempts >= MaxAttempts THEN "dead_letter" ELSE "due")
  /\ UNCHANGED <<inbound, delivered, reports, receiving, daemon, bounds>>

AckCommand ==
  /\ sender.pc = "handled"
  /\ Settle("acked")
  /\ UNCHANGED <<inbound, delivered, reports, receiving, daemon, bounds>>

(* A write throws.  When it was the report of a sent text, the catch block reports it as  *)
(* failed; otherwise the row fails.                                                       *)
SenderThrows ==
  /\ sender.pc \in {"sent", "failed", "handled"}
  /\ throws < MaxThrows
  /\ throws' = throws + 1
  /\ IF sender.pc = "sent"
       THEN sender' = [sender EXCEPT !.pc = "failed"] /\ UNCHANGED commands
       ELSE Settle(IF commands[sender.command].attempts >= MaxAttempts THEN "dead_letter" ELSE "due")
  /\ UNCHANGED <<inbound, delivered, reports, receiving, daemon, repeats, crashes, stops>>

-----------------------------------------------------------------------------
(* The daemon *)

(* The receiver sets the account and reads the cursor from the file. *)
Start ==
  /\ daemon = "down"
  /\ daemon' = "up"
  /\ receiver' = Polling(syncBuf)
  /\ UNCHANGED <<inbound, syncBuf, logged, conversation, sending, bounds>>

Stop ==
  /\ Yielded
  /\ daemon = "up"
  /\ stops < MaxStops
  /\ stops' = stops + 1
  /\ daemon' = "stopping"
  /\ UNCHANGED <<inbound, receiving, sending, repeats, throws, crashes>>

(* All components have returned: the receiver, and the sender at the end of its batch. *)
Stopped ==
  /\ daemon = "stopping"
  /\ receiver.pc = "off"
  /\ sender.pc = "idle"
  /\ daemon' = "down"
  /\ UNCHANGED <<inbound, receiving, sending, bounds>>

(* Mutant: rows that a dead process held are never claimed again. *)
Crash_LeasesKept ==
  /\ daemon # "down"
  /\ crashes < MaxCrashes
  /\ crashes' = crashes + 1
  /\ daemon' = "down"
  /\ receiver' = Off
  /\ sender' = Idle
  /\ UNCHANGED <<inbound, delivered, commands, syncBuf, logged, conversation, reports,
                 repeats, throws, stops>>

(* The process dies; the leases of what it held run out. *)
Crash ==
  /\ daemon # "down"
  /\ crashes < MaxCrashes
  /\ crashes' = crashes + 1
  /\ daemon' = "down"
  /\ receiver' = Off
  /\ sender' = Idle
  /\ commands' = [c \in DOMAIN commands |->
                    IF commands[c].status = "running" THEN [commands[c] EXCEPT !.status = "due"]
                                                      ELSE commands[c]]
  /\ UNCHANGED <<inbound, delivered, syncBuf, logged, conversation, reports, repeats, throws, stops>>

ReceiverStep == Answered \/ SaveSyncBuf \/ Ingest \/ UpsertConversation \/ ReceiverReturns

SenderStep ==
  \/ Claim
  \/ \E c \in DOMAIN commands : Handle(c)
  \/ SendSucceeds \/ SendFails
  \/ Report \/ AckCommand

Next ==
  \/ \E kind \in Kind : Write(kind)
  \/ \E refused \in BOOLEAN : Command(refused)
  \/ ReceiverStep \/ ReceiverThrows
  \/ SenderStep \/ SenderThrows
  \/ Start \/ Stop \/ Stopped \/ Crash

Spec == Init /\ [][Next]_vars

(* The loops go on, a request ends at its timeout, and the daemon is started again. *)
FairSpec ==
  Spec /\ WF_vars(ReceiverStep) /\ WF_vars(SenderStep) /\ WF_vars(Start) /\ WF_vars(Stopped)

-----------------------------------------------------------------------------
(* Properties *)

TypeOK ==
  /\ inbound \in Seq(Kind)
  /\ delivered \in Seq(Nat) /\ Len(delivered) = Len(commands)
  /\ syncBuf \in 0..Len(inbound)
  /\ logged \in Seq(DOMAIN inbound)
  /\ conversation \in [last : 0..Len(inbound), token : 0..Len(inbound)]
  /\ commands \in Seq([refused : BOOLEAN, status : {"due", "running", "acked", "dead_letter"},
                       attempts : 0..(MaxAttempts + MaxCrashes)])
  /\ reports \subseteq {"event.message.sent", "event.message.send_failed"} \X (DOMAIN commands)
  /\ daemon \in {"up", "stopping", "down"}
  /\ receiver \in [pc : {"off", "polling", "saving", "ingesting", "logged"},
                   buf : 0..Len(inbound), next : 0..Len(inbound), upto : 0..Len(inbound)]
  /\ sender \in [pc : {"idle", "next", "sending", "sent", "failed", "handled"},
                 batch : SUBSET (DOMAIN commands), command : 0..Len(commands)]
  /\ repeats \in 0..MaxRepeats
  /\ throws \in 0..MaxThrows
  /\ crashes \in 0..MaxCrashes
  /\ stops \in 0..MaxStops

Logged(n) == \E i \in DOMAIN logged : logged[i] = n

(* A message with an id is logged once, although WeChat hands it over again when an       *)
(* answer brought no cursor or the process died before the cursor was saved.              *)
IngestedOnce ==
  \A i, j \in DOMAIN logged : logged[i] = logged[j] /\ inbound[logged[i]].id => i = j

(* Messages that the cursor has passed, and that are neither logged nor in hand. *)
Skipped ==
  {n \in 1..receiver.buf :
     ~Logged(n) /\ ~(receiver.pc \in {"saving", "ingesting", "logged"} /\ n >= receiver.next)}

(* The cursor moves before the messages are logged, so that a throw or a crash loses the  *)
(* rest of an answer; nothing else loses a message, and no fault loses more.              *)
OneAnswerPerFault == Cardinality(Skipped) <= (throws + crashes) * MaxAnswer

(* While no fault has come between the two writes, the conversation holds the newest      *)
(* token that the owner's messages brought, and a message without one leaves it.          *)
TokenIsNewest ==
  receiver.pc = "polling" /\ throws + crashes = 0 =>
    conversation.token =
      Max({0} \cup {n \in DOMAIN inbound : Logged(n) /\ inbound[n].owner /\ inbound[n].token})

(* What is acked was reported to the supervisor, and reported as sent only if it arrived. *)
AckedIsReported ==
  \A c \in DOMAIN commands :
    commands[c].status = "acked" =>
      \/ <<"event.message.sent", c>> \in reports /\ delivered[c] > 0
      \/ <<"event.message.send_failed", c>> \in reports

(* A text arrives a second time only after a fault: a failed or doubtful send, a refusal, *)
(* a missing token or a stop is reported and not retried.                                 *)
RepeatsNeedFaults == \A c \in DOMAIN commands : delivered[c] <= 1 + throws + crashes

(* Every command is settled in the end, also one that a stop or a crash found half done:  *)
(* again and again none is open.                                                          *)
CommandsSettle ==
  []<>(\A c \in DOMAIN commands : commands[c].status \in {"acked", "dead_letter"})
==============================================================================
