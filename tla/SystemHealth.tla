---------------------------- MODULE SystemHealth ----------------------------
(***************************************************************************)
(* What the system knows of its own health: the monitor, which answers     *)
(* each tick of the scheduler with a report on the event hub               *)
(* (health-monitor.ts), the WeChat receiver, which reports that WeChat no  *)
(* longer accepts its token (clawbot.ts), and what becomes of the reports: *)
(* a row of system_health_current_state per component, and for an alert a  *)
(* turn of the supervisor.  WeChat login and logout change the account     *)
(* file under the receiver's feet.                                         *)
(*                                                                         *)
(* One daemon, restarted by launchd; the event hub is that of HubBox.      *)
(* The monitor's handler never yields, so nobody else runs between its two *)
(* reports, but each of them is a transaction of its own.  The supervisor  *)
(* handles a message or throws.                                            *)
(***************************************************************************)
EXTENDS HubBox, Router

CONSTANTS
  Priority,    \* Priority[type]: of a message, "alert" for the alert of the monitor
  Budgets      \* bound: how much a behaviour may hold of what comes from outside

ASSUME HealthAssumption ==
  /\ Group = {"monitor_group", "projection_group", "supervisor_group"}
  /\ Priority \in [{"user", "tick", "report", "alert"} -> Nat]
  /\ Budgets \subseteq [ticks : Nat, messages : Nat, changes : Nat, expiryAlerts : Nat,
                        throws : Nat, crashes : Nat, kinds : SUBSET {"expire", "login", "logout"}]

VARIABLES
  view,       \* view[c]: system_health_current_state.status of component c
  turn,       \* where the monitor's handler is
  saved,      \* the token in the account file, 0 when there is none
  valid,      \* the token that WeChat accepts, 0 when there is none
  receiver,   \* the receiver and the token that it has loaded; it is "off" with the daemon
  budget,     \* the bound that this behaviour has, one of Budgets
  changes,    \* changes of the account and of what WeChat accepts
  throws, crashes

vars == <<log, box, batch, view, turn, saved, valid, receiver, budget,
          changes, throws, crashes>>

account == <<saved, valid, changes>>
faults == <<budget, throws, crashes>>

Reported == {"event_hub", "wechat_clawbot"}

Init ==
  /\ HubInit
  /\ view = [c \in Reported |-> "none"]
  /\ turn = "idle"
  /\ saved = 1
  /\ valid = 1
  /\ receiver = [pc |-> "polling", token |-> 1]
  /\ budget \in Budgets
  /\ changes = 0
  /\ throws = 0
  /\ crashes = 0

Up == receiver.pc # "off"

(* Nobody else runs while the monitor's handler does. *)
Yielded == Up /\ turn # "reported"

Count(type) == Cardinality({i \in DOMAIN log : log[i].type = type})

HealthTypes == {"event.system.health", "event.system.alert"}

(* The groups that act on a message: the projection only shows health here.              *)
Readers(type) ==
  {g \in Group : Interested(g, type, "absent", FALSE) /\ (g = "projection_group" => type \in HealthTypes)}

LogMessage(m) == LogFor(m, Readers(m.type))

Message(type, priority) ==
  [type |-> type, priority |-> Priority[priority], component |-> "none", status |-> "none", cause |-> 0]

Report(type, priority, c, s, i) ==
  [type |-> type, priority |-> Priority[priority], component |-> c, status |-> s, cause |-> i]

-----------------------------------------------------------------------------
(* The hub, and those who write to it from outside *)

Tick ==
  /\ Yielded
  /\ Count("event.monitor.tick") < budget.ticks
  /\ LogMessage(Message("event.monitor.tick", "tick"))
  /\ UNCHANGED <<batch, view, turn, account, receiver, faults>>

UserMessage ==
  /\ Yielded
  /\ Count("event.user.message_received") < budget.messages
  /\ LogMessage(Message("event.user.message_received", "user"))
  /\ UNCHANGED <<batch, view, turn, account, receiver, faults>>

Claim(g) ==
  /\ Yielded
  /\ ClaimBatch(g)
  /\ UNCHANGED <<view, turn, account, receiver, faults>>

Comeback(g, i) ==
  /\ Yielded
  /\ DelayEnds(g, i) \/ LeaseEnds(g, i)
  /\ UNCHANGED <<view, turn, account, receiver, faults>>

-----------------------------------------------------------------------------
(* The monitor *)

Current(g) == Head(batch[g])

Handling(g) == Up /\ batch[g] # <<>>

(* dead_letters and the rows that are dead_letter say the same, so that a dead delivery   *)
(* counts twice and none not at all.                                                      *)
Failed == \E g \in Group : \E i \in DOMAIN box[g] : box[g][i].state = "dead_letter"

(* Mutant: whatever reaches the monitor is answered like a tick. *)
ReportHealth_OnAny ==
  /\ Handling("monitor_group")
  /\ turn = "idle"
  /\ LogMessage(Report("event.system.health", "report", "event_hub",
                       IF Failed THEN "degraded" ELSE "ok", Current("monitor_group")))
  /\ turn' = IF Failed THEN "reported" ELSE "handled"
  /\ UNCHANGED <<batch, view, account, receiver, faults>>

ReportHealth ==
  /\ Handling("monitor_group")
  /\ turn = "idle"
  /\ log[Current("monitor_group")].type = "event.monitor.tick"
  /\ LogMessage(Report("event.system.health", "report", "event_hub",
                       IF Failed THEN "degraded" ELSE "ok", Current("monitor_group")))
  /\ turn' = IF Failed THEN "reported" ELSE "handled"
  /\ UNCHANGED <<batch, view, account, receiver, faults>>

AppendAlert ==
  /\ turn = "reported"
  /\ LogMessage(Report("event.system.alert", "alert", "event_hub", "degraded",
                       Current("monitor_group")))
  /\ turn' = "handled"
  /\ UNCHANGED <<batch, view, account, receiver, faults>>

(* The monitor's own alerts reach it too, and it leaves them alone. *)
LeaveAlone ==
  /\ Handling("monitor_group")
  /\ turn = "idle"
  /\ log[Current("monitor_group")].type # "event.monitor.tick"
  /\ turn' = "handled"
  /\ UNCHANGED <<log, box, batch, view, account, receiver, faults>>

Ack ==
  /\ turn = "handled"
  /\ Settle("monitor_group", "acked")
  /\ turn' = "idle"
  /\ UNCHANGED <<view, account, receiver, faults>>

(* Mutant: an append that throws is logged by the handler, and the tick is acked. *)
MonitorThrows_Swallowed ==
  /\ Handling("monitor_group")
  /\ throws < budget.throws
  /\ Settle("monitor_group", "acked")
  /\ turn' = "idle"
  /\ throws' = throws + 1
  /\ UNCHANGED <<view, account, receiver, budget, crashes>>

(* Mutant: the handler goes on where it was when the delivery comes back. *)
MonitorThrows_Resumes ==
  /\ Handling("monitor_group")
  /\ throws < budget.throws
  /\ Fail("monitor_group")
  /\ throws' = throws + 1
  /\ UNCHANGED <<view, turn, account, receiver, budget, crashes>>

(* One of the two appends, or the ack, throws. *)
MonitorThrows ==
  /\ Handling("monitor_group")
  /\ throws < budget.throws
  /\ Fail("monitor_group")
  /\ turn' = "idle"
  /\ throws' = throws + 1
  /\ UNCHANGED <<view, account, receiver, budget, crashes>>

-----------------------------------------------------------------------------
(* The other readers *)

(* projectSystemHealth: the last one applied is shown, whenever it was reported. *)
Shown(m) == [view EXCEPT ![m.component] = m.status]

(* The ack may not come about: the message is then applied again. *)
Project ==
  /\ Yielded
  /\ Handling("projection_group")
  /\ view' = Shown(log[Current("projection_group")])
  /\ \/ Settle("projection_group", "acked") /\ UNCHANGED throws
     \/ throws < budget.throws /\ throws' = throws + 1 /\ Fail("projection_group")
  /\ UNCHANGED <<turn, account, receiver, budget, crashes>>

(* A turn of the supervisor is a call of Codex, which may fail. *)
SuperviseMessage ==
  /\ Yielded
  /\ Handling("supervisor_group")
  /\ \/ Settle("supervisor_group", "acked") /\ UNCHANGED throws
     \/ throws < budget.throws /\ throws' = throws + 1 /\ Fail("supervisor_group")
  /\ UNCHANGED <<view, turn, account, receiver, budget, crashes>>

-----------------------------------------------------------------------------
(* The account and the receiver, clawbot.ts *)

Change(kind) ==
  /\ kind \in budget.kinds
  /\ changes < budget.changes
  /\ changes' = changes + 1

(* WeChat ends the session. *)
Expire ==
  /\ Change("expire")
  /\ valid # 0
  /\ valid' = 0
  /\ UNCHANGED <<log, box, batch, view, turn, saved, receiver, faults>>

(* wechat login, saveClawbotAccount: another process. *)
Login ==
  /\ Change("login")
  /\ saved' = changes' + 1
  /\ valid' = changes' + 1
  /\ UNCHANGED <<log, box, batch, view, turn, receiver, faults>>

(* wechat logout removes the directory; WeChat is not told. *)
Logout ==
  /\ Change("logout")
  /\ saved # 0
  /\ saved' = 0
  /\ UNCHANGED <<log, box, batch, view, turn, valid, receiver, faults>>

(* getUpdates with a token that is not accepted: an alert, and an hour's sleep.  Beyond   *)
(* the bound the alerts are not logged.                                                   *)
PollExpired ==
  /\ Yielded
  /\ receiver.pc = "polling"
  /\ receiver.token # valid
  /\ IF Count("event.system.alert") < budget.expiryAlerts
       THEN LogMessage(Report("event.system.alert", "report", "wechat_clawbot", "failed", 0))
       ELSE UNCHANGED <<log, box>>
  /\ receiver' = [receiver EXCEPT !.pc = "sleeping"]
  /\ UNCHANGED <<batch, view, turn, account, faults>>

Wake ==
  /\ Yielded
  /\ receiver.pc = "sleeping"
  /\ receiver' = [receiver EXCEPT !.pc = "polling"]
  /\ UNCHANGED <<log, box, batch, view, turn, account, faults>>

Crash ==
  /\ Up
  /\ crashes < budget.crashes
  /\ crashes' = crashes + 1
  /\ Orphan
  /\ turn' = "idle"
  /\ receiver' = [pc |-> "off", token |-> 0]
  /\ UNCHANGED <<view, account, budget, throws>>

(* resolveClawbotAccount, once per start of the daemon.  Without an account the daemon    *)
(* fails as soon as it has started (RuntimeDaemon): what its other components do before   *)
(* the receiver's failure ends it is left out here.                                       *)
Start ==
  /\ ~Up
  /\ saved # 0
  /\ receiver' = [pc |-> "polling", token |-> saved]
  /\ UNCHANGED <<log, box, batch, view, turn, account, faults>>

-----------------------------------------------------------------------------
MonitorStep == ReportHealth \/ AppendAlert \/ LeaveAlone \/ Ack

LoopStep(g) ==
  \/ Claim(g)
  \/ \E i \in DOMAIN log : Comeback(g, i)
  \/ g = "monitor_group" /\ MonitorStep
  \/ g = "projection_group" /\ Project
  \/ g = "supervisor_group" /\ SuperviseMessage

ReceiverStep == PollExpired \/ Wake \/ Start

Next ==
  \/ Tick \/ UserMessage
  \/ \E g \in Group : LoopStep(g)
  \/ MonitorThrows \/ Crash
  \/ Expire \/ Login \/ Logout \/ ReceiverStep

Spec == Init /\ [][Next]_vars

(* The loops go on, delays and leases end, and the receiver polls. *)
Fairness == WF_vars(ReceiverStep) /\ \A g \in Group : WF_vars(LoopStep(g))

FairSpec == Spec /\ Fairness

-----------------------------------------------------------------------------
(* Properties *)

TypeOK ==
  /\ log \in Seq([type : MessageTypes, priority : Nat, component : Reported \cup {"none"},
                  status : {"none", "ok", "degraded", "failed"}, cause : 0..Len(log)])
  /\ \A g \in Group :
       /\ box[g] \in Seq([state : RowState, at : 1..Len(log) + 1, attempts : 0..MaxAttempts + crashes])
       /\ Len(box[g]) = Len(log)
       /\ \A n \in DOMAIN batch[g] : box[g][batch[g][n]].state = "running"
  /\ view \in [Reported -> {"none", "ok", "degraded", "failed"}]
  /\ turn \in {"idle", "reported", "handled"}
  /\ turn # "idle" => batch["monitor_group"] # <<>>
  /\ {saved, valid} \subseteq 0..changes + 1
  /\ receiver \in [pc : {"off", "polling", "sleeping"}, token : 0..changes + 1]
  /\ budget \in Budgets
  /\ changes \in 0..budget.changes
  /\ throws \in 0..budget.throws
  /\ crashes \in 0..budget.crashes

AlertsOf(i) ==
  {k \in DOMAIN log : log[k].type = "event.system.alert" /\ log[k].cause = i}

(* The monitor reads its own alerts, yet alerts do not breed alerts: every alert on the   *)
(* hub is owed to a tick, and to an attempt at that tick of its own.                      *)
AlertsNeedTicks ==
  \A k \in DOMAIN log :
    log[k].component = "event_hub" =>
      LET i == log[k].cause
      IN /\ log[i].type = "event.monitor.tick"
         /\ Cardinality(AlertsOf(i)) <= box["monitor_group"][i].attempts

Lost(i) == \E g \in Group : box[g][i].state = "dead_letter"

Latest(i) ==
  /\ log[i].type = "event.monitor.tick"
  /\ \A k \in DOMAIN log : log[k].type = "event.monitor.tick" => k <= i

(* The daemon can no longer start because the user has logged out, or a delivery between  *)
(* the latest tick and those who are told is given up as well.                            *)
CannotBeTold ==
  \/ saved = 0
  \/ \E i, k \in DOMAIN log : Latest(i) /\ Lost(k) /\ (k = i \/ log[k].cause = i)

(* When a delivery has been given up, the latest tick is answered by an alert of its own; *)
(* the hub is shown degraded, and the supervisor has a turn on the alert.  An answer may  *)
(* throw between its two reports, the daemon may crash, and an earlier tick may have been *)
(* answered alike.                                                                        *)
FailureIsTold ==
  LET Unanswered == Failed /\ \E i \in DOMAIN log : Latest(i) /\ box["monitor_group"][i].state = "due"
      Alerts == UNION {AlertsOf(i) : i \in {n \in DOMAIN log : Latest(n)}}
  IN /\ Unanswered ~> \/ CannotBeTold
                      \/ Alerts # {} /\ view["event_hub"] = "degraded"
     /\ Unanswered ~> \/ CannotBeTold
                      \/ \E k \in Alerts : box["supervisor_group"][k].state = "acked"

(* What the alert says of an expired session, "run wechat login again": once the user has *)
(* done so, the running receiver polls with a token that WeChat accepts.                  *)
LoginCuresExpiry ==
  (Up /\ saved = valid /\ valid # 0) ~> (receiver.token = valid \/ saved # valid)
=============================================================================
