------------------------------- MODULE Router -------------------------------
(***************************************************************************)
(* DefaultEventRouter (src/src/kernel/event-hub/router.ts): which consumer *)
(* groups a message is delivered to.  A message is its kind, its type and  *)
(* what the payload says about notifying the supervisor; a type is one of  *)
(* the types that the program appends, so the prefix tests of the router   *)
(* are membership in a set of types.                                       *)
(***************************************************************************)
TaskCommands == {"command.task.start", "command.task.continue", "command.task.cancel"}

MaintenanceTypes ==
  {"event.maintenance.handoff_required", "event.maintenance.handoff_completed",
   "event.maintenance.handoff_skipped"}

MonitorTypes == {"event.monitor.tick"}

CleanupTypes == {"event.cleanup.requested"}

UserMessages == {"event.wechat.message_received", "event.user.message_received"}

(* Types that reach nobody but the projection, unless another set names them. *)
ProjectedTypes ==
  {"event.task.run_started", "event.task.progress_updated", "event.task.completed",
   "event.task.cancelled", "event.task.timed_out", "event.message.sent",
   "event.session.archived", "event.session.created", "event.wechat.message_rejected",
   "event.system.health", "event.supervisor.turn_completed"}

MessageTypes ==
  TaskCommands \cup MaintenanceTypes \cup MonitorTypes \cup CleanupTypes \cup UserMessages
    \cup ProjectedTypes
    \cup {"command.message.send_wechat", "event.message.send_failed", "event.system.alert",
          "event.task.failed", "event.task.needs_decision"}

(* The reading of payload.shouldNotifyUser that the supervisor's interest depends on;    *)
(* "unread" is a payload that is not an object.                                          *)
Notify == {"yes", "uncertain", "no", "absent", "unread"}

Groups ==
  {"projection_group", "worker_group", "wechat_sender_group", "supervisor_group",
   "maintenance_group", "monitor_group", "cleanup_group"}

ShouldSupervisorSeeTaskCompletion(notify, needsDecision) ==
  notify \in {"yes", "uncertain", "unread"} \/ needsDecision

Interested(g, type, notify, needsDecision) ==
  CASE g = "projection_group"    -> TRUE
    [] g = "worker_group"        -> type \in TaskCommands
    [] g = "wechat_sender_group" -> type = "command.message.send_wechat"
    [] g = "maintenance_group"   -> type \in MaintenanceTypes
    [] g = "monitor_group"       -> type \in MonitorTypes \cup {"event.system.alert"}
    [] g = "cleanup_group"       -> type \in CleanupTypes
    [] g = "supervisor_group"    ->
         \/ type \in UserMessages
         \/ type \in {"event.system.alert", "event.message.send_failed",
                      "event.maintenance.handoff_required",
                      "event.task.failed", "event.task.needs_decision"}
         \/ /\ type = "event.task.completed"
            /\ ShouldSupervisorSeeTaskCompletion(notify, needsDecision)

RouteOf(type, notify, needsDecision) ==
  {g \in Groups : Interested(g, type, notify, needsDecision)}
=============================================================================
