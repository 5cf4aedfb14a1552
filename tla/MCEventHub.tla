----------------------------- MODULE MCEventHub -----------------------------
(***************************************************************************)
(* Instances of EventHub.  The messages are ones that the daemon really    *)
(* exchanges: a user message and its duplicate, which are urgent, carry    *)
(* one dedupe key and go to the supervisor and the projection, and a       *)
(* progress report for the projection, which a caller delays by one tick.  *)
(***************************************************************************)
EXTENDS EventHub

CONSTANTS user, userAgain, progress, key

Hub == INSTANCE Router

TypeOf(m) ==
  CASE m \in {user, userAgain} -> "event.user.message_received"
    [] m = progress -> "event.task.progress_updated"

MCRoute == [m \in Message |-> Group \cap Hub!RouteOf(TypeOf(m), "uncertain", FALSE)]
MCPriority == [m \in Message |-> IF m \in {user, userAgain} THEN 1 ELSE 2]
MCDedupeKey == [m \in Message |-> IF m \in {user, userAgain} THEN key ELSE NoKey]
MCDelay == [m \in Message |-> IF m = progress THEN 1 ELSE 0]
MCBatchSize == [g \in Group |-> IF g = "projection_group" THEN 2 ELSE 1]

=============================================================================
