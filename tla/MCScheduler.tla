---------------------------- MODULE MCScheduler ----------------------------
(***************************************************************************)
(* A system job of each kind and a user's job of each kind.                *)
(***************************************************************************)
EXTENDS Scheduler

CONSTANTS monitor, handoff, reminder, once

MCInterval == [j \in SystemInterval \cup UserInterval |-> IF j = monitor THEN 2 ELSE 3]
MCRunAt == [j \in UserOnce |-> 1]
MCPriority == [j \in Job |-> IF j = handoff THEN 4 ELSE 3]

============================================================================
