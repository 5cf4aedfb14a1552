-------------------------- MODULE MCTaskLifecycle --------------------------
(***************************************************************************)
(* The worker claims one command at a time, the projection two messages,   *)
(* so that one message is held behind another.  A behaviour has one        *)
(* command and two throws, or one, a report and one throw, or two commands *)
(* and a report or a crash.  A command is more urgent than the events (1), *)
(* as urgent, or less (3): the projection then sees it after the events of *)
(* its own run.                                                            *)
(***************************************************************************)
EXTENDS TaskLifecycle

MCBatchSize == [g \in Group |-> IF g = "worker_group" THEN 1 ELSE 2]

Budget(c, r, t, k, S, P) ==
  [commands |-> c, reports |-> r, throws |-> t, crashes |-> k, outcomes |-> S, priorities |-> P]

MCBudgets ==
  {Budget(1, 0, 2, 0, {"error", "needs_decision"}, {2, 3}),
   Budget(1, 1, 1, 0, {"error", "needs_decision"}, {1, 3}),
   Budget(2, 1, 0, 0, {"error"}, {1, 3}),
   Budget(2, 0, 0, 1, {"error"}, {1})}

MCCalm == {Budget(2, 0, 0, 0, {"success", "error"}, {2})}
=============================================================================
