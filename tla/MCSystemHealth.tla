--------------------------- MODULE MCSystemHealth ---------------------------
(* The priorities that the daemon gives; the monitor claims two messages at a time, as it *)
(* claims five in the code.                                                               *)
EXTENDS SystemHealth

MCBatchSize == [g \in Group |-> IF g = "monitor_group" THEN 2 ELSE 1]

MCPriority == [user |-> 10, tick |-> 300, report |-> 100, alert |-> 10]

Budget(t, m, c, K, e, f, k) ==
  [ticks |-> t, messages |-> m, changes |-> c, kinds |-> K, expiryAlerts |-> e, throws |-> f, crashes |-> k]

(* What gives up a message is two faults.  Two ticks, of which the second meets the alert *)
(* of the first; a tick that is thrown between its two reports and retried, or given up   *)
(* itself, or its alert is; a crash before, between or after them, beside a logout; and   *)
(* a session that expires.                                                                *)
MCBudgets ==
  {Budget(2, 1, 0, {}, 0, 2, 0),
   Budget(1, 1, 0, {}, 0, 4, 0),
   Budget(1, 1, 1, {"logout"}, 0, 2, 1),
   Budget(0, 0, 2, {"expire", "login", "logout"}, 1, 0, 1)}

MCExpiry == {Budget(0, 0, 2, {"expire", "login", "logout"}, 1, 0, 0)}
=============================================================================
