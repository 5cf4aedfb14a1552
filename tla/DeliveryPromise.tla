--------------------------- MODULE DeliveryPromise ---------------------------
(***************************************************************************)
(* What the event hub promises about deliveries, without leases, retries,  *)
(* batches or a clock.  A delivery is opened together with every other     *)
(* delivery of its message, is performed any number of times while it is   *)
(* open, and is closed exactly once: "done", which only a performed        *)
(* delivery can be, or "dead".                                             *)
(***************************************************************************)
CONSTANTS Job,      \* the deliveries that may ever exist
          Bundles   \* the sets of deliveries that are opened together

VARIABLES outcome,    \* outcome[j]: "none", "open", "done" or "dead"
          performed   \* the deliveries whose handler has run to its end

vars == <<outcome, performed>>

Init ==
  /\ outcome = [j \in Job |-> "none"]
  /\ performed = {}

(* A message is accepted: all its deliveries are opened, or none is. *)
Open(B) ==
  /\ \A j \in B : outcome[j] = "none"
  /\ outcome' = [j \in Job |-> IF j \in B THEN "open" ELSE outcome[j]]
  /\ UNCHANGED performed

(* The handler of an open delivery runs to its end, perhaps not for the first time. *)
Perform(j) ==
  /\ outcome[j] = "open"
  /\ performed' = performed \cup {j}
  /\ UNCHANGED outcome

Finish(j) ==
  /\ outcome[j] = "open"
  /\ j \in performed
  /\ outcome' = [outcome EXCEPT ![j] = "done"]
  /\ UNCHANGED performed

Abandon(j) ==
  /\ outcome[j] = "open"
  /\ outcome' = [outcome EXCEPT ![j] = "dead"]
  /\ UNCHANGED performed

Next ==
  \/ \E B \in Bundles : Open(B)
  \/ \E j \in Job : Perform(j) \/ Finish(j) \/ Abandon(j)

Spec == Init /\ [][Next]_vars
=============================================================================
