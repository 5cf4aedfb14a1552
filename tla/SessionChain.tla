---------------------------- MODULE SessionChain ----------------------------
(***************************************************************************)
(* What is promised about the supervisor's sessions: they follow one       *)
(* another.  A session is opened only when the one before it is closed, a  *)
(* closed one stays closed, and a session inherits, once and for all, the  *)
(* summary of one of the sessions before it, or none.                      *)
(***************************************************************************)
EXTENDS Naturals, Sequences

VARIABLE chain  \* the sessions in the order of their creation

Init == chain = <<>>

AllClosed == \A s \in DOMAIN chain : ~chain[s].open

Open ==
  /\ AllClosed
  /\ \E p \in 0..Len(chain) : chain' = Append(chain, [open |-> TRUE, inherits |-> p])

Close ==
  \E s \in DOMAIN chain : chain[s].open /\ chain' = [chain EXCEPT ![s].open = FALSE]

Next == Open \/ Close

Spec == Init /\ [][Next]_chain
=============================================================================
