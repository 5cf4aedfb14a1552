-------------------------- MODULE MCWechatMessaging --------------------------
(***************************************************************************)
(* The owner writes with and without a token, a stranger writes, and one   *)
(* of the owner's messages has no id.                                      *)
(***************************************************************************)
EXTENDS WechatMessaging

MCKind ==
  {[owner |-> TRUE, token |-> TRUE, id |-> TRUE],
   [owner |-> TRUE, token |-> FALSE, id |-> FALSE],
   [owner |-> FALSE, token |-> TRUE, id |-> TRUE]}
==============================================================================
