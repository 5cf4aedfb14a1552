------------------------ MODULE MCSupervisorSession ------------------------
(***************************************************************************)
(* The instances are numbers only; the configurations give them.           *)
(***************************************************************************)
EXTENDS SupervisorSession
============================================================================
