-------------------------- MODULE MCRuntimeDaemon --------------------------
(* The loop of the supervisor, the scheduler, the receiver, and the CLI, which sends two   *)
(* messages to the supervisor.  One directory is older than the others, which disagree.   *)
EXTENDS RuntimeDaemon, TLC

CONSTANTS first, second, scheduler, supervisor, right, other

MCReads == [m \in {first, second} |-> {supervisor}]

MCBatchSize == scheduler :> 1 @@ supervisor :> 2

MCDirectory ==
  LET M(n, c) == [id |-> n, checksum |-> c]
  IN {{M(1, right)}, {M(1, right), M(2, right)}, {M(1, right), M(2, other)}}
=============================================================================
