--------------------------- MODULE MCConsumerLoop ---------------------------
(***************************************************************************)
(* Two groups, one with batches of two and one with batches of one, and    *)
(* two messages, one of which goes to both.                                *)
(***************************************************************************)
EXTENDS ConsumerLoop

MCGroup == {"projection_group", "supervisor_group"}
MCMessage == {"completed", "progress"}

Hub == INSTANCE Router

MCRoute ==
  [m \in MCMessage |->
     MCGroup \cap Hub!RouteOf(IF m = "completed" THEN "event.task.completed"
                                                ELSE "event.task.progress_updated",
                              "yes", FALSE)]
MCBatchSize == [g \in MCGroup |-> IF g = "projection_group" THEN 2 ELSE 1]

=============================================================================
