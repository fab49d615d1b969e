------------------------- MODULE MCWorkQueuePattern -------------------------
(* WorkQueuePattern with three workers and a ring smaller than the number   *)
(* of tasks, so that main too has to wait in enqueue_task.                  *)
EXTENDS WorkQueuePattern

MCTask == 1 .. NUM_TASKS
MCProducers == {Main}
=============================================================================
