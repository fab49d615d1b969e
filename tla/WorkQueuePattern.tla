-------------------------- MODULE WorkQueuePattern --------------------------
(***************************************************************************)
(* The program of lesson_9/04_work_queue_pattern: main creates the queue   *)
(* and the workers, enqueues NUM_TASKS tasks, shuts the queue down, joins  *)
(* the workers and destroys the queue (04_work_queue_pattern.c, 57-77 and  *)
(* 164-249).  The queue itself is module WorkQueue, whose only producer    *)
(* is main and whose consumers are the workers.                            *)
(*                                                                         *)
(* Memory is modelled by the state of each block: a task and its data are  *)
(* two blocks, the queue is a third.  The sleeps between the calls order   *)
(* nothing, so they are not steps.  malloc is taken to succeed.            *)
(***************************************************************************)
EXTENDS WorkQueue

CONSTANTS Main,       \* the main thread
          NUM_TASKS   \* how many tasks main creates

ASSUME MainAssumption == Producers = {Main} /\ Main \notin Consumers
ASSUME TaskAssumption == NUM_TASKS \in Nat /\ Task = 1 .. NUM_TASKS

VARIABLES main,      \* where main is
          worker,    \* where each worker is
          cur,       \* the task a worker got from dequeue_task
          next,      \* the id of the next task main creates
          ran,       \* how often process_task completed for each task
          taskMem, dataMem, queueMem  \* the heap: none, live, freed

pvars == <<main, worker, cur, next, ran, taskMem, dataMem, queueMem>>
vars == <<qvars, pvars>>

Mem == {"none", "live", "freed"}
MainPc == {"spawn", "produce", "enqueue", "shutdown", "join", "destroy",
           "done", "failed"}
WorkerPc == {"unborn", "loop", "dequeue", "run", "exited"}

TypeOK == /\ QTypeOK
          /\ main \in MainPc
          /\ worker \in [Consumers -> WorkerPc]
          /\ cur \in [Consumers -> Task \cup {NULL}]
          /\ next \in 1 .. NUM_TASKS + 1
          /\ ran \in [Task -> Nat]
          /\ taskMem \in [Task -> Mem]
          /\ dataMem \in [Task -> Mem]
          /\ queueMem \in Mem

Init == /\ QInit
        /\ main = "spawn"
        /\ worker = [w \in Consumers |-> "unborn"]
        /\ cur = [w \in Consumers |-> NULL]
        /\ next = 1
        /\ ran = [k \in Task |-> 0]
        /\ taskMem = [k \in Task |-> "none"]
        /\ dataMem = [k \in Task |-> "none"]
        /\ queueMem = "live"
-----------------------------------------------------------------------------
\* pthread_create succeeds for one more worker.
Spawn(w) == /\ main = "spawn" /\ worker[w] = "unborn"
            /\ worker' = [worker EXCEPT ![w] = "loop"]
            /\ main' = IF \A v \in Consumers \ {w} : worker[v] # "unborn"
                         THEN "produce" ELSE "spawn"
            /\ UNCHANGED <<qvars, cur, next, ran, taskMem, dataMem, queueMem>>

\* pthread_create fails: main returns 1, which ends every thread.
SpawnFails == /\ main = "spawn"
              /\ main' = "failed"
              /\ UNCHANGED <<qvars, worker, cur, next, ran, taskMem, dataMem, queueMem>>

\* The two mallocs of the loop body of main, and the call of enqueue_task.
CreateTask == /\ main = "produce" /\ next <= NUM_TASKS
              /\ CallEnqueue(Main, next)
              /\ taskMem' = [taskMem EXCEPT ![next] = "live"]
              /\ dataMem' = [dataMem EXCEPT ![next] = "live"]
              /\ main' = "enqueue"
              /\ UNCHANGED <<worker, cur, next, ran, queueMem>>

\* enqueue_task; its result is ignored.  It is never refused: main shuts the
\* queue down only after its last call.
EnqueueTask == /\ main = "enqueue"
               /\ \/ EnqueueWait(Main) /\ UNCHANGED <<main, next>>
                  \/ EnqueueStore(Main) /\ main' = "produce" /\ next' = next + 1
               /\ UNCHANGED <<worker, cur, ran, taskMem, dataMem, queueMem>>

\* main has slept its five seconds, however far the workers are.
Shutdown == /\ main = "produce" /\ next > NUM_TASKS
            /\ ShutdownQueue
            /\ main' = "join"
            /\ UNCHANGED <<worker, cur, next, ran, taskMem, dataMem, queueMem>>

\* Mutant: main joins one worker only.
JoinOneWorker == /\ main = "join"
                 /\ \E w \in Consumers : worker[w] = "exited"
                 /\ main' = "destroy"
                 /\ UNCHANGED <<qvars, worker, cur, next, ran, taskMem, dataMem, queueMem>>

\* The loop of pthread_join over the workers.
JoinWorkers == /\ main = "join"
               /\ \A w \in Consumers : worker[w] = "exited"
               /\ main' = "destroy"
               /\ UNCHANGED <<qvars, worker, cur, next, ran, taskMem, dataMem, queueMem>>

\* destroy_work_queue: what is still queued is freed with its data, then the
\* queue.  front and count end where the loop leaves them.
DestroyQueue ==
    LET left == {Contents[i] : i \in 1 .. count}
    IN /\ main = "destroy"
       /\ taskMem' = [k \in Task |-> IF k \in left THEN "freed" ELSE taskMem[k]]
       /\ dataMem' = [k \in Task |-> IF k \in left THEN "freed" ELSE dataMem[k]]
       /\ queueMem' = "freed"
       /\ front' = (front + count) % MAX_QUEUE_SIZE
       /\ count' = 0
       /\ main' = "done"
       /\ UNCHANGED <<tasks, rear, shutdown, not_empty, not_full, arg, inside,
                      accepted, taken, worker, cur, next, ran>>

\* worker_thread calls dequeue_task.
WorkerCalls(w) == /\ worker[w] = "loop"
                  /\ CallDequeue(w)
                  /\ worker' = [worker EXCEPT ![w] = "dequeue"]
                  /\ UNCHANGED <<main, cur, next, ran, taskMem, dataMem, queueMem>>

\* dequeue_task in worker_thread: asleep, NULL (the loop breaks) or a task.
WorkerDequeues(w) ==
    /\ worker[w] = "dequeue"
    /\ \/ DequeueWait(w) /\ UNCHANGED <<worker, cur>>
       \/ /\ DequeueNull(w)
          /\ worker' = [worker EXCEPT ![w] = "exited"]
          /\ UNCHANGED cur
       \/ /\ DequeueTake(w)
          /\ worker' = [worker EXCEPT ![w] = "run"]
          /\ cur' = [cur EXCEPT ![w] = tasks[front]]
    /\ UNCHANGED <<main, next, ran, taskMem, dataMem, queueMem>>

\* process_task runs, then worker_thread frees the task, not its data.
RunTask(w) == /\ worker[w] = "run"
              /\ ran' = [ran EXCEPT ![cur[w]] = @ + 1]
              /\ taskMem' = [taskMem EXCEPT ![cur[w]] = "freed"]
              /\ cur' = [cur EXCEPT ![w] = NULL]
              /\ worker' = [worker EXCEPT ![w] = "loop"]
              /\ UNCHANGED <<qvars, main, next, dataMem, queueMem>>

Wakeup(t) == SpuriousWakeup(t) /\ UNCHANGED pvars

Over == main \in {"done", "failed"}

WorkerStep(w) == ~Over /\ (WorkerCalls(w) \/ WorkerDequeues(w) \/ RunTask(w))
MainStep == \/ \E w \in Consumers : Spawn(w)
            \/ SpawnFails \/ CreateTask \/ EnqueueTask \/ Shutdown
            \/ JoinWorkers \/ DestroyQueue

Next == \/ MainStep
        \/ \E w \in Consumers : WorkerStep(w)
        \/ ~Over /\ \E t \in not_empty \cup not_full : Wakeup(t)
        \/ Over /\ UNCHANGED vars  \* the process has ended

\* Every thread that can take a step takes one in the end.
Fairness == /\ WF_vars(MainStep)
            /\ \A w \in Consumers : WF_vars(WorkerStep(w))

Spec == Init /\ [][Next]_vars /\ Fairness
-----------------------------------------------------------------------------
\* A task that enqueue_task accepted is at any time either in one slot of the
\* ring, or held by one worker, or has run once; and its two blocks are live
\* until it has run.
AcceptedOnce ==
    \A k \in Task :
      LET queued  == Cardinality({i \in 1 .. count : Contents[i] = k})
          holders == Cardinality({w \in Consumers : cur[w] = k})
      IN ~Over =>
         /\ queued + holders + ran[k] = IF k < next THEN 1 ELSE 0
         /\ (queued + holders > 0) => taskMem[k] = "live" /\ dataMem[k] = "live"

\* No thread can still touch the queue when destroy_work_queue frees it, and
\* the queue is empty by then: every worker left because it saw it empty.
FreedOnlyWhenUnused ==
    main \in {"destroy", "done"} =>
        /\ count = 0 /\ inside = {} /\ not_empty = {} /\ not_full = {}
        /\ \A w \in Consumers : worker[w] = "exited" /\ cur[w] = NULL

\* When main returns 0 every task has run exactly once and every task block
\* has been freed.
AllRunAtExit == main = "done" => \A k \in Task : ran[k] = 1 /\ taskMem[k] = "freed"

\* The program ends, whatever the order of wake-ups: every worker is joined
\* or main gave up creating threads.
Terminates == <>Over
=============================================================================
