----------------------- MODULE WorkQueuePatternProofs -----------------------
(***************************************************************************)
(* What the program of WorkQueuePattern guarantees for every number of     *)
(* workers and tasks and every size of the ring. Every step of the program *)
(* is a step of the queue, so the invariants of WorkQueueProofs hold; main *)
(* numbers its tasks in the order in which it enqueues them, so what was   *)
(* taken is a prefix of the numbers.                                       *)
(***************************************************************************)
EXTENDS WorkQueuePattern, WorkQueueProofs

\* The i-th task accepted is task i.
Numbered == /\ Len(accepted) = next - 1
            /\ \A i \in 1 .. Len(accepted) : accepted[i] = i

\* Where main is and what it has told the queue.
MainInv == /\ arg[Main] = IF main = "enqueue" THEN next ELSE NULL
           /\ main = "enqueue" => next <= NUM_TASKS
           /\ shutdown <=> main \in {"join", "destroy", "done"}
           /\ shutdown => next = NUM_TASKS + 1
           /\ main \notin {"spawn", "failed"} => Consumers # {}
           /\ main \in {"destroy", "done"} => \A w \in Consumers : worker[w] = "exited"

\* What each worker holds; it has left only a queue that is empty for good.
WorkerInv ==
    \A w \in Consumers :
      /\ w \in inside <=> worker[w] = "dequeue"
      /\ IF worker[w] = "run" THEN cur[w] \in 1 .. Len(taken) ELSE cur[w] = NULL
      /\ worker[w] = "exited" => count = 0 /\ shutdown
      /\ \A v \in Consumers : cur[v] = cur[w] /\ cur[w] # NULL => v = w

Created(k) == k < next \/ (k = next /\ main = "enqueue")

\* A task has run if it was taken and nobody holds it, and the heap follows.
TaskInv ==
    \A k \in Task :
      /\ ran[k] = IF k <= Len(taken) /\ \A w \in Consumers : cur[w] # k THEN 1 ELSE 0
      /\ taskMem[k] = IF ran[k] = 1 THEN "freed" ELSE IF Created(k) THEN "live" ELSE "none"
      /\ dataMem[k] = IF Created(k) THEN "live" ELSE "none"

ProgInv == /\ TypeOK /\ RingInv /\ WakeInv
           /\ Numbered /\ MainInv /\ WorkerInv /\ TaskInv
-----------------------------------------------------------------------------
\* When main destroys the queue nothing is left in it: the last worker to
\* leave saw it empty, and nobody stores after the shutdown.
LEMMA NothingLeft ==
    ASSUME ProgInv, main \in {"destroy", "done"}
    PROVE  count = 0 /\ shutdown /\ next = NUM_TASKS + 1
<1>1. shutdown /\ next = NUM_TASKS + 1
  BY DEF ProgInv, MainInv
<1>2. PICK w \in Consumers : TRUE
  BY DEF ProgInv, MainInv
<1>3. worker[w] = "exited"
  BY <1>2 DEF ProgInv, MainInv
<1>. QED
  BY <1>1, <1>3 DEF ProgInv, WorkerInv

\* Every step of main or of a worker is a step of the queue, or leaves the
\* queue alone; so is destroy_work_queue, which finds it empty.
LEMMA ProgramStepsQueue ==
    ASSUME ProgInv, [Next]_vars
    PROVE  [QNext]_qvars
<1>1. Main \in Producers
  BY MainAssumption
<1>2. ASSUME \/ \E w \in Consumers : Spawn(w) \/ RunTask(w)
             \/ SpawnFails \/ JoinWorkers \/ UNCHANGED vars
      PROVE  UNCHANGED qvars
  BY <1>2 DEF Spawn, RunTask, SpawnFails, JoinWorkers, vars
<1>3. CASE CreateTask
  <2>1. next \in Task
    BY <1>3, TaskAssumption DEF CreateTask, ProgInv, TypeOK
  <2>. QED
    BY <1>1, <1>3, <2>1 DEF CreateTask, QNext
<1>4. CASE EnqueueTask
  BY <1>1, <1>4 DEF EnqueueTask, QNext, Enqueue
<1>5. CASE Shutdown
  BY <1>5 DEF Shutdown, QNext
<1>6. CASE DestroyQueue
  <2>1. count = 0
    BY <1>6, NothingLeft DEF DestroyQueue
  <2>2. front \in Slots /\ 0 \in 0 .. MAX_QUEUE_SIZE /\ front + 0 = front
    BY SizeAssumption DEF ProgInv, TypeOK, QTypeOK, Slots
  <2>3. front' = front
    BY <1>6, <2>1, <2>2, StepRing DEF DestroyQueue
  <2>. QED
    BY <1>6, <2>1, <2>3 DEF DestroyQueue, qvars
<1>7. ASSUME NEW w \in Consumers, WorkerCalls(w) \/ WorkerDequeues(w)
      PROVE  QNext
  BY <1>7 DEF WorkerCalls, WorkerDequeues, QNext, Dequeue
<1>8. ASSUME NEW t \in not_empty \cup not_full, Wakeup(t)
      PROVE  QNext
  BY <1>8 DEF Wakeup, QNext
<1>. QED
  BY <1>2, <1>3, <1>4, <1>5, <1>6, <1>7, <1>8 DEF Next, MainStep, WorkerStep

\* What the program adds to the queue's invariants.
Book == TypeOK /\ Numbered /\ MainInv /\ WorkerInv /\ TaskInv

\* The steps of main keep the bookkeeping.
LEMMA MainKeepsBook ==
    ASSUME ProgInv, QTypeOK', MainStep
    PROVE  Book'
<1> USE MainAssumption, TaskAssumption, NullAssumption
<1>1. /\ NUM_TASKS \in Nat /\ next \in 1 .. NUM_TASKS + 1 /\ Main \in Producers
      /\ Len(taken) \in Nat /\ accepted \in Seq(Task) /\ taken \in Seq(Task)
      /\ arg \in [Producers -> Task \cup {NULL}] /\ QTypeOK
      /\ worker \in [Consumers -> WorkerPc]
  BY DEF ProgInv, TypeOK, QTypeOK
<1>2. ASSUME NEW w \in Consumers, Spawn(w)
      PROVE  Book'
  <2>1. /\ UNCHANGED <<qvars, cur, next, ran, taskMem, dataMem, queueMem>>
        /\ main = "spawn" /\ main' \in {"spawn", "produce"}
        /\ worker[w] = "unborn" /\ worker' = [worker EXCEPT ![w] = "loop"]
    BY <1>2 DEF Spawn
  <2>2. UNCHANGED <<arg, shutdown, accepted, taken, count, inside>>
    BY <2>1 DEF qvars
  <2>3. TypeOK'
    BY <2>1 DEF ProgInv, TypeOK, MainPc, WorkerPc
  <2>4. Numbered' /\ MainInv' /\ WorkerInv'
    BY <1>1, <2>1, <2>2 DEF ProgInv, Numbered, MainInv, WorkerInv
  <2>5. TaskInv'
    BY <1>1, <2>1, <2>2 DEF ProgInv, TaskInv, Created
  <2>. QED
    BY <2>3, <2>4, <2>5 DEF Book
<1>3. CASE SpawnFails
  <2>1. /\ UNCHANGED <<qvars, worker, cur, next, ran, taskMem, dataMem, queueMem>>
        /\ main = "spawn" /\ main' = "failed"
    BY <1>3 DEF SpawnFails
  <2>2. UNCHANGED <<arg, shutdown, accepted, taken, count, inside>>
    BY <2>1 DEF qvars
  <2>3. TypeOK'
    BY <2>1 DEF ProgInv, TypeOK, MainPc
  <2>4. Numbered' /\ MainInv' /\ WorkerInv'
    BY <1>1, <2>1, <2>2 DEF ProgInv, Numbered, MainInv, WorkerInv
  <2>5. TaskInv'
    BY <1>1, <2>1, <2>2 DEF ProgInv, TaskInv, Created
  <2>. QED
    BY <2>3, <2>4, <2>5 DEF Book
<1>4. CASE CreateTask
  <2>1. /\ UNCHANGED <<worker, cur, next, ran, queueMem>>
        /\ main = "produce" /\ main' = "enqueue" /\ next <= NUM_TASKS
        /\ taskMem' = [taskMem EXCEPT ![next] = "live"]
        /\ dataMem' = [dataMem EXCEPT ![next] = "live"]
        /\ arg' = [arg EXCEPT ![Main] = next]
        /\ UNCHANGED <<shutdown, accepted, taken, count, inside>>
    BY <1>4 DEF CreateTask, CallEnqueue, ring
  <2>2. next \in Task
    BY <1>1, <2>1
  <2>3. TypeOK'
    BY <2>1 DEF ProgInv, TypeOK, MainPc, Mem
  <2>4. Numbered' /\ MainInv' /\ WorkerInv'
    BY <1>1, <2>1, <2>2 DEF ProgInv, Numbered, MainInv, WorkerInv
  <2>5. ran[next] = 0
    <3>1. Len(taken) < next
      BY <1>1, SizeAssumption DEF ProgInv, RingInv, Numbered, QTypeOK
    <3>. QED
      BY <1>1, <2>2, <3>1 DEF ProgInv, TaskInv
  <2>6. TaskInv'
    <3>1. ASSUME NEW k \in Task, k # next
          PROVE  /\ taskMem'[k] = taskMem[k] /\ dataMem'[k] = dataMem[k]
                 /\ Created(k)' <=> Created(k)
      BY <2>1, <3>1 DEF Created, ProgInv, TypeOK
    <3>2. /\ taskMem'[next] = "live" /\ dataMem'[next] = "live" /\ Created(next)'
      BY <2>1, <2>2 DEF Created, ProgInv, TypeOK
    <3>. QED
      BY <1>1, <2>1, <2>2, <2>5, <3>1, <3>2 DEF ProgInv, TaskInv, Created
  <2>. QED
    BY <2>3, <2>4, <2>6 DEF Book
<1>5. CASE EnqueueTask
  <2>1. /\ UNCHANGED <<worker, cur, ran, taskMem, dataMem, queueMem>> /\ main = "enqueue"
        /\ next <= NUM_TASKS /\ arg[Main] = next
    BY <1>5 DEF EnqueueTask, ProgInv, MainInv
  <2>2. CASE EnqueueWait(Main) /\ UNCHANGED <<main, next>>
    <3>1. UNCHANGED <<arg, shutdown, accepted, taken, count, inside>>
      BY <2>2 DEF EnqueueWait, ring
    <3>2. TypeOK'
      BY <2>1, <2>2 DEF ProgInv, TypeOK
    <3>3. Numbered' /\ MainInv' /\ WorkerInv'
      BY <1>1, <2>1, <2>2, <3>1 DEF ProgInv, Numbered, MainInv, WorkerInv
    <3>4. TaskInv'
      BY <1>1, <2>1, <2>2, <3>1 DEF ProgInv, TaskInv, Created
    <3>. QED
      BY <3>2, <3>3, <3>4 DEF Book
  <2>3. CASE EnqueueStore(Main) /\ main' = "produce" /\ next' = next + 1
    <3>1. /\ ~shutdown /\ accepted' = Append(accepted, next)
          /\ arg' = [arg EXCEPT ![Main] = NULL]
          /\ UNCHANGED <<shutdown, inside, taken>>
      BY <2>1, <2>3 DEF EnqueueStore
    <3>2. TypeOK'
      BY <1>1, <2>1, <2>3 DEF ProgInv, TypeOK, MainPc
    <3>3. Numbered'
      <4>1. next \in Task /\ Len(accepted) = next - 1
        BY <1>1, <2>1 DEF ProgInv, Numbered
      <4>2. Len(accepted') = next /\ accepted'[next] = next
        BY <1>1, <3>1, <4>1
      <4>3. \A i \in 1 .. next - 1 : accepted'[i] = i
        BY <1>1, <3>1, <4>1 DEF ProgInv, Numbered
      <4>4. \A i \in 1 .. next : i = next \/ i \in 1 .. next - 1
        BY <1>1
      <4>. QED
        BY <1>1, <2>3, <4>2, <4>3, <4>4 DEF Numbered
    <3>4. MainInv' /\ WorkerInv'
      BY <1>1, <2>1, <2>3, <3>1 DEF ProgInv, MainInv, WorkerInv
    <3>5. \A k \in Task : Created(k)' <=> Created(k)
      BY <1>1, <2>1, <2>3 DEF Created
    <3>6. TaskInv'
      BY <1>1, <2>1, <3>1, <3>5 DEF ProgInv, TaskInv
    <3>. QED
      BY <3>2, <3>3, <3>4, <3>6 DEF Book
  <2>. QED
    BY <1>5, <2>2, <2>3 DEF EnqueueTask
<1>6. CASE Shutdown
  <2>1. /\ UNCHANGED <<worker, cur, next, ran, taskMem, dataMem, queueMem>>
        /\ main = "produce" /\ main' = "join" /\ next > NUM_TASKS
        /\ shutdown' = TRUE /\ UNCHANGED <<count, arg, inside, accepted, taken>>
    BY <1>6 DEF Shutdown, ShutdownQueue, ring
  <2>2. next = NUM_TASKS + 1
    BY <1>1, <2>1
  <2>3. TypeOK'
    BY <2>1 DEF ProgInv, TypeOK, MainPc
  <2>4. Numbered' /\ MainInv' /\ WorkerInv'
    BY <1>1, <2>1, <2>2 DEF ProgInv, Numbered, MainInv, WorkerInv
  <2>5. TaskInv'
    BY <1>1, <2>1 DEF ProgInv, TaskInv, Created
  <2>. QED
    BY <2>3, <2>4, <2>5 DEF Book
<1>7. CASE JoinWorkers
  <2>1. /\ UNCHANGED <<qvars, worker, cur, next, ran, taskMem, dataMem, queueMem>>
        /\ main = "join" /\ main' = "destroy"
        /\ \A w \in Consumers : worker[w] = "exited"
    BY <1>7 DEF JoinWorkers
  <2>2. UNCHANGED <<arg, shutdown, accepted, taken, count, inside>>
    BY <2>1 DEF qvars
  <2>3. TypeOK'
    BY <2>1 DEF ProgInv, TypeOK, MainPc
  <2>4. Numbered' /\ MainInv' /\ WorkerInv'
    BY <1>1, <2>1, <2>2 DEF ProgInv, Numbered, MainInv, WorkerInv
  <2>5. TaskInv'
    BY <1>1, <2>1, <2>2 DEF ProgInv, TaskInv, Created
  <2>. QED
    BY <2>3, <2>4, <2>5 DEF Book
<1>8. CASE DestroyQueue
  <2>1. count = 0
    BY <1>8, NothingLeft DEF DestroyQueue
  <2>2. \A i \in 1 .. count : FALSE
    BY <2>1
  <2>3. {Contents[i] : i \in 1 .. count} = {}
    BY <2>2
  <2>4. /\ main = "destroy" /\ main' = "done" /\ queueMem' = "freed" /\ count' = 0
        /\ taskMem' = [k \in Task |-> taskMem[k]] /\ dataMem' = [k \in Task |-> dataMem[k]]
        /\ UNCHANGED <<arg, shutdown, accepted, taken, inside, worker, cur, next, ran>>
    BY <1>8, <2>3 DEF DestroyQueue
  <2>5. taskMem' = taskMem /\ dataMem' = dataMem
    BY <2>4 DEF ProgInv, TypeOK
  <2>6. TypeOK'
    BY <2>4, <2>5 DEF ProgInv, TypeOK, MainPc, Mem
  <2>7. Numbered' /\ MainInv' /\ WorkerInv'
    BY <1>1, <2>1, <2>4 DEF ProgInv, Numbered, MainInv, WorkerInv
  <2>8. TaskInv'
    BY <1>1, <2>4, <2>5 DEF ProgInv, TaskInv, Created
  <2>. QED
    BY <2>6, <2>7, <2>8 DEF Book
<1>. QED
  BY <1>2, <1>3, <1>4, <1>5, <1>6, <1>7, <1>8 DEF MainStep

\* The steps of a worker, and a wake-up, keep the bookkeeping: the task that
\* dequeue_task hands out is the next number, which nobody holds yet.
LEMMA WorkersKeepBook ==
    ASSUME ProgInv, QTypeOK', ~Over,
           \/ \E w \in Consumers : WorkerCalls(w) \/ WorkerDequeues(w) \/ RunTask(w)
           \/ \E t \in not_empty \cup not_full : Wakeup(t)
    PROVE  Book'
<1> USE MainAssumption, TaskAssumption, NullAssumption
<1>1. /\ NUM_TASKS \in Nat /\ next \in 1 .. NUM_TASKS + 1 /\ Main \in Producers
      /\ Len(taken) \in Nat /\ accepted \in Seq(Task) /\ taken \in Seq(Task)
      /\ arg \in [Producers -> Task \cup {NULL}] /\ QTypeOK
      /\ worker \in [Consumers -> WorkerPc] /\ cur \in [Consumers -> Task \cup {NULL}]
      /\ main \notin {"done", "failed"} /\ count \in Nat
  BY SizeAssumption DEF ProgInv, TypeOK, QTypeOK, Over
<1>2. ASSUME NEW w \in Consumers, WorkerCalls(w)
      PROVE  Book'
  <2>1. /\ UNCHANGED <<main, cur, next, ran, taskMem, dataMem, queueMem>>
        /\ worker[w] = "loop" /\ worker' = [worker EXCEPT ![w] = "dequeue"]
        /\ inside' = inside \cup {w}
        /\ UNCHANGED <<arg, shutdown, accepted, taken, count>>
    BY <1>2 DEF WorkerCalls, CallDequeue, ring
  <2>2. TypeOK'
    BY <2>1 DEF ProgInv, TypeOK, WorkerPc
  <2>3. Numbered' /\ MainInv' /\ WorkerInv'
    BY <1>1, <2>1 DEF ProgInv, Numbered, MainInv, WorkerInv
  <2>4. TaskInv'
    BY <1>1, <2>1 DEF ProgInv, TaskInv, Created
  <2>. QED
    BY <2>2, <2>3, <2>4 DEF Book
<1>3. ASSUME NEW w \in Consumers, WorkerDequeues(w)
      PROVE  Book'
  <2>1. /\ UNCHANGED <<main, next, ran, taskMem, dataMem, queueMem>>
        /\ worker[w] = "dequeue" /\ main # "destroy"
    BY <1>3 DEF WorkerDequeues, ProgInv, MainInv
  <2>2. CASE DequeueWait(w) /\ UNCHANGED <<worker, cur>>
    <3>1. UNCHANGED <<arg, shutdown, accepted, taken, count, inside>>
      BY <2>2 DEF DequeueWait, ring
    <3>2. TypeOK'
      BY <2>1, <2>2 DEF ProgInv, TypeOK
    <3>3. Numbered' /\ MainInv' /\ WorkerInv'
      BY <1>1, <2>1, <2>2, <3>1 DEF ProgInv, Numbered, MainInv, WorkerInv
    <3>4. TaskInv'
      BY <1>1, <2>1, <2>2, <3>1 DEF ProgInv, TaskInv, Created
    <3>. QED
      BY <3>2, <3>3, <3>4 DEF Book
  <2>3. CASE /\ DequeueNull(w)
             /\ worker' = [worker EXCEPT ![w] = "exited"]
             /\ UNCHANGED cur
    <3>1. /\ UNCHANGED <<arg, shutdown, accepted, taken, count>>
          /\ inside' = inside \ {w} /\ count = 0 /\ shutdown
      BY <2>3 DEF DequeueNull, ring
    <3>2. TypeOK'
      BY <2>1, <2>3 DEF ProgInv, TypeOK, WorkerPc
    <3>3. Numbered' /\ MainInv' /\ WorkerInv'
      BY <1>1, <2>1, <2>3, <3>1 DEF ProgInv, Numbered, MainInv, WorkerInv
    <3>4. TaskInv'
      BY <1>1, <2>1, <2>3, <3>1 DEF ProgInv, TaskInv, Created
    <3>. QED
      BY <3>2, <3>3, <3>4 DEF Book
  <2>4. CASE /\ DequeueTake(w)
             /\ worker' = [worker EXCEPT ![w] = "run"]
             /\ cur' = [cur EXCEPT ![w] = tasks[front]]
    <3> DEFINE n == Len(taken) + 1
    <3>1. /\ UNCHANGED <<arg, shutdown, accepted>> /\ count # 0
          /\ inside' = inside \ {w} /\ taken' = Append(taken, tasks[front])
      BY <2>4 DEF DequeueTake
    <3>2. tasks[front] = n /\ n \in Task
      <4>1. /\ n \in 1 .. Len(accepted) /\ tasks[front] = accepted[n] /\ tasks[front] \in Task
        BY <1>1, <3>1, FrontTask DEF ProgInv
      <4>. QED
        BY <4>1 DEF ProgInv, Numbered
    <3>3. Len(taken') = n /\ cur' = [cur EXCEPT ![w] = n]
      BY <1>1, <2>4, <3>1, <3>2
    <3>4. TypeOK'
      BY <2>1, <2>4, <3>2, <3>3 DEF ProgInv, TypeOK, WorkerPc
    <3>5. Numbered' /\ MainInv'
      BY <1>1, <2>1, <2>4, <3>1 DEF ProgInv, Numbered, MainInv
    <3>6. \A v \in Consumers : /\ worker[v] # "exited"
                               /\ cur[v] # NULL => cur[v] \in 1 .. Len(taken)
      BY <3>1 DEF ProgInv, WorkerInv
    <3>7. cur[w] = NULL
      BY <2>1 DEF ProgInv, WorkerInv
    <3>8. WorkerInv'
      <4> SUFFICES ASSUME NEW u \in Consumers
                   PROVE  /\ u \in inside' <=> worker'[u] = "dequeue"
                          /\ IF worker'[u] = "run" THEN cur'[u] \in 1 .. n ELSE cur'[u] = NULL
                          /\ worker'[u] # "exited"
                          /\ \A v \in Consumers : cur'[v] = cur'[u] /\ cur'[u] # NULL => v = u
        BY <3>3 DEF WorkerInv
      <4>1. CASE u = w
        <5>1. worker'[u] = "run" /\ cur'[u] = n /\ u \notin inside' /\ n \in 1 .. n
          BY <1>1, <2>4, <3>1, <3>3, <4>1
        <5>2. \A v \in Consumers \ {w} : cur'[v] # n
          BY <1>1, <3>2, <3>3, <3>6
        <5>. QED
          BY <4>1, <5>1, <5>2
      <4>2. CASE u # w
        <5>1. worker'[u] = worker[u] /\ cur'[u] = cur[u] /\ (u \in inside' <=> u \in inside)
          BY <1>1, <2>4, <3>1, <3>3, <4>2
        <5>2. \A v \in Consumers : cur'[v] = cur'[u] /\ cur'[u] # NULL => v = u
          BY <1>1, <3>2, <3>3, <3>6, <4>2, <5>1 DEF ProgInv, WorkerInv
        <5>3. IF worker'[u] = "run" THEN cur'[u] \in 1 .. n ELSE cur'[u] = NULL
          BY <1>1, <5>1 DEF ProgInv, WorkerInv
        <5>. QED
          BY <3>6, <5>1, <5>2, <5>3 DEF ProgInv, WorkerInv
      <4>. QED
        BY <4>1, <4>2
    <3>9. ASSUME NEW k \in Task
          PROVE  (k <= n /\ \A v \in Consumers : cur'[v] # k)
                   <=> (k <= Len(taken) /\ \A v \in Consumers : cur[v] # k)
      <4>1. CASE k = n
        BY <1>1, <3>2, <3>3, <4>1
      <4>2. CASE k # n
        <5>1. k <= n <=> k <= Len(taken)
          BY <1>1, <4>2
        <5>2. \A v \in Consumers : cur'[v] # k <=> cur[v] # k
          BY <1>1, <3>3, <3>7, <4>2
        <5>. QED
          BY <5>1, <5>2
      <4>. QED
        BY <4>1, <4>2
    <3>10. TaskInv'
      BY <1>1, <2>1, <3>3, <3>9 DEF ProgInv, TaskInv, Created
    <3>. QED
      BY <3>4, <3>5, <3>8, <3>10 DEF Book
  <2>. QED
    BY <1>3, <2>2, <2>3, <2>4 DEF WorkerDequeues
<1>4. ASSUME NEW w \in Consumers, RunTask(w)
      PROVE  Book'
  <2> DEFINE k == cur[w]
  <2>1. /\ UNCHANGED <<qvars, main, next, dataMem, queueMem>>
        /\ worker[w] = "run" /\ worker' = [worker EXCEPT ![w] = "loop"]
        /\ ran' = [ran EXCEPT ![k] = @ + 1]
        /\ taskMem' = [taskMem EXCEPT ![k] = "freed"]
        /\ cur' = [cur EXCEPT ![w] = NULL]
    BY <1>4 DEF RunTask
  <2>2. UNCHANGED <<arg, shutdown, accepted, taken, count, inside>>
    BY <2>1 DEF qvars
  <2>3. k \in 1 .. Len(taken) /\ k \in Task /\ k # NULL
    <3>1. k \in 1 .. Len(taken)
      BY <2>1 DEF ProgInv, WorkerInv
    <3>2. Len(taken) <= NUM_TASKS
      BY <1>1 DEF ProgInv, RingInv, Numbered
    <3>. QED
      BY <1>1, <3>1, <3>2
  <2>4. ran[k] = 0
    BY <2>3 DEF ProgInv, TaskInv
  <2>5. TypeOK'
    BY <2>1, <2>3 DEF ProgInv, TypeOK, WorkerPc, Mem
  <2>6. Numbered' /\ MainInv'
    BY <1>1, <2>1, <2>2 DEF ProgInv, Numbered, MainInv
  <2>7. WorkerInv'
    BY <1>1, <2>1, <2>2 DEF ProgInv, WorkerInv
  <2>8. \A v \in Consumers : cur'[v] # k
    BY <1>1, <2>1, <2>3 DEF ProgInv, WorkerInv
  <2>9. ran'[k] = 1 /\ taskMem'[k] = "freed"
    BY <2>1, <2>3, <2>4 DEF ProgInv, TypeOK
  <2>10. ASSUME NEW j \in Task, j # k
         PROVE  /\ ran'[j] = ran[j] /\ taskMem'[j] = taskMem[j]
                /\ \A v \in Consumers : cur'[v] # j <=> cur[v] # j
    BY <1>1, <2>1, <2>10 DEF ProgInv, TypeOK
  <2>11. \A j \in Task : Created(j)' <=> Created(j)
    BY <2>1 DEF Created
  <2>12. TaskInv'
    <3> SUFFICES ASSUME NEW j \in Task
                 PROVE  /\ ran'[j] = IF j <= Len(taken) /\ \A v \in Consumers : cur'[v] # j
                                       THEN 1 ELSE 0
                        /\ taskMem'[j] = IF ran'[j] = 1 THEN "freed"
                                         ELSE IF Created(j) THEN "live" ELSE "none"
                        /\ dataMem'[j] = IF Created(j) THEN "live" ELSE "none"
      BY <2>2, <2>11 DEF TaskInv
    <3>1. CASE j = k
      BY <1>1, <2>1, <2>3, <2>8, <2>9, <3>1 DEF ProgInv, TaskInv
    <3>2. CASE j # k
      BY <2>1, <2>10, <3>2 DEF ProgInv, TaskInv
    <3>. QED
      BY <3>1, <3>2
  <2>. QED
    BY <2>5, <2>6, <2>7, <2>12 DEF Book
<1>5. ASSUME NEW t \in not_empty \cup not_full, Wakeup(t)
      PROVE  Book'
  <2>1. /\ UNCHANGED <<main, worker, cur, next, ran, taskMem, dataMem, queueMem>>
        /\ UNCHANGED <<arg, shutdown, accepted, taken, count, inside>>
    BY <1>5 DEF Wakeup, SpuriousWakeup, pvars, ring
  <2>2. TypeOK'
    BY <2>1 DEF ProgInv, TypeOK
  <2>3. Numbered' /\ MainInv' /\ WorkerInv'
    BY <1>1, <2>1 DEF ProgInv, Numbered, MainInv, WorkerInv
  <2>4. TaskInv'
    BY <1>1, <2>1 DEF ProgInv, TaskInv, Created
  <2>. QED
    BY <2>2, <2>3, <2>4 DEF Book
<1>. QED
  BY <1>2, <1>3, <1>4, <1>5

\* The inductive invariant of the program: the queue's invariants with the
\* numbering of the tasks and the bookkeeping of main, workers and heap.
LEMMA ProgramCorrect == Spec => []ProgInv
<1>1. Init => ProgInv
  <2> SUFFICES ASSUME Init PROVE ProgInv
    OBVIOUS
  <2>1. TypeOK /\ RingInv
    <3>1. QInit
      BY DEF Init
    <3>2. QTypeOK /\ RingInv
      BY <3>1, SizeAssumption DEF QInit, QTypeOK, RingInv, RingConsistent, Slots
    <3>. QED
      BY <3>2, TaskAssumption DEF Init, TypeOK, MainPc, WorkerPc, Mem
  <2>2. WakeInv
    BY DEF Init, QInit, WakeInv, NoLostWakeup
  <2>3. Numbered /\ MainInv /\ WorkerInv
    BY MainAssumption, TaskAssumption DEF Init, QInit, Numbered, MainInv, WorkerInv
  <2>4. TaskInv
    BY TaskAssumption, NullAssumption DEF Init, QInit, TaskInv, Created
  <2>. QED
    BY <2>1, <2>2, <2>3, <2>4 DEF ProgInv
<1>2. ASSUME ProgInv, [Next]_vars
      PROVE  ProgInv'
  <2>1. QTypeOK' /\ RingInv' /\ WakeInv'
    <3>1. [QNext]_qvars /\ QTypeOK
      BY <1>2, ProgramStepsQueue DEF ProgInv, TypeOK
    <3>2. QTypeOK' /\ RingInv'
      BY <1>2, <3>1, TypeStep, RingStep DEF ProgInv
    <3>. QED
      BY <1>2, <3>1, <3>2, WakeStep DEF ProgInv
  <2>2. ASSUME UNCHANGED vars
        PROVE  Book'
    <3>1. UNCHANGED <<main, worker, cur, next, ran, taskMem, dataMem, queueMem>>
      BY <2>2 DEF vars, pvars
    <3>2. UNCHANGED <<arg, shutdown, accepted, taken, count, inside>>
      BY <2>2 DEF vars, qvars
    <3>3. TypeOK' /\ Numbered' /\ MainInv' /\ WorkerInv'
      BY <1>2, <2>1, <3>1, <3>2 DEF ProgInv, TypeOK, Numbered, MainInv, WorkerInv
    <3>4. TaskInv'
      BY <1>2, <3>1, <3>2 DEF ProgInv, TaskInv, Created
    <3>. QED
      BY <3>3, <3>4 DEF Book
  <2>3. Book'
    BY <1>2, <2>1, <2>2, MainKeepsBook, WorkersKeepBook DEF Next, WorkerStep
  <2>. QED
    BY <2>1, <2>3 DEF ProgInv, Book
<1>. QED
  BY <1>1, <1>2, PTL DEF Spec
-----------------------------------------------------------------------------
\* A task that enqueue_task accepted is in one slot of the ring, or with one
\* worker, or has run, and never two of these at once, for any number of
\* workers, tasks and slots; and it stays allocated until it has run.
THEOREM EachTaskOnce == Spec => []AcceptedOnce
<1>1. ProgInv => AcceptedOnce
  <2> SUFFICES ASSUME ProgInv, NEW k \in Task, ~Over
               PROVE  LET queued  == Cardinality({i \in 1 .. count : Contents[i] = k})
                          holders == Cardinality({w \in Consumers : cur[w] = k})
                      IN /\ queued + holders + ran[k] = IF k < next THEN 1 ELSE 0
                         /\ (queued + holders > 0) => taskMem[k] = "live" /\ dataMem[k] = "live"
    BY DEF AcceptedOnce
  <2> DEFINE Q == {i \in 1 .. count : Contents[i] = k}
             H == {w \in Consumers : cur[w] = k}
  <2>1. /\ k \in Nat \ {0} /\ next \in Nat /\ Len(taken) \in Nat /\ count \in Nat
        /\ QTypeOK /\ RingInv
    BY TaskAssumption, SizeAssumption DEF ProgInv, TypeOK, QTypeOK
  <2>2. Len(taken) + count = next - 1
    BY DEF ProgInv, RingInv, Numbered
  <2>3. \A i \in 1 .. count : Contents[i] = Len(taken) + i
    <3>1. ASSUME NEW i \in 1 .. count
          PROVE  Contents[i] = Len(taken) + i
      <4>1. Contents[i] = accepted[Len(taken) + i]
        BY <2>1, ContentsType
      <4>2. Len(taken) + i \in 1 .. Len(accepted)
        BY <2>1 DEF RingInv
      <4>. QED
        BY <4>1, <4>2 DEF ProgInv, Numbered
    <3>. QED
      BY <3>1
  <2>4. Cardinality({}) = 0 /\ \A x : Cardinality({x}) = 1
    BY FS_EmptySet, FS_Singleton
  <2>5. Cardinality(Q) = IF Len(taken) < k /\ k < next THEN 1 ELSE 0
    <3>1. CASE Len(taken) < k /\ k < next
      <4>1. k - Len(taken) \in 1 .. count
        BY <2>1, <2>2, <3>1
      <4>2. Q = {k - Len(taken)}
        BY <2>1, <2>3, <4>1
      <4>. QED
        BY <2>4, <3>1, <4>2
    <3>2. CASE ~(Len(taken) < k /\ k < next)
      <4>1. Q = {}
        BY <2>1, <2>2, <2>3, <3>2
      <4>. QED
        BY <2>4, <3>2, <4>1
    <3>. QED
      BY <3>1, <3>2
  <2>6. /\ H = {} \/ \E w : H = {w}
        /\ H # {} => k <= Len(taken)
    <3>1. k # NULL
      BY NullAssumption
    <3>2. \A w, v \in Consumers : cur[w] = k /\ cur[v] = k => v = w
      BY <3>1 DEF ProgInv, WorkerInv
    <3>3. \A w \in Consumers : cur[w] = k => k \in 1 .. Len(taken)
      BY <3>1 DEF ProgInv, WorkerInv
    <3>4. H = {} \/ \E w : H = {w}
      <4>1. ASSUME NEW w \in H
            PROVE  H = {w}
        BY <3>2
      <4>. QED
        BY <4>1
    <3>. QED
      BY <2>1, <3>3, <3>4
  <2>7. Cardinality(H) = IF H = {} THEN 0 ELSE 1
    BY <2>4, <2>6
  <2>8. ran[k] = IF k <= Len(taken) /\ H = {} THEN 1 ELSE 0
    BY DEF ProgInv, TaskInv
  <2>9. Cardinality(Q) + Cardinality(H) + ran[k] = IF k < next THEN 1 ELSE 0
    <3>1. k <= Len(taken) => k < next
      BY <2>1, <2>2
    <3>. QED
      BY <2>1, <2>5, <2>6, <2>7, <2>8, <3>1
  <2>10. Cardinality(Q) + Cardinality(H) > 0 => taskMem[k] = "live" /\ dataMem[k] = "live"
    <3>1. SUFFICES ASSUME Cardinality(Q) + Cardinality(H) > 0
                   PROVE  taskMem[k] = "live" /\ dataMem[k] = "live"
      OBVIOUS
    <3>2. ran[k] = 0 /\ k < next
      BY <2>1, <2>5, <2>7, <2>8, <2>9, <3>1
    <3>. QED
      BY <3>2 DEF ProgInv, TaskInv, Created
  <2>. QED
    BY <2>9, <2>10
<1>. QED
  BY <1>1, ProgramCorrect, PTL

\* destroy_work_queue frees the queue when no thread is inside it or will
\* enter it again, and when nothing is left in it.
THEOREM QueueFreedUnused == Spec => []FreedOnlyWhenUnused
<1>1. ProgInv => FreedOnlyWhenUnused
  <2> SUFFICES ASSUME ProgInv, main \in {"destroy", "done"}
               PROVE  /\ count = 0 /\ inside = {} /\ not_empty = {} /\ not_full = {}
                      /\ \A w \in Consumers : worker[w] = "exited" /\ cur[w] = NULL
    BY DEF FreedOnlyWhenUnused
  <2>1. count = 0 /\ shutdown
    BY NothingLeft
  <2>2. not_empty = {} /\ not_full = {}
    BY <2>1 DEF ProgInv, WakeInv
  <2>3. \A w \in Consumers : worker[w] = "exited"
    BY DEF ProgInv, MainInv
  <2>4. \A w \in Consumers : cur[w] = NULL /\ w \notin inside
    BY <2>3 DEF ProgInv, WorkerInv
  <2>5. inside = {}
    BY <2>4 DEF ProgInv, TypeOK, QTypeOK
  <2>. QED
    BY <2>1, <2>2, <2>3, <2>4, <2>5
<1>. QED
  BY <1>1, ProgramCorrect, PTL

\* When main returns 0 each task has run exactly once and its block is freed.
THEOREM AllTasksRun == Spec => []AllRunAtExit
<1>1. ProgInv => AllRunAtExit
  <2> SUFFICES ASSUME ProgInv, main = "done", NEW k \in Task
               PROVE  ran[k] = 1 /\ taskMem[k] = "freed"
    BY DEF AllRunAtExit
  <2>1. count = 0 /\ next = NUM_TASKS + 1
    BY NothingLeft
  <2>2. k <= Len(taken)
    BY <2>1, TaskAssumption DEF ProgInv, RingInv, Numbered, TypeOK, QTypeOK
  <2>3. \A w \in Consumers : cur[w] = NULL
    BY DEF ProgInv, MainInv, WorkerInv
  <2>4. ran[k] = 1
    BY <2>2, <2>3, NullAssumption DEF ProgInv, TaskInv
  <2>. QED
    BY <2>4 DEF ProgInv, TaskInv
<1>. QED
  BY <1>1, ProgramCorrect, PTL
=============================================================================
