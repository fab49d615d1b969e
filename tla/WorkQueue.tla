------------------------------ MODULE WorkQueue ------------------------------
(***************************************************************************)
(* The work queue of lesson_9/04_work_queue_pattern: a ring buffer of      *)
(* MAX_QUEUE_SIZE task pointers under one mutex, with the condition        *)
(* variables not_empty and not_full (04_work_queue_pattern.c, 20-144).     *)
(*                                                                         *)
(* Every access to the ring is made with the mutex held, from              *)
(* pthread_mutex_lock to the unlock or to pthread_cond_wait, so each such  *)
(* stretch is one action.  What interleaves is the order in which threads  *)
(* get the mutex and the instants between a wake-up and the re-check of    *)
(* the waiting loop.  pthread_cond_signal wakes one sleeper if there is    *)
(* one; pthread_cond_wait may also return without a signal.                *)
(*                                                                         *)
(* This module lets any number of producers and consumers call the queue   *)
(* and any thread shut it down; module WorkQueuePattern is the program     *)
(* that uses it.                                                           *)
(***************************************************************************)
EXTENDS Integers, Sequences, FiniteSets

CONSTANTS MAX_QUEUE_SIZE,  \* slots of the ring
          Producers,       \* threads that call enqueue_task
          Consumers,       \* threads that call dequeue_task
          Task,            \* the tasks, each enqueued at most once
          NULL             \* no task: an empty argument, an unwritten slot

ASSUME SizeAssumption == MAX_QUEUE_SIZE \in Nat \ {0}
ASSUME NullAssumption == NULL \notin Task
ASSUME FiniteAssumption == IsFiniteSet(Producers) /\ IsFiniteSet(Consumers)

VARIABLES tasks, front, rear, count, shutdown,  \* the fields of WorkQueue
          not_empty,  \* consumers asleep in pthread_cond_wait(&not_empty)
          not_full,   \* producers asleep in pthread_cond_wait(&not_full)
          arg,        \* the task a producer is inside enqueue_task with
          inside,     \* the consumers inside dequeue_task
          accepted,   \* history: tasks stored in the ring, in order
          taken       \* history: tasks handed to consumers, in order

ring == <<tasks, front, rear, count>>
qvars == <<tasks, front, rear, count, shutdown, not_empty, not_full, arg,
           inside, accepted, taken>>

Slots == 0 .. MAX_QUEUE_SIZE - 1

QTypeOK == /\ tasks \in [Slots -> Task \cup {NULL}]
           /\ front \in Slots
           /\ rear \in Slots \cup {-1}
           /\ count \in 0 .. MAX_QUEUE_SIZE
           /\ shutdown \in BOOLEAN
           /\ not_empty \subseteq Consumers
           /\ not_full \subseteq Producers
           /\ arg \in [Producers -> Task \cup {NULL}]
           /\ inside \subseteq Consumers
           /\ accepted \in Seq(Task)
           /\ taken \in Seq(Task)

\* create_work_queue
QInit == /\ tasks = [i \in Slots |-> NULL]
         /\ front = 0
         /\ rear = -1
         /\ count = 0
         /\ shutdown = FALSE
         /\ not_empty = {} /\ not_full = {}
         /\ arg = [p \in Producers |-> NULL]
         /\ inside = {}
         /\ accepted = << >> /\ taken = << >>

-----------------------------------------------------------------------------
\* The sleepers a signal may leave behind: one is woken, if there is one.
Signal(sleepers) == IF sleepers = {} THEN {{}}
                    ELSE {sleepers \ {t} : t \in sleepers}

\* A producer that is past the call but not asleep wants the mutex.
ReadyProducer(p) == arg[p] # NULL /\ p \notin not_full
ReadyConsumer(c) == c \in inside /\ c \notin not_empty

\* enqueue_task is called, and the caller goes for the mutex.
CallEnqueue(p, k) == /\ arg[p] = NULL
                     /\ k \notin {arg[q] : q \in Producers}
                     /\ \A i \in 1 .. Len(accepted) : accepted[i] # k
                     /\ arg' = [arg EXCEPT ![p] = k]
                     /\ UNCHANGED <<ring, shutdown, not_empty, not_full,
                                    inside, accepted, taken>>

\* The body of the waiting loop of enqueue_task.
EnqueueWait(p) == /\ ReadyProducer(p)
                  /\ count = MAX_QUEUE_SIZE /\ ~shutdown
                  /\ not_full' = not_full \cup {p}
                  /\ UNCHANGED <<ring, shutdown, not_empty, arg, inside,
                                 accepted, taken>>

\* enqueue_task returns false: the queue is shutting down.
EnqueueRefused(p) == /\ ReadyProducer(p)
                     /\ shutdown
                     /\ arg' = [arg EXCEPT ![p] = NULL]
                     /\ UNCHANGED <<ring, shutdown, not_empty, not_full,
                                    inside, accepted, taken>>

\* Mutant: the wait is an if, so that a woken producer does not look again.
EnqueueStoreNoRecheck(p) ==
    /\ ReadyProducer(p)
    /\ ~shutdown
    /\ rear' = (rear + 1) % MAX_QUEUE_SIZE
    /\ tasks' = [tasks EXCEPT ![rear'] = arg[p]]
    /\ count' = count + 1
    /\ not_empty' \in Signal(not_empty)
    /\ accepted' = Append(accepted, arg[p])
    /\ arg' = [arg EXCEPT ![p] = NULL]
    /\ UNCHANGED <<front, shutdown, not_full, inside, taken>>

\* Mutant: not_empty is signalled only when the queue was empty.
EnqueueStoreSignalIfEmpty(p) ==
    /\ ReadyProducer(p)
    /\ count # MAX_QUEUE_SIZE /\ ~shutdown
    /\ rear' = (rear + 1) % MAX_QUEUE_SIZE
    /\ tasks' = [tasks EXCEPT ![rear'] = arg[p]]
    /\ count' = count + 1
    /\ not_empty' \in IF count = 0 THEN Signal(not_empty) ELSE {not_empty}
    /\ accepted' = Append(accepted, arg[p])
    /\ arg' = [arg EXCEPT ![p] = NULL]
    /\ UNCHANGED <<front, shutdown, not_full, inside, taken>>

\* enqueue_task stores the task behind rear, signals not_empty, returns true.
EnqueueStore(p) ==
    /\ ReadyProducer(p)
    /\ count # MAX_QUEUE_SIZE /\ ~shutdown
    /\ rear' = (rear + 1) % MAX_QUEUE_SIZE
    /\ tasks' = [tasks EXCEPT ![rear'] = arg[p]]
    /\ count' = count + 1
    /\ not_empty' \in Signal(not_empty)
    /\ accepted' = Append(accepted, arg[p])
    /\ arg' = [arg EXCEPT ![p] = NULL]
    /\ UNCHANGED <<front, shutdown, not_full, inside, taken>>

CallDequeue(c) == /\ c \notin inside
                  /\ inside' = inside \cup {c}
                  /\ UNCHANGED <<ring, shutdown, not_empty, not_full, arg,
                                 accepted, taken>>

\* The body of the waiting loop of dequeue_task.
DequeueWait(c) == /\ ReadyConsumer(c)
                  /\ count = 0 /\ ~shutdown
                  /\ not_empty' = not_empty \cup {c}
                  /\ UNCHANGED <<ring, shutdown, not_full, arg, inside,
                                 accepted, taken>>

\* Mutant: a shutdown ends dequeue_task although tasks are left.
DequeueNullAtOnce(c) == /\ ReadyConsumer(c)
                        /\ shutdown
                        /\ inside' = inside \ {c}
                        /\ UNCHANGED <<ring, shutdown, not_empty, not_full, arg,
                                       accepted, taken>>

\* dequeue_task returns NULL: the queue is empty and shutting down.
DequeueNull(c) == /\ ReadyConsumer(c)
                  /\ count = 0 /\ shutdown
                  /\ inside' = inside \ {c}
                  /\ UNCHANGED <<ring, shutdown, not_empty, not_full, arg,
                                 accepted, taken>>

\* Mutant: front is advanced before the task is read.
DequeueTakeIncFirst(c) ==
    /\ ReadyConsumer(c)
    /\ count # 0
    /\ front' = (front + 1) % MAX_QUEUE_SIZE
    /\ taken' = Append(taken, tasks[front'])
    /\ count' = count - 1
    /\ not_full' \in Signal(not_full)
    /\ inside' = inside \ {c}
    /\ UNCHANGED <<tasks, rear, shutdown, not_empty, arg, accepted>>

\* Mutant: a woken consumer does not look at count again.
DequeueTakeNoRecheck(c) ==
    /\ ReadyConsumer(c)
    /\ taken' = Append(taken, tasks[front])
    /\ front' = (front + 1) % MAX_QUEUE_SIZE
    /\ count' = count - 1
    /\ not_full' \in Signal(not_full)
    /\ inside' = inside \ {c}
    /\ UNCHANGED <<tasks, rear, shutdown, not_empty, arg, accepted>>

\* dequeue_task returns the task at front and signals not_full.
DequeueTake(c) ==
    /\ ReadyConsumer(c)
    /\ count # 0
    /\ taken' = Append(taken, tasks[front])
    /\ front' = (front + 1) % MAX_QUEUE_SIZE
    /\ count' = count - 1
    /\ not_full' \in Signal(not_full)
    /\ inside' = inside \ {c}
    /\ UNCHANGED <<tasks, rear, shutdown, not_empty, arg, accepted>>

\* Mutant: the shutdown signals one sleeper instead of all.
ShutdownSignals == /\ shutdown' = TRUE
                   /\ not_empty' \in Signal(not_empty)
                   /\ not_full' \in Signal(not_full)
                   /\ UNCHANGED <<ring, arg, inside, accepted, taken>>

\* shutdown_work_queue: the flag, and a broadcast on both conditions.
ShutdownQueue == /\ shutdown' = TRUE
                 /\ not_empty' = {} /\ not_full' = {}
                 /\ UNCHANGED <<ring, arg, inside, accepted, taken>>

\* pthread_cond_wait returns although nobody signalled.
SpuriousWakeup(t) == /\ t \in not_empty \cup not_full
                     /\ not_empty' = not_empty \ {t}
                     /\ not_full' = not_full \ {t}
                     /\ UNCHANGED <<ring, shutdown, arg, inside, accepted,
                                    taken>>

Enqueue(p) == EnqueueWait(p) \/ EnqueueRefused(p) \/ EnqueueStore(p)
Dequeue(c) == DequeueWait(c) \/ DequeueNull(c) \/ DequeueTake(c)

QNext == \/ \E p \in Producers : Enqueue(p) \/ \E k \in Task : CallEnqueue(p, k)
         \/ \E c \in Consumers : CallDequeue(c) \/ Dequeue(c)
         \/ ShutdownQueue
         \/ \E t \in not_empty \cup not_full : SpuriousWakeup(t)

\* A thread that wants the mutex gets it in the end: no critical section
\* blocks, and a pthread mutex is not withheld from a waiter for ever.
QFairness == /\ \A p \in Producers : WF_qvars(Enqueue(p))
             /\ \A c \in Consumers : WF_qvars(Dequeue(c))

QSpec == QInit /\ [][QNext]_qvars
QFairSpec == QSpec /\ QFairness
-----------------------------------------------------------------------------
\* The slot of the i-th oldest task, and the tasks in the ring, oldest first.
SlotOf(i) == (front + i - 1) % MAX_QUEUE_SIZE
Contents == [i \in 1 .. count |-> tasks[SlotOf(i)]]

\* The two indices and the counter agree: rear is count - 1 slots after
\* front, also when the ring wrapped and in the initial state (rear = -1).
RingConsistent == (rear + 1) % MAX_QUEUE_SIZE = (front + count) % MAX_QUEUE_SIZE

\* What makes FIFO inductive: the ring holds, from front on, exactly the
\* accepted tasks that were not taken yet, and rear is where they end.
RingInv == /\ RingConsistent
           /\ Len(accepted) = Len(taken) + count
           /\ \A i \in 1 .. Len(taken) : taken[i] = accepted[i]
           /\ \A i \in 1 .. count : tasks[SlotOf(i)] = accepted[Len(taken) + i]

\* No task is lost, duplicated, overtaken or overwritten in the ring: what
\* was stored is what was handed out followed by what the ring holds.
FIFO == accepted = taken \o Contents

\* No wake-up is lost on the way to a sleeper.  While a consumer sleeps, at
\* least as many consumers are awake and heading for the mutex as there are
\* tasks to take, so every task has a thread that will come for it; and the
\* same for producers and free slots.
NoLostWakeup ==
    /\ not_empty # {} =>
         count <= Cardinality({c \in Consumers : ReadyConsumer(c)})
    /\ not_full # {} =>
         MAX_QUEUE_SIZE - count <= Cardinality({p \in Producers : ReadyProducer(p)})

\* The ring, its indices and its sleepers implement the closable channel.
Channel == INSTANCE BoundedChannel WITH Capacity <- MAX_QUEUE_SIZE,
                                        Msg <- Task,
                                        chan <- Contents,
                                        closed <- shutdown
ImplementsChannel == Channel!Spec

\* Once the queue is shut down every call of enqueue_task and dequeue_task
\* that is under way returns (dequeue_task: with a task or with NULL).
CallsReturn == /\ \A p \in Producers : shutdown /\ arg[p] # NULL ~> arg[p] = NULL
               /\ \A c \in Consumers : shutdown /\ c \in inside ~> c \notin inside
=============================================================================
