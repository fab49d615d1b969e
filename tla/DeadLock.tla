------------------------------- MODULE DeadLock -------------------------------
(***************************************************************************)
(* The three demonstrations of lesson_9/07_deadlock: two threads that need *)
(* the mutexes resource_A and resource_B, first in opposite orders, then   *)
(* in one order, then in opposite orders with a time limit on the second   *)
(* lock (07_dead_lock.c).                                                  *)
(*                                                                         *)
(* A thread function is the list of its calls on mutexes; its messages are *)
(* left out except for one thing they do: printf is a point where a        *)
(* pending pthread_cancel may take effect, as sleep always is.             *)
(* pthread_mutex_lock is not such a point.  Nothing is assumed about how   *)
(* long a thread takes between two calls, whatever the sleeps suggest.     *)
(***************************************************************************)
EXTENDS Naturals, Sequences

Threads == {"thread1", "thread2"}
Resource == {"A", "B"}
Nobody == "nobody"

VARIABLES part,      \* which demonstration main is at, 4: past the last
          main,      \* where main is within a demonstration
          pc,        \* the index of the call a thread is at, 0: not created
          printed,   \* the thread has printed and is now in that call
          owner,     \* who holds each mutex
          cancel,    \* threads with a pending pthread_cancel
          gone       \* threads that ended, by returning or by cancellation

vars == <<part, main, pc, printed, owner, cancel, gone>>

\* thread1_function and thread2_function, without and with
\* use_deadlock_prevention, and their _timeout variants.
Nested(op, first, second) == << <<"lock", first>>, <<"sleep", first>>, <<op, second>>,
                                <<"unlock", second>>, <<"unlock", first>> >>
thread1_function(p) == Nested(IF p = 3 THEN "try" ELSE "lock", "A", "B")

\* Mutant: use_deadlock_prevention is ignored.
thread2_functionUnordered(p) == Nested(IF p = 3 THEN "try" ELSE "lock", "B", "A")

\* Mutant: the second lock names the first mutex again.
thread2_functionSameLock(p) == IF p = 2 THEN Nested("lock", "A", "B")
                               ELSE Nested(IF p = 3 THEN "try" ELSE "lock", "B", "B")

thread2_function(p) == IF p = 2 THEN Nested("lock", "A", "B")
                       ELSE Nested(IF p = 3 THEN "try" ELSE "lock", "B", "A")
Script(t) == IF t = "thread1" THEN thread1_function(part) ELSE thread2_function(part)

Op(t) == Script(t)[pc[t]][1]
Res(t) == Script(t)[pc[t]][2]

TypeOK == /\ part \in 1 .. 4
          /\ main \in {"create1", "create2", "cancel", "join", "done"}
          /\ pc \in [Threads -> 0 .. 6]
          /\ printed \in [Threads -> BOOLEAN]
          /\ owner \in [Resource -> Threads \cup {Nobody}]
          /\ cancel \subseteq Threads /\ gone \subseteq Threads

Init == /\ part = 1 /\ main = "create1"
        /\ pc = [t \in Threads |-> 0]
        /\ printed = [t \in Threads |-> FALSE]
        /\ owner = [r \in Resource |-> Nobody]
        /\ cancel = {} /\ gone = {}
-----------------------------------------------------------------------------
Create(t, from, to) == /\ main = from
                       /\ main' = to
                       /\ pc' = [pc EXCEPT ![t] = 1]
                       /\ UNCHANGED <<part, printed, owner, cancel, gone>>

CreateThread1 == Create("thread1", "create1", "create2")
CreateThread2 == Create("thread2", "create2", IF part = 1 THEN "cancel" ELSE "join")

\* Part 1 only: main has waited, and cancels both threads.
CancelBoth == /\ main = "cancel"
              /\ cancel' = Threads
              /\ main' = "join"
              /\ UNCHANGED <<part, pc, printed, owner, gone>>

\* Both pthread_joins returned; the mutexes are destroyed and, unless this
\* was the last demonstration, initialised again, held or not.
JoinBoth == /\ main = "join" /\ gone = Threads
            /\ part' = part + 1
            /\ main' = IF part = 3 THEN "done" ELSE "create1"
            /\ pc' = [t \in Threads |-> 0]
            /\ owner' = [r \in Resource |-> Nobody]
            /\ cancel' = {} /\ gone' = {}
            /\ UNCHANGED printed
-----------------------------------------------------------------------------
Running(t) == pc[t] \in 1 .. 5 /\ t \notin gone

\* The thread goes on to its next call, or returns after its last one.
Advance(t, n) == /\ pc' = [pc EXCEPT ![t] = n]
                 /\ printed' = [printed EXCEPT ![t] = FALSE]
                 /\ gone' = IF n = 6 THEN gone \cup {t} ELSE gone
                 /\ UNCHANGED <<part, main, cancel>>

\* The printf in front of a call: a cancellation may take effect here.
PrintStep(t) == /\ Running(t) /\ ~printed[t]
                /\ printed' = [printed EXCEPT ![t] = TRUE]
                /\ UNCHANGED <<part, main, pc, owner, cancel, gone>>

\* The thread dies at a cancellation point; no cleanup handler unlocks what
\* it holds.
Cancelled(t) == /\ Running(t) /\ t \in cancel
                /\ ~printed[t] \/ Op(t) = "sleep"
                /\ gone' = gone \cup {t}
                /\ printed' = [printed EXCEPT ![t] = FALSE]
                /\ UNCHANGED <<part, main, pc, owner, cancel>>

SleepStep(t) == /\ Running(t) /\ printed[t] /\ Op(t) = "sleep"
                /\ t \notin cancel
                /\ Advance(t, pc[t] + 1)
                /\ UNCHANGED owner

\* pthread_mutex_lock, or a pthread_mutex_trylock that finds the mutex free.
Acquire(t) == /\ Running(t) /\ printed[t] /\ Op(t) \in {"lock", "try"}
              /\ owner[Res(t)] = Nobody
              /\ owner' = [owner EXCEPT ![Res(t)] = t]
              /\ Advance(t, pc[t] + 1)

\* Mutant: the thread tries again with its first mutex held.
TimedOutRetries(t) == /\ Running(t) /\ printed[t] /\ Op(t) = "try"
                      /\ owner[Res(t)] # Nobody
                      /\ Advance(t, 3)
                      /\ UNCHANGED owner

\* mutex_lock_with_timeout returns false: the mutex was held at every try.
\* The thread skips to the unlock of its first mutex.
TimedOut(t) == /\ Running(t) /\ printed[t] /\ Op(t) = "try"
               /\ owner[Res(t)] # Nobody
               /\ Advance(t, 5)
               /\ UNCHANGED owner

Release(t) == /\ Running(t) /\ printed[t] /\ Op(t) = "unlock"
              /\ owner' = [owner EXCEPT ![Res(t)] = Nobody]
              /\ Advance(t, pc[t] + 1)

ThreadStep(t) == \/ PrintStep(t) \/ Cancelled(t) \/ SleepStep(t)
                 \/ Acquire(t) \/ TimedOut(t) \/ Release(t)
MainStep == CreateThread1 \/ CreateThread2 \/ CancelBoth \/ JoinBoth

Next == MainStep \/ \E t \in Threads : ThreadStep(t)

\* Every thread keeps running, and a pthread mutex that is free is given to
\* a thread that waits for it.
Spec == /\ Init /\ [][Next]_vars
        /\ WF_vars(MainStep) /\ \A t \in Threads : WF_vars(ThreadStep(t))
-----------------------------------------------------------------------------
Other(t) == CHOOSE u \in Threads : u # t

\* The thread sits in pthread_mutex_lock on a mutex that somebody holds.
Blocked(t) == Running(t) /\ printed[t] /\ Op(t) = "lock" /\ owner[Res(t)] # Nobody

\* Each waits for the other: the situation of part 1.
CircularWait == \A t \in Threads : Blocked(t) /\ owner[Res(t)] = Other(t)

\* The holder was cancelled while it held the mutex.
OrphanedLock == \E t \in Threads : Blocked(t) /\ owner[Res(t)] = Other(t)
                                     /\ Other(t) \in gone

\* Lock ordering and lock timeouts never let the two threads wait for each
\* other: a circular wait is possible in part 1 only.
CycleOnlyInPart1 == CircularWait => part = 1

\* Parts 2 and 3 end, whatever the scheduling.
OrderingAndTimeoutsEnd == part \in {2, 3} ~> main = "done"

\* The only ways in which part 1 does not end are the two deadlocks: each
\* thread waiting for the other, or for a thread that was cancelled with the
\* mutex held.
Part1EndsOrDeadlocks == part = 1 ~> part = 2 \/ CircularWait \/ OrphanedLock

\* What main announces: the deadlocked threads of part 1 are cancelled and
\* joined, and the program goes on to its second part.
Part2Reached == <>(part = 2)
===============================================================================
