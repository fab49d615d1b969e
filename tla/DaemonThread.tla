----------------------------- MODULE DaemonThread -----------------------------
(***************************************************************************)
(* The reference count of lesson_9/10_deamon_thread: detached background   *)
(* threads register and unregister themselves in active_threads, and main  *)
(* waits on count_cond until the count is zero (10_deamon_thread.c).       *)
(***************************************************************************)
EXTENDS Naturals, FiniteSets

CONSTANTS Background,  \* the background threads
          MaxWork      \* rounds of work of a thread (10 in the code)

ASSUME DaemonAssumption == IsFiniteSet(Background) /\ MaxWork \in Nat \ {0}

VARIABLES running, active_threads,
          main,   \* where main is; "asleep": in pthread_cond_wait
          bg,     \* where each background thread is
          count   \* rounds of work each thread has done

vars == <<running, active_threads, main, bg, count>>

TypeOK == /\ running \in BOOLEAN
          /\ active_threads \in 0 .. Cardinality(Background)
          /\ main \in {"create", "work", "check", "asleep", "exit"}
          /\ bg \in [Background -> {"unborn", "register", "test", "sleep", "unregister", "end"}]
          /\ count \in [Background -> 0 .. MaxWork]

Init == /\ running = TRUE /\ active_threads = 0 /\ main = "create"
        /\ bg = [t \in Background |-> "unborn"]
        /\ count = [t \in Background |-> 0]

Alive == main # "exit"   \* returning from main ends every thread
-----------------------------------------------------------------------------
CreateThread(t) == /\ main = "create" /\ bg[t] = "unborn"
                   /\ bg' = [bg EXCEPT ![t] = "register"]
                   /\ main' = IF \A u \in Background \ {t} : bg[u] # "unborn"
                                THEN "work" ELSE "create"
                   /\ UNCHANGED <<running, active_threads, count>>

\* SIGINT or SIGTERM: handle_signal.
HandleSignal == /\ Alive
                /\ running' = FALSE
                /\ UNCHANGED <<active_threads, main, bg, count>>

\* main's own work is over; it tells the threads to terminate.
StopThreads == /\ main = "work"
               /\ running' = FALSE
               /\ main' = "check"
               /\ UNCHANGED <<active_threads, bg, count>>

\* The waiting loop of main, under count_mutex.
CheckCount == /\ main = "check"
              /\ main' = IF active_threads > 0 THEN "asleep" ELSE "exit"
              /\ UNCHANGED <<running, active_threads, bg, count>>

SpuriousWakeup == /\ main = "asleep" /\ main' = "check"
                  /\ UNCHANGED <<running, active_threads, bg, count>>

\* register_thread, called by the new thread itself.
Register(t) == /\ Alive /\ bg[t] = "register"
               /\ active_threads' = active_threads + 1
               /\ bg' = [bg EXCEPT ![t] = "test"]
               /\ UNCHANGED <<running, main, count>>

\* Mutant: a thread that is told to stop returns without unregistering.
TestRunningReturns(t) == /\ Alive /\ bg[t] = "test"
                         /\ bg' = [bg EXCEPT ![t] = IF ~running THEN "end"
                                                    ELSE IF count[t] < MaxWork THEN "sleep"
                                                    ELSE "unregister"]
                         /\ UNCHANGED <<running, active_threads, main, count>>

\* The condition of the work loop.
TestRunning(t) == /\ Alive /\ bg[t] = "test"
                  /\ bg' = [bg EXCEPT ![t] = IF running /\ count[t] < MaxWork
                                               THEN "sleep" ELSE "unregister"]
                  /\ UNCHANGED <<running, active_threads, main, count>>

\* The round ends, and the flag is looked at once more.
Work(t) == /\ Alive /\ bg[t] = "sleep"
           /\ count' = [count EXCEPT ![t] = @ + 1]
           /\ bg' = [bg EXCEPT ![t] = IF running THEN "test" ELSE "unregister"]
           /\ UNCHANGED <<running, active_threads, main>>

\* Mutant: the count is tested before it is decremented.
UnregisterTestsFirst(t) == /\ Alive /\ bg[t] = "unregister"
                           /\ active_threads' = active_threads - 1
                           /\ main' = IF active_threads = 0 /\ main = "asleep" THEN "check" ELSE main
                           /\ bg' = [bg EXCEPT ![t] = "end"]
                           /\ UNCHANGED <<running, count>>

\* unregister_thread: the last one signals count_cond.
Unregister(t) == /\ Alive /\ bg[t] = "unregister"
                 /\ active_threads' = active_threads - 1
                 /\ main' = IF active_threads' = 0 /\ main = "asleep" THEN "check" ELSE main
                 /\ bg' = [bg EXCEPT ![t] = "end"]
                 /\ UNCHANGED <<running, count>>

BgStep(t) == Register(t) \/ TestRunning(t) \/ Work(t) \/ Unregister(t)
MainStep == StopThreads \/ CheckCount \/ \E t \in Background : CreateThread(t)

Next == \/ MainStep \/ HandleSignal \/ SpuriousWakeup
        \/ \E t \in Background : BgStep(t)

\* Threads run and get the mutex in the end; signals may never come.
Spec == /\ Init /\ [][Next]_vars
        /\ WF_vars(MainStep) /\ \A t \in Background : WF_vars(BgStep(t))
-----------------------------------------------------------------------------
Registered(t) == bg[t] \in {"test", "sleep", "unregister"}

\* The count is the number of threads that registered and did not unregister,
\* so main cannot leave while a registered thread is at work.
CountIsExact == active_threads = Cardinality({t \in Background : Registered(t)})

\* main ends, whenever the signals and the wake-ups come.
MainEnds == <>(main = "exit")

\* What main prints when it leaves the wait: all background threads have
\* terminated.
AllTerminated == main = "exit" => \A t \in Background : bg[t] = "end"
=============================================================================
