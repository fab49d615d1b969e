--------------------------- MODULE AffinityAdvance ---------------------------
(***************************************************************************)
(* The CPU affinity benchmark of lesson_8/06_affinity_advance: one worker  *)
(* per CPU and kind of work reports into arrays of MAX_CPUS entries in     *)
(* shared memory, main lets them run for test_duration seconds, clears     *)
(* test_running, joins them and prints the results                         *)
(* (06_affinity_advance.c).                                                *)
(***************************************************************************)
EXTENDS Integers

CONSTANTS MAX_CPUS,       \* entries of the result arrays (8 in the code)
          online_cpus,    \* sysconf(_SC_NPROCESSORS_ONLN)
          iterations,     \* operations of a worker at most (1000000)
          Period,         \* operations between two reports (10)
          test_duration   \* seconds

ASSUME AffinityAssumption ==
    /\ MAX_CPUS \in Nat \ {0} /\ online_cpus \in Nat \ {0}
    /\ iterations \in Nat /\ Period \in Nat \ {0} /\ test_duration \in Nat

num_cpus == IF online_cpus > MAX_CPUS THEN MAX_CPUS ELSE online_cpus
num_workers == num_cpus * 3
Workers == 0 .. num_workers - 1

\* params[w].
cpu_id(w) == w % num_cpus
work_type(w) == (w \div num_cpus) % 3

\* shared_data_t in words of four bytes: the arrays lie one after the other,
\* and an index that is too large names a word of a later field.
total_ops(w) == {2 * w, 2 * w + 1}
elapsed_time(w) == {2 * MAX_CPUS + 2 * w, 2 * MAX_CPUS + 2 * w + 1}
cpu_temp(w) == {4 * MAX_CPUS + w}
cache_misses(w) == {5 * MAX_CPUS + w}
active_workers == 6 * MAX_CPUS
test_running == 6 * MAX_CPUS + 1
Words == 0 .. test_running

VARIABLES shared,    \* for every word what was stored last, or "zero"
          running,   \* the flag that the signal handler clears
          main, i,   \* where main is, and the index of its loop
          worker,    \* where each worker is
          ops_count,
          atStop     \* the operations done when main stopped the test

vars == <<shared, running, main, i, worker, ops_count, atStop>>

TypeOK == /\ shared \in [Words -> {"zero", "one", "number"} \X (Workers \cup {-1}) \X (0 .. iterations)]
          /\ running \in BOOLEAN
          /\ main \in {"create", "monitor", "join", "display", "done", "failed", "crashed"}
          /\ i \in 0 .. num_workers + test_duration
          /\ worker \in [Workers -> {"none", "start", "test", "work", "ops", "time", "temp",
                                     "misses", "finalOps", "finalTime", "end", "failed"}]
          /\ ops_count \in [Workers -> 0 .. iterations]
          /\ atStop \in [Workers -> 0 .. iterations]

Zero == <<"zero", -1, 0>>
One == <<"one", -1, 0>>
Number(w, n) == <<"number", w, n>>   \* a value that is not zero

Init == /\ shared = [a \in Words |-> CASE a = test_running -> One
                                       [] a = active_workers -> Number(-1, 0)
                                       [] OTHER -> Zero]
        /\ running = TRUE /\ main = "create" /\ i = 0
        /\ worker = [w \in Workers |-> "none"]
        /\ ops_count = [w \in Workers |-> 0] /\ atStop = [w \in Workers |-> 0]

Alive == main \notin {"done", "failed", "crashed"}
Store(words, v) == shared' = [a \in Words |-> IF a \in words THEN v ELSE shared[a]]
-----------------------------------------------------------------------------
(* main *)

\* -h, no CPU found, or mmap or one of the mallocs failed.
SetupFails == /\ main = "create" /\ i = 0
              /\ main' = "failed"
              /\ UNCHANGED <<shared, running, i, worker, ops_count, atStop>>

\* pthread_create for worker i, or its failure.
CreateWorker == /\ main = "create"
                /\ \/ worker' = [worker EXCEPT ![i] = "start"] /\ UNCHANGED shared
                   \/ UNCHANGED worker /\ Store({active_workers}, Number(-1, 0))
                /\ IF i + 1 < num_workers THEN i' = i + 1 /\ UNCHANGED main
                                          ELSE i' = 0 /\ main' = "monitor"
                /\ UNCHANGED <<running, ops_count, atStop>>

\* A second of the progress loop.
Monitor == /\ main = "monitor" /\ i < test_duration /\ running
           /\ i' = i + 1
           /\ UNCHANGED <<shared, running, main, worker, ops_count, atStop>>

StopTest == /\ main = "monitor" /\ ~(i < test_duration /\ running)
            /\ Store({test_running}, Zero)
            /\ atStop' = ops_count
            /\ main' = "join" /\ i' = 0
            /\ UNCHANGED <<running, worker, ops_count>>

JoinNext == IF i + 1 < num_workers THEN i' = i + 1 /\ UNCHANGED main
                                   ELSE i' = 0 /\ main' = "display"

JoinWorker == /\ main = "join" /\ worker[i] \in {"end", "failed"}
              /\ JoinNext
              /\ UNCHANGED <<shared, running, worker, ops_count, atStop>>

\* threads[i] was never set because pthread_create failed: pthread_join of an
\* uninitialised id returns an error or crashes.
JoinGarbage == /\ main = "join" /\ worker[i] = "none"
               /\ \/ JoinNext
                  \/ main' = "crashed" /\ UNCHANGED i
               /\ UNCHANGED <<shared, running, worker, ops_count, atStop>>

\* display_test_results, free and munmap.
Display == /\ main = "display" /\ main' = "done"
           /\ UNCHANGED <<shared, running, i, worker, ops_count, atStop>>

\* SIGINT or SIGTERM.
handle_signal == /\ Alive /\ running' = FALSE
                 /\ UNCHANGED <<shared, main, i, worker, ops_count, atStop>>

MainStep == CreateWorker \/ Monitor \/ StopTest \/ JoinWorker \/ JoinGarbage \/ Display
-----------------------------------------------------------------------------
(* worker_function *)
Go(w, from, to) == Alive /\ worker[w] = from /\ worker' = [worker EXCEPT ![w] = to]

\* The buffer is allocated where the kind of work needs one, and the thread
\* is bound to its CPU; any of these may fail.
Start(w) == /\ Go(w, "start", "test") \/ Go(w, "start", "failed")
            /\ UNCHANGED <<shared, running, main, i, ops_count, atStop>>

\* Mutant: only the signal flag is tested.
TestFlagOnly(w) == /\ Go(w, "test", IF running /\ ops_count[w] < iterations
                                      THEN "work" ELSE "finalOps")
                   /\ UNCHANGED <<shared, running, main, i, ops_count, atStop>>

\* The condition of the work loop.
Test(w) == /\ Go(w, "test", IF /\ running /\ shared[test_running] # Zero
                               /\ ops_count[w] < iterations
                              THEN "work" ELSE "finalOps")
           /\ UNCHANGED <<shared, running, main, i, ops_count, atStop>>

Work(w) == /\ Go(w, "work", IF (ops_count[w] + 1) % Period = 0 THEN "ops" ELSE "test")
           /\ ops_count' = [ops_count EXCEPT ![w] = @ + 1]
           /\ UNCHANGED <<shared, running, main, i, atStop>>

\* What a measurement may store; some may be zero.
Values(w, mayBeZero) == {Number(w, 0)} \cup IF mayBeZero THEN {Zero} ELSE {}

\* The four stores of the periodic report. Only a CPU-bound worker may count
\* no cache miss at all.
Report(w) == /\ \/ Go(w, "ops", "time") /\ Store(total_ops(w), Number(w, ops_count[w]))
                \/ Go(w, "time", "temp") /\ Store(elapsed_time(w), Number(w, 0))
                \/ Go(w, "temp", "misses") /\ Store(cpu_temp(w), Number(w, 0))
                \/ /\ Go(w, "misses", "test")
                   /\ \E v \in Values(w, work_type(w) = 0) : Store(cache_misses(w), v)
             /\ UNCHANGED <<running, main, i, ops_count, atStop>>

\* The final statistics. Before a clock tick the elapsed time may be zero.
Final(w) == /\ \/ Go(w, "finalOps", "finalTime")
                  /\ Store(total_ops(w), Number(w, ops_count[w]))
               \/ Go(w, "finalTime", "end")
                  /\ \E v \in Values(w, ops_count[w] = 0) : Store(elapsed_time(w), v)
            /\ UNCHANGED <<running, main, i, ops_count, atStop>>

WorkerStep(w) == Start(w) \/ Test(w) \/ Work(w) \/ Report(w) \/ Final(w)

Next == MainStep \/ SetupFails \/ handle_signal \/ \E w \in Workers : WorkerStep(w)

Spec == Init /\ [][Next]_vars
-----------------------------------------------------------------------------
Stopped == main \in {"join", "display", "done"}

\* Once main has cleared test_running the test is over: no store of a worker
\* sets it again.
StopIsFinal == Stopped => shared[test_running] = Zero

\* After main has stopped the test no worker does more than the operation it
\* was in, so that main's joins return after one operation of each.
StopsPromptly == Stopped => \A w \in Workers : ops_count[w] <= atStop[w] + 1
=============================================================================
