------------------------------ MODULE CyclicTest ------------------------------
(***************************************************************************)
(* The latency test of lesson_8/07_cyclic_test: sleep until an absolute    *)
(* time one interval ahead, measure how late the wake-up was, keep         *)
(* statistics, until the iterations are over or a signal comes             *)
(* (07_cyclic_test.c). A time is a number of seconds and of fractions of   *)
(* which NS make a second.                                                 *)
(***************************************************************************)
EXTENDS Integers

CONSTANTS NS,           \* nanoseconds in a second (1000000000 in the code)
          INTERVAL,     \* the interval in nanoseconds (1000000)
          ITERATIONS,
          MinStart,     \* min_latency before the first sample (9999999)
          LongHalf,     \* 2^31 on the 32-bit board: a long is below it
          Lateness,     \* how late a wake-up may be
          StartTimes    \* fractions of the second at which the test starts

VARIABLES at,           \* where main is
          i, keep_running,
          t_start, t_target,
          min_latency, max_latency, total_latency,
          first,        \* history: t_start before the loop
          samples       \* history: how late the wake-ups really were

vars == <<at, i, keep_running, t_start, t_target, min_latency, max_latency, total_latency,
          first, samples>>

Time(n) == [tv_sec |-> n \div NS, tv_nsec |-> n % NS]   \* what the clock shows
Nanos(t) == t.tv_sec * NS + t.tv_nsec
Times == [tv_sec : Nat, tv_nsec : 0 .. NS - 1]

TypeOK == /\ at \in {"setup", "settle", "loop", "sleep", "report", "done", "failed", "crashed"}
          /\ i \in 0 .. ITERATIONS /\ keep_running \in BOOLEAN
          /\ t_start \in Times /\ t_target \in Times /\ first \in Times
          /\ {min_latency, max_latency, total_latency} \subseteq Int
          /\ samples \subseteq Lateness

Init == /\ at = "setup" /\ i = 0 /\ keep_running = TRUE
        /\ t_start = Time(0) /\ t_target = Time(0) /\ first = Time(0)
        /\ min_latency = MinStart /\ max_latency = 0 /\ total_latency = 0
        /\ samples = {}

stats == <<min_latency, max_latency, total_latency, first, samples>>
-----------------------------------------------------------------------------
\* setup_rt_task; without the rights for SCHED_FIFO or mlockall it gives up.
setup_rt_task == /\ at = "setup" /\ at' \in {"settle", "failed"}
                 /\ UNCHANGED <<i, keep_running, t_start, t_target, stats>>

\* SIGINT or SIGTERM; before setup_rt_task is through it kills the program.
signal_handler == /\ at \notin {"failed", "crashed", "done"}
                  /\ at' = IF at = "setup" THEN "failed" ELSE at
                  /\ keep_running' = FALSE
                  /\ UNCHANGED <<i, t_start, t_target, stats>>

\* After the pause the clock is read for the first time.
Settle == /\ at = "settle" /\ at' = "loop"
          /\ \E n \in StartTimes : t_start' = Time(n) /\ first' = Time(n)
          /\ UNCHANGED <<i, keep_running, t_target, min_latency, max_latency, total_latency, samples>>

\* Mutant: the carry is not added to the seconds.
NextTargetNoCarry(t) ==
    LET nsec == t.tv_nsec + INTERVAL
    IN [tv_sec |-> t.tv_sec, tv_nsec |-> IF nsec >= NS THEN nsec - NS ELSE nsec]

NextTarget(t) ==
    LET nsec == t.tv_nsec + INTERVAL
    IN IF nsec >= NS THEN [tv_sec |-> t.tv_sec + 1, tv_nsec |-> nsec - NS]
                     ELSE [tv_sec |-> t.tv_sec, tv_nsec |-> nsec]

LoopTest == /\ at = "loop"
            /\ IF i < ITERATIONS /\ keep_running
                 THEN at' = "sleep" /\ t_target' = NextTarget(t_start)
                 ELSE at' = "report" /\ UNCHANGED t_target
            /\ UNCHANGED <<i, keep_running, t_start, stats>>

\* clock_nanosleep fails, or a signal interrupts it: the loop is left.
SleepFails == /\ at = "sleep" /\ at' = "report"
              /\ UNCHANGED <<i, keep_running, t_start, t_target, stats>>

Later(m, n) == IF m > n THEN m ELSE n

\* The difference of two times, in a long.
Wrap(x) == ((x + LongHalf) % (2 * LongHalf)) - LongHalf
Difference(a, b) == Wrap((a.tv_sec - b.tv_sec) * NS + (a.tv_nsec - b.tv_nsec))

\* The thread wakes up late nanoseconds after t_target, or at once if that
\* time is over already; t_actual becomes the new t_start.
WakeUp(late) ==
    LET t_actual == Time(Later(Nanos(t_target), Nanos(t_start)) + late)
        latency == Difference(t_actual, t_target)
    IN /\ at = "sleep" /\ at' = "loop"
       /\ min_latency' = IF latency < min_latency THEN latency ELSE min_latency
       /\ max_latency' = IF latency > max_latency THEN latency ELSE max_latency
       /\ total_latency' = total_latency + latency
       /\ t_start' = t_actual /\ i' = i + 1
       /\ samples' = samples \cup {late}
       /\ UNCHANGED <<keep_running, t_target, first>>

\* The average divides by i: without a sample that is a division by zero.
Report == /\ at = "report" /\ at' = IF i = 0 THEN "crashed" ELSE "done"
          /\ UNCHANGED <<i, keep_running, t_start, t_target, stats>>

Next == \/ setup_rt_task \/ signal_handler \/ Settle \/ LoopTest \/ SleepFails \/ Report
        \/ \E late \in Lateness : WakeUp(late)

Spec == Init /\ [][Next]_vars
-----------------------------------------------------------------------------
\* What is printed is true unless a wake-up was more than a long can hold too
\* late: the average lies between minimum and maximum, the maximum is the worst
\* lateness, the minimum the best or MinStart, and intervals and latencies
\* add up to the time that has gone by. The division fails only when the loop
\* was left before the first wake-up.
StatisticsAreTrue ==
    /\ at = "crashed" => samples = {}
    /\ at = "done" /\ (\A s \in samples : s < LongHalf) =>
         /\ min_latency <= total_latency \div i /\ total_latency \div i <= max_latency
         /\ max_latency \in samples /\ min_latency \in samples \cup {MinStart}
         /\ \A s \in samples : min_latency <= s /\ s <= max_latency
         /\ Nanos(t_start) - Nanos(first) = i * INTERVAL + total_latency
=============================================================================
