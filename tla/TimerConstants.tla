--------------------------- MODULE TimerConstants ---------------------------
(* The parameters of TimerCallback and what is assumed of them.             *)
EXTENDS Integers

CONSTANTS MAX_TIMERS,  \* slots of timers[]
          NumTimers,   \* timers main creates; timer 1 stops itself
          StopAfter,   \* executions after which timer 1 stops (5 in the code)
          MaxThreads,  \* bound: callback threads over the whole run
          MaxFire      \* bound: expiries over the whole run

ASSUME TimerAssumption == /\ MAX_TIMERS \in Nat \ {0} /\ NumTimers \in Nat \ {0, 1}
                          /\ StopAfter \in Nat /\ MaxThreads \in Nat /\ MaxFire \in Nat
=============================================================================
