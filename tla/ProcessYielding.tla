--------------------------- MODULE ProcessYielding ---------------------------
(***************************************************************************)
(* The yielding demonstration of lesson_8/03_process_yielding: the parent  *)
(* forks two working processes and becomes the control process, which      *)
(* tells them with SIGTERM to end and waits for them                       *)
(* (03_process_yielding.c). Every process has its own running flag, and a  *)
(* signal kills it until it has installed handle_signal, for SIGINT first  *)
(* and then for SIGTERM.                                                   *)
(***************************************************************************)
EXTENDS Naturals

Child == {"A", "B"}

VARIABLES control,   \* where the parent is
          child,     \* where each child is
          flag,      \* running, in each process
          yielding, active_pid

vars == <<control, child, flag, yielding, active_pid>>

Ended == {"end", "killed"}

TypeOK == /\ control \in {"forkA", "forkB", "sigint", "sigterm", "loop", "killA", "killB",
                          "waitA", "waitB", "done", "failed", "killed", "terminated"}
          /\ child \in [Child -> {"unborn", "sigint", "sigterm", "test", "work"} \cup Ended]
          /\ flag \in [Child \cup {"control"} -> BOOLEAN]
          /\ yielding \in BOOLEAN
          /\ active_pid \in Child \cup {"none"}

Init == /\ control = "forkA" /\ child = [c \in Child |-> "unborn"]
        /\ flag = [p \in Child \cup {"control"} |-> TRUE]
        /\ yielding = FALSE /\ active_pid = "none"

Alive(c) == child[c] \notin {"unborn"} \cup Ended

\* The signals that would still kill a process at this point.
Deadly(at) == CASE at \in {"forkA", "forkB", "sigint"} -> {"SIGINT", "SIGTERM"}
                [] at = "sigterm" -> {"SIGTERM"}
                [] OTHER -> {}

\* A signal to a set of processes: the handler clears the flag, or the signal
\* kills a process that has not installed it.
Killed(c, sig) == sig \in Deadly(child[c])
Signal(S, sig) ==
    /\ child' = [c \in Child |-> IF c \in S /\ Killed(c, sig) THEN "killed" ELSE child[c]]
    /\ flag' = [p \in Child \cup {"control"} |->
                  flag[p] /\ ~(p \in S /\ (p \in Child => Alive(p)))]
-----------------------------------------------------------------------------
(* main *)

\* fork; when the second one fails the first child is told to end and the
\* parent exits without waiting for it.
ForkA == /\ control = "forkA"
         /\ \/ control' = "failed" /\ UNCHANGED child
            \/ control' = "forkB" /\ child' = [child EXCEPT !["A"] = "sigint"]
         /\ UNCHANGED <<flag, yielding, active_pid>>

ForkB == /\ control = "forkB"
         /\ \/ control' = "failed" /\ Signal({"A"}, "SIGTERM")
            \/ /\ control' = "sigint" /\ child' = [child EXCEPT !["B"] = "sigint"]
               /\ UNCHANGED flag
         /\ UNCHANGED <<yielding, active_pid>>

Install == /\ \/ control = "sigint" /\ control' = "sigterm"
              \/ control = "sigterm" /\ control' = "loop"
           /\ UNCHANGED <<child, flag, yielding, active_pid>>

\* A key: y toggles the yielding, q quits, others change nothing.
Key == /\ control = "loop" /\ flag["control"]
       /\ \/ yielding' = ~yielding /\ UNCHANGED flag
          \/ flag' = [flag EXCEPT !["control"] = FALSE] /\ UNCHANGED yielding
       /\ UNCHANGED <<control, child, active_pid>>

LeaveLoop == /\ control = "loop" /\ ~flag["control"]
             /\ control' = "killA"
             /\ UNCHANGED <<child, flag, yielding, active_pid>>

Kill == /\ \/ control = "killA" /\ Signal({"A"}, "SIGTERM") /\ control' = "killB"
           \/ control = "killB" /\ Signal({"B"}, "SIGTERM") /\ control' = "waitA"
        /\ UNCHANGED <<yielding, active_pid>>

\* waitpid for one child and then for the other.
Wait == /\ \/ control = "waitA" /\ child["A"] \in Ended /\ control' = "waitB"
           \/ control = "waitB" /\ child["B"] \in Ended /\ control' = "done"
        /\ UNCHANGED <<child, flag, yielding, active_pid>>

ControlStep == ForkA \/ ForkB \/ Install \/ LeaveLoop \/ Kill \/ Wait
-----------------------------------------------------------------------------
(* process_a and process_b *)

Installed == [at \in {"sigint", "sigterm"} |-> IF at = "sigint" THEN "sigterm" ELSE "test"]

\* Mutant: the flag is set after the handlers are installed.
StartSetsFlag(c) == /\ child[c] \in {"sigint", "sigterm"}
                    /\ child' = [child EXCEPT ![c] = Installed[@]]
                    /\ flag' = [flag EXCEPT ![c] = TRUE]
                    /\ UNCHANGED <<control, yielding, active_pid>>

\* The two calls of signal.
Start(c) == /\ child[c] \in {"sigint", "sigterm"}
            /\ child' = [child EXCEPT ![c] = Installed[@]]
            /\ UNCHANGED <<control, flag, yielding, active_pid>>

\* The loop condition; a process at work names itself in active_pid.
TestFlag(c) == /\ child[c] = "test"
               /\ child' = [child EXCEPT ![c] = IF flag[c] THEN "work" ELSE "end"]
               /\ active_pid' = IF flag[c] THEN c ELSE active_pid
               /\ UNCHANGED <<control, flag, yielding>>

\* A cycle of work, of whichever length, and the short sleep.
WorkCycle(c) == /\ child[c] = "work"
                /\ child' = [child EXCEPT ![c] = "test"]
                /\ UNCHANGED <<control, flag, yielding, active_pid>>

ChildStep(c) == Start(c) \/ TestFlag(c) \/ WorkCycle(c)
-----------------------------------------------------------------------------
(* Signals from outside *)

ParentRuns == control \notin {"done", "failed", "killed", "terminated"}

\* Ctrl-C: SIGINT to every process of the terminal.
CtrlC == /\ ParentRuns
         /\ Signal(Child \cup {"control"}, "SIGINT")
         /\ control' = IF "SIGINT" \in Deadly(control) THEN "killed" ELSE control
         /\ UNCHANGED <<yielding, active_pid>>

\* SIGTERM to the parent alone.
Terminate == /\ ParentRuns
             /\ Signal({"control"}, "SIGTERM")
             /\ control' = IF "SIGTERM" \in Deadly(control) THEN "terminated" ELSE control
             /\ UNCHANGED <<yielding, active_pid>>

Next == \/ ControlStep \/ Key \/ CtrlC \/ Terminate
        \/ \E c \in Child : ChildStep(c)

\* Processes keep running; keys and signals may never come.
Spec == /\ Init /\ [][Next]_vars
        /\ WF_vars(ControlStep) /\ \A c \in Child : WF_vars(ChildStep(c))
-----------------------------------------------------------------------------
\* The parent has ended, or has been told to quit.
Quitting == \/ control \in {"done", "failed", "killed"}
            \/ ParentRuns /\ ~flag["control"]

\* Whenever the parent ends, for whatever reason, or has been told to quit, no
\* child works on for ever: no signal falls into the gap between the test of
\* the flag and the work, or between fork and handler. The exception is a
\* SIGTERM that kills the parent before it has installed its own handler.
NoRunawayChild == Quitting ~> ~\E c \in Child : Alive(c)
=============================================================================
