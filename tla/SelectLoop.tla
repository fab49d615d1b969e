------------------------------ MODULE SelectLoop ------------------------------
(***************************************************************************)
(* The select loop of lesson_4/03_poll-vs-select: wait at most five        *)
(* seconds for stdin or a file, read what is readable, until SIGINT clears *)
(* keep_running (poll-vs-select.c). Contents are numbers of reads.         *)
(***************************************************************************)
EXTENDS Naturals

CONSTANTS FileReads,   \* reads that the file is good for
          MaxInput     \* bound: lines that arrive on stdin

VARIABLES sel,          \* where main is
          keep_running, eof_reached,
          readfds,      \* what select reported
          file_left,    \* reads left in the file
          input,        \* lines on stdin: waiting, arrived so far
          stdin_eof

vars == <<sel, keep_running, eof_reached, readfds, file_left, input, stdin_eof>>

TypeOK == /\ sel \in {"start", "open", "test", "select", "stdin", "file", "close", "exit",
                      "failed", "killed"}
          /\ keep_running \in BOOLEAN /\ eof_reached \in BOOLEAN /\ stdin_eof \in BOOLEAN
          /\ readfds \subseteq {"stdin", "file"}
          /\ file_left \in 0 .. FileReads
          /\ input \in [waiting : 0 .. MaxInput, seen : 0 .. MaxInput]

Init == /\ sel = "start" /\ keep_running = TRUE /\ eof_reached = FALSE
        /\ readfds = {} /\ file_left \in 0 .. FileReads
        /\ input = [waiting |-> 0, seen |-> 0] /\ stdin_eof = FALSE

Ended == sel \in {"exit", "failed", "killed"}
env == <<input, stdin_eof>>
-----------------------------------------------------------------------------
\* SIGINT: it kills the program before signal() was called, and wakes a select
\* that is asleep; a select that is yet to be called does not notice it.
handle_sigint == /\ ~Ended
                 /\ keep_running' = FALSE
                 /\ sel' \in CASE sel = "start" -> {"killed"}
                               [] sel = "select" -> {"select", "close"}
                               [] OTHER -> {sel}
                 /\ UNCHANGED <<eof_reached, readfds, file_left, env>>

\* The user types a line, or the input ends.
Input == /\ ~Ended /\ ~stdin_eof
         /\ \/ /\ input.seen < MaxInput
               /\ input' = [waiting |-> input.waiting + 1, seen |-> input.seen + 1]
               /\ UNCHANGED stdin_eof
            \/ stdin_eof' = TRUE /\ UNCHANGED input
         /\ UNCHANGED <<sel, keep_running, eof_reached, readfds, file_left>>

Open == /\ \/ sel = "start" /\ sel' = "open"                \* signal()
           \/ sel = "open" /\ sel' \in {"test", "failed"}   \* open()
        /\ UNCHANGED <<keep_running, eof_reached, readfds, file_left, env>>

TestFlag == /\ sel = "test" /\ sel' = IF keep_running THEN "select" ELSE "close"
            /\ UNCHANGED <<keep_running, eof_reached, readfds, file_left, env>>

\* A file is always readable, and is left out after its end was seen.
Readable == {f \in {"stdin", "file"} : IF f = "stdin" THEN input.waiting > 0 \/ stdin_eof
                                                      ELSE ~eof_reached}

\* Mutant: select without a timeout.
SelectBlocks == /\ sel = "select" /\ Readable # {}
                /\ readfds' = Readable /\ sel' = "stdin"
                /\ UNCHANGED <<keep_running, eof_reached, file_left, env>>

\* select reports what is readable, or after five seconds that nothing is.
Select == /\ sel = "select"
          /\ IF Readable # {} THEN readfds' = Readable /\ sel' = "stdin"
                              ELSE sel' = "test" /\ UNCHANGED readfds
          /\ UNCHANGED <<keep_running, eof_reached, file_left, env>>

SelectFails == /\ sel = "select" /\ sel' = "close"
               /\ UNCHANGED <<keep_running, eof_reached, readfds, file_left, env>>

\* A line, or end of input, or an error; the last two change nothing.
ReadStdin == /\ sel = "stdin" /\ sel' = "file"
             /\ \/ /\ "stdin" \in readfds /\ input.waiting > 0
                   /\ input' = [input EXCEPT !.waiting = @ - 1]
                \/ UNCHANGED input
             /\ UNCHANGED <<keep_running, eof_reached, readfds, file_left, stdin_eof>>

\* Some of the file, its end, or an error, after which it is tried again.
ReadFile == /\ sel = "file" /\ sel' = "test"
            /\ \/ /\ ~eof_reached /\ "file" \in readfds
                  /\ IF file_left > 0 THEN file_left' = file_left - 1 /\ UNCHANGED eof_reached
                                      ELSE eof_reached' = TRUE /\ UNCHANGED file_left
               \/ UNCHANGED <<eof_reached, file_left>>
            /\ UNCHANGED <<keep_running, readfds, env>>

Close == /\ sel = "close" /\ sel' = "exit"
         /\ UNCHANGED <<keep_running, eof_reached, readfds, file_left, env>>

LoopStep == Open \/ TestFlag \/ Select \/ ReadStdin \/ ReadFile \/ Close
Next == LoopStep \/ SelectFails \/ handle_sigint \/ Input

\* The program runs, and the timeout of select ends its sleep.
Spec == Init /\ [][Next]_vars /\ WF_vars(LoopStep)
-----------------------------------------------------------------------------
\* CTRL+C ends the program, also when it comes between the test of keep_running
\* and the call of select, with nothing left to read.
CtrlCEnds == ~keep_running ~> Ended
=============================================================================
