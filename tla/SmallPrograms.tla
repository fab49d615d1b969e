--------------------------- MODULE SmallPrograms ---------------------------
(***************************************************************************)
(* Seven of the smaller programs of the course, one behaviour of one of    *)
(* them at a time: program names it, and the state of the others stays as  *)
(* it is. They share nothing; they are together so that one run checks     *)
(* them all, each under its own fairness.                                  *)
(***************************************************************************)
EXTENDS DaemonThread, Sequences

CONSTANTS LogWorkers, Entries, MQ_MAX_MESSAGES, MaxLines,
          BufferSize, MaxTyped, FileReads, MaxInput

ASSUME RelayAssumption == /\ Entries \in Nat \ {0} /\ MQ_MAX_MESSAGES \in Nat \ {0}
                          /\ LogWorkers \cap {"EXIT", "old"} = {}
ASSUME FifoAssumption == MaxLines \in Nat /\ BufferSize \in Nat \ {0} /\ MaxTyped \in Nat
ASSUME SelectAssumption == FileReads \in Nat /\ MaxInput \in Nat

VARIABLES program,
          part, demo, pc, printed, owner, cancel, gone,
          mq, linked, io, log_file, logger, sent, lost, boss,
          control, child, flag, yielding, active_pid,
          made, readers, writers, at, line, pipe, received, echoes,
          rd, wr, fifo, rbuf, wbuf, typed,
          sel, keep_running, eof_reached, readfds, file_left, input, stdin_eof

Locks == INSTANCE DeadLock WITH main <- demo
Relay == INSTANCE LogRelay
Yield == INSTANCE ProcessYielding
Fifos == INSTANCE EpollFifos
Reader == INSTANCE FifoReader
Selecting == INSTANCE SelectLoop

lockVars == <<part, demo, pc, printed, owner, cancel, gone>>
relayVars == <<mq, linked, io, log_file, logger, sent, lost, boss>>
yieldVars == <<control, child, flag, yielding, active_pid>>
fifoVars == <<made, readers, writers, at, line, pipe, received, echoes>>
readVars == <<rd, wr, fifo, rbuf, wbuf, typed>>
selectVars == <<sel, keep_running, eof_reached, readfds, file_left, input, stdin_eof>>
allVars == <<program, vars, lockVars, relayVars, yieldVars, fifoVars, readVars, selectVars>>

AllInit == /\ program \in {"daemon", "locks", "relay", "yield", "fifos", "reader", "select"}
           /\ Init /\ Locks!Init /\ Relay!Init /\ Yield!Init /\ Fifos!Init
           /\ Reader!Init /\ Selecting!Init
           /\ program # "relay" => mq = <<>>
           /\ program # "fifos" => made = {}
           /\ program # "select" => file_left = 0

\* A step of one program.
Daemon(step) == /\ program = "daemon" /\ step
                /\ UNCHANGED <<program, lockVars, relayVars, yieldVars, fifoVars, readVars, selectVars>>
InLocks(step) == /\ program = "locks" /\ step
                 /\ UNCHANGED <<program, vars, relayVars, yieldVars, fifoVars, readVars, selectVars>>
InRelay(step) == /\ program = "relay" /\ step
                 /\ UNCHANGED <<program, vars, lockVars, yieldVars, fifoVars, readVars, selectVars>>
InYield(step) == /\ program = "yield" /\ step
                 /\ UNCHANGED <<program, vars, lockVars, relayVars, fifoVars, readVars, selectVars>>
InFifos(step) == /\ program = "fifos" /\ step
                 /\ UNCHANGED <<program, vars, lockVars, relayVars, yieldVars, readVars, selectVars>>
InReader(step) == /\ program = "reader" /\ step
                  /\ UNCHANGED <<program, vars, lockVars, relayVars, yieldVars, fifoVars, selectVars>>
InSelect(step) == /\ program = "select" /\ step
                  /\ UNCHANGED <<program, vars, lockVars, relayVars, yieldVars, fifoVars, readVars>>

AllNext == \/ Daemon(Next) \/ InLocks(Locks!Next) \/ InRelay(Relay!Next)
           \/ InYield(Yield!Next) \/ InFifos(Fifos!Next)
           \/ InReader(Reader!Next) \/ InSelect(Selecting!Next)

\* The fairness of each program's own specification.
AllSpec == /\ AllInit /\ [][AllNext]_allVars
           /\ WF_allVars(Daemon(MainStep))
           /\ \A t \in Background : WF_allVars(Daemon(BgStep(t)))
           /\ WF_allVars(InLocks(Locks!MainStep))
           /\ \A t \in Locks!Threads : WF_allVars(InLocks(Locks!ThreadStep(t)))
           /\ WF_allVars(InRelay(Relay!BossStep)) /\ WF_allVars(InRelay(Relay!IoStep))
           /\ \A w \in LogWorkers : SF_allVars(InRelay(Relay!LoggerStep(w)))
           /\ WF_allVars(InYield(Yield!ControlStep))
           /\ \A c \in Yield!Child : WF_allVars(InYield(Yield!ChildStep(c)))
           /\ WF_allVars(InFifos(Fifos!WriterStep)) /\ WF_allVars(InFifos(Fifos!ReceiverStep))
           /\ WF_allVars(InReader(Reader!ReaderStep)) /\ WF_allVars(InReader(Reader!WriterStep))
           /\ WF_allVars(InSelect(Selecting!LoopStep))
-----------------------------------------------------------------------------
\* The daemon threads: main ends, whenever the signals and the wake-ups come.
DaemonMainEnds == program = "daemon" ~> main = "exit"

\* Lock ordering and lock timeouts exclude the circular wait of part 1.
CycleOnlyInPart1 == Locks!CycleOnlyInPart1

\* Parts 2 and 3 end, whatever the scheduling.
OrderingAndTimeoutsEnd == Locks!OrderingAndTimeoutsEnd

\* Part 1 fails to end only by one of its two deadlocks: each thread waits for
\* the other, or for one that was cancelled with the mutex held.
Part1EndsOrDeadlocks == program = "locks" /\ part = 1
                          ~> part = 2 \/ Locks!CircularWait \/ Locks!OrphanedLock

\* Log relay: an entry that mq_send accepted is in the file or in the queue, once
\* and in its worker's order; when main says that logging is complete all are in
\* the file, unless the I/O thread gave up or met the EXIT of an earlier run.
AllLogged == Relay!AllLogged

\* Log relay: the program ends unless the I/O thread gave up, met the EXIT of an
\* earlier run or could not be told to stop.
RelayEnds == program = "relay" ~> \/ boss \in {"done", "failed", "joinUntold"}
                                  \/ io \in {"gaveUp", "endEarly"}

\* Yielding processes: no child works on for ever once the parent has ended or
\* been told to quit, unless SIGTERM hit the parent before its handler.
NoRunawayChild == Yield!NoRunawayChild

\* FIFOs: the blocking opens of the two processes meet, as long as neither has
\* ended.
OpensMeet == program = "fifos" /\ made = Fifos!Fifo
               ~> \/ \A p \in Fifos!Process : at[p][1] \notin {"open", "blocked"}
                  \/ \E p \in Fifos!Process : Fifos!Ended(p)

\* FIFOs: every line that was sent is logged, unless the receiver has ended or
\* never came to its loop.
LinesAreLogged == Fifos!LinesAreLogged

\* FIFO reader: the word stop ends the reading process too, unless it was read
\* joined to other text.
StopEndsReader == Reader!StopEndsReader

\* Select loop: CTRL+C ends it, wherever it is.
CtrlCEnds == Selecting!CtrlCEnds
=============================================================================
