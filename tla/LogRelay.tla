------------------------------ MODULE LogRelay ------------------------------
(***************************************************************************)
(* The log relay of lesson_5/01_file_IO_relegating: worker threads send    *)
(* their log entries to a POSIX message queue, one I/O thread writes them  *)
(* to a file, and main ends it with the message "EXIT"                     *)
(* (01_multithreaded_relegated.c).                                         *)
(***************************************************************************)
EXTENDS Naturals, Sequences

CONSTANTS LogWorkers,       \* the worker threads (4 in the code)
          Entries,          \* messages of a worker (5)
          MQ_MAX_MESSAGES   \* capacity of the queue (10)

VARIABLES mq,        \* the messages in the queue, which outlives the program
          linked,    \* the queue's name exists
          io,        \* where the I/O thread is
          log_file,  \* what this program wrote to logs.txt
          logger,    \* where each worker is
          sent,      \* turns of its loop each worker has made
          lost,      \* entries whose mq_send failed
          boss       \* where main is

vars == <<mq, linked, io, log_file, logger, sent, lost, boss>>

EXIT == <<"EXIT", 0>>
\* What an earlier run may have left in the queue: an entry, and its EXIT if its
\* I/O thread had given up.
Old == <<"old", 0>>
OldExit == <<"EXIT", 1>>
Entry == LogWorkers \X (1 .. Entries)
Message == Entry \cup {EXIT, Old, OldExit}

TypeOK == /\ mq \in Seq(Message) /\ Len(mq) <= MQ_MAX_MESSAGES
          /\ linked \in BOOLEAN
          /\ io \in {"none", "open", "fopen", "receive", "end", "endEarly", "gaveUp"}
          /\ log_file \in Seq(Message \ {EXIT, OldExit})
          /\ logger \in [LogWorkers -> {"none", "open", "send", "end", "gaveUp"}]
          /\ sent \in [LogWorkers -> 0 .. Entries]
          /\ lost \subseteq Entry
          /\ boss \in {"mq_open", "create", "join", "exit", "tell", "joinIo", "joinUntold",
                       "done", "failed"}

\* A queue that an earlier run never unlinked is opened as it is.
Init == /\ mq \in {<<>>, <<Old>>, <<OldExit>>, <<Old, OldExit>>}
        /\ Len(mq) <= MQ_MAX_MESSAGES /\ linked = (mq # <<>>) /\ lost = {}
        /\ io = "none" /\ log_file = <<>> /\ boss = "mq_open"
        /\ logger = [w \in LogWorkers |-> "none"] /\ sent = [w \in LogWorkers |-> 0]

mq_send(m) == Len(mq) < MQ_MAX_MESSAGES /\ mq' = Append(mq, m)
-----------------------------------------------------------------------------
(* main *)

OpenQueue == /\ boss = "mq_open"
             /\ \/ boss' = "create" /\ linked' = TRUE
                \/ boss' = "failed" /\ UNCHANGED linked
             /\ UNCHANGED <<mq, io, log_file, logger, sent, lost>>

\* main creates the I/O thread first and then the workers.
CreateThreads == /\ boss = "create"
                 /\ \/ io = "none" /\ io' = "open" /\ UNCHANGED <<logger, boss>>
                    \/ /\ io # "none" /\ UNCHANGED io
                       /\ \E w \in LogWorkers :
                            /\ logger[w] = "none"
                            /\ logger' = [logger EXCEPT ![w] = "open"]
                            /\ boss' = IF \A u \in LogWorkers \ {w} : logger[u] # "none"
                                         THEN "join" ELSE "create"
                 /\ UNCHANGED <<mq, linked, log_file, sent, lost>>

\* Mutant: main joins one worker only.
JoinOneLogger == /\ boss = "join" /\ \E w \in LogWorkers : logger[w] \in {"end", "gaveUp"}
                 /\ boss' = "exit"
                 /\ UNCHANGED <<mq, linked, io, log_file, logger, sent, lost>>

JoinLoggers == /\ boss = "join" /\ \A w \in LogWorkers : logger[w] \in {"end", "gaveUp"}
               /\ boss' = "exit"
               /\ UNCHANGED <<mq, linked, io, log_file, logger, sent, lost>>

\* main opens the queue once more; a failure is not tested for, the send on
\* the bad descriptor fails and main joins an I/O thread that nobody told.
Reopen == /\ boss = "exit"
          /\ \/ linked /\ boss' = "tell"
             \/ boss' = "joinUntold"
          /\ UNCHANGED <<mq, linked, io, log_file, logger, sent, lost>>

SendExit == /\ boss = "tell" /\ mq_send(EXIT)
            /\ boss' = "joinIo"
            /\ UNCHANGED <<linked, io, log_file, logger, sent, lost>>

SendExitFails == /\ boss = "tell"
                 /\ boss' = "joinUntold"
                 /\ UNCHANGED <<mq, linked, io, log_file, logger, sent, lost>>

JoinIo == /\ boss \in {"joinIo", "joinUntold"} /\ io \in {"end", "endEarly", "gaveUp"}
          /\ boss' = "done"
          /\ UNCHANGED <<mq, linked, io, log_file, logger, sent, lost>>

BossStep == OpenQueue \/ CreateThreads \/ JoinLoggers \/ Reopen \/ SendExit \/ JoinIo
-----------------------------------------------------------------------------
(* io_thread_func and worker_thread_func *)

\* mq_open and fopen; each may fail, and the thread then returns.
OpenLog == /\ \/ io = "open" /\ io' \in {"fopen", "gaveUp"}
              \/ io = "fopen" /\ io' \in {"receive", "gaveUp"}
           /\ UNCHANGED <<mq, linked, log_file, logger, sent, lost, boss>>

\* Mutant: the message is not recognised, as with a newline in the word.
ReceiveKeepsExit == /\ io = "receive" /\ mq # <<>>
                    /\ mq' = Tail(mq)
                    /\ log_file' = Append(log_file, Head(mq))
                    /\ UNCHANGED <<io, linked, logger, sent, lost, boss>>

\* mq_receive, and the entry is written or the thread ends and unlinks the
\* queue; at the EXIT of an earlier run it ends before its time.
Receive == /\ io = "receive" /\ mq # <<>>
           /\ mq' = Tail(mq)
           /\ IF Head(mq) \in {EXIT, OldExit}
                THEN /\ io' = IF Head(mq) = EXIT THEN "end" ELSE "endEarly"
                     /\ linked' = FALSE /\ UNCHANGED log_file
                ELSE log_file' = Append(log_file, Head(mq)) /\ UNCHANGED <<io, linked>>
           /\ UNCHANGED <<logger, sent, lost, boss>>

IoStep == OpenLog \/ Receive

LoggerOpen(w) == /\ logger[w] = "open"
                 /\ \/ linked /\ logger' = [logger EXCEPT ![w] = "send"]
                    \/ logger' = [logger EXCEPT ![w] = "gaveUp"]
                 /\ UNCHANGED <<mq, linked, io, log_file, sent, lost, boss>>

\* After its turn a worker goes on to the next entry, whatever became of this.
NextEntry(w) == /\ sent' = [sent EXCEPT ![w] = @ + 1]
                /\ logger' = [logger EXCEPT ![w] = IF sent[w] + 1 = Entries
                                                     THEN "end" ELSE "send"]
                /\ UNCHANGED <<linked, io, log_file, boss>>

\* A message is sent as soon as the queue has room.
LoggerSend(w) == /\ logger[w] = "send" /\ mq_send(<<w, sent[w] + 1>>)
                 /\ NextEntry(w)
                 /\ UNCHANGED lost

\* mq_send fails: the entry is lost.
LoggerFails(w) == /\ logger[w] = "send"
                  /\ lost' = lost \cup {<<w, sent[w] + 1>>}
                  /\ NextEntry(w)
                  /\ UNCHANGED mq

LoggerStep(w) == LoggerOpen(w) \/ LoggerSend(w)

Next == BossStep \/ SendExitFails \/ IoStep
          \/ \E w \in LogWorkers : LoggerStep(w) \/ LoggerFails(w)

\* The threads run, and a blocked mq_send gets its turn when there is room; it
\* need not fail.
Spec == /\ Init /\ [][Next]_vars
        /\ WF_vars(BossStep) /\ WF_vars(IoStep)
        /\ \A w \in LogWorkers : SF_vars(LoggerStep(w))
-----------------------------------------------------------------------------
\* The entries of the workers in s are those that mq_send accepted, each once
\* and each worker's in the order in which it sent them.
AsSent(s) ==
    /\ \A w \in LogWorkers, k \in 1 .. Entries :
         k <= sent[w] /\ <<w, k>> \notin lost <=> \E j \in DOMAIN s : s[j] = <<w, k>>
    /\ \A j, k \in DOMAIN s :
         j < k /\ s[j][1] = s[k][1] /\ s[j][1] \in LogWorkers => s[j][2] < s[k][2]

\* Every entry that mq_send accepted is in the file or still in the queue,
\* each worker's in order.  When main says that logging is complete the queue
\* is empty and every worker that could open it has been through its loop,
\* unless the I/O thread gave up or was ended by the EXIT of an earlier run.
AllLogged ==
    /\ AsSent(log_file \o mq)
    /\ boss = "done" /\ io = "end" =>
         mq = <<>> /\ \A w \in LogWorkers : logger[w] = "gaveUp" \/ sent[w] = Entries

\* The program ends unless the I/O thread gave up, was ended by an old EXIT or
\* could not be told: a full queue with workers waiting for room empties
\* again, and the I/O thread stops at EXIT.
RelayEnds == <>(\/ boss \in {"done", "failed", "joinUntold"}
                \/ io \in {"gaveUp", "endEarly"})
=============================================================================
