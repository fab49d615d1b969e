----------------------------- MODULE EpollFifos -----------------------------
(***************************************************************************)
(* The writer and the receiver of lesson_5/03_epoll_multi_buffer_fds: the  *)
(* writer (child) sends every line to two FIFOs and waits for a response,  *)
(* the receiver (parent) logs what arrives and echoes it on two response   *)
(* FIFOs (epoll_multi_buffer_fds.c). The text is abstracted: a message is  *)
(* its number and a response only counts. A FIFO never runs full.          *)
(***************************************************************************)
EXTENDS Naturals, Sequences

CONSTANT MaxLines    \* lines the user types at most

Data == {"fifo1", "fifo2"}
Resp(f) == IF f = "fifo1" THEN "fifo1_resp" ELSE "fifo2_resp"
Fifo == Data \cup {"fifo1_resp", "fifo2_resp"}
Process == {"writer", "receiver"}
Peer(p) == IF p = "writer" THEN "receiver" ELSE "writer"

VARIABLES made,       \* the FIFOs that exist
          readers,    \* FIFOs whose read end is open
          writers,    \* FIFOs whose write end is open, or being opened
          at,         \* where each process is: <<place, number of an open>>
          line,       \* lines the user has typed
          pipe,       \* the messages in fifo1 and fifo2
          received,   \* the messages of each that the receiver logged
          echoes      \* the responses in fifo1_resp and fifo2_resp

vars == <<made, readers, writers, at, line, pipe, received, echoes>>
ends == <<made, readers, writers>>

TypeOK == /\ made \subseteq Fifo /\ readers \subseteq made /\ writers \subseteq made
          /\ at \in [Process -> {"open", "blocked", "setup", "prompt", "fifo1", "fifo2", "poll",
                                 "wait", "end", "killed"} \X (0 .. 4)]
          /\ line \in 0 .. MaxLines
          /\ pipe \in [Data -> Seq(1 .. MaxLines)]
          /\ received \in [Data -> Seq(1 .. MaxLines)]
          /\ echoes \in [Data -> 0 .. MaxLines]

\* create_fifos leaves the FIFOs of an earlier run as they are and stops at the
\* first mkfifo that fails; main does not look at its result.
Init == /\ made \in SUBSET Fifo
        /\ readers = {} /\ writers = {}
        /\ at = [p \in Process |-> <<"open", 1>>]
        /\ line = 0 /\ pipe = [f \in Data |-> <<>>]
        /\ received = [f \in Data |-> <<>>] /\ echoes = [f \in Data |-> 0]
-----------------------------------------------------------------------------
(* Opening the FIFOs *)

Write(f) == <<"write", f>>
Read(f) == <<"read", f>>
WriterOpens == <<Write("fifo1"), Write("fifo2"), Read("fifo1_resp"), Read("fifo2_resp")>>

\* Mutant: the receiver opens the FIFOs it writes to first.
ReceiverOpensResponses ==
    <<Write("fifo1_resp"), Write("fifo2_resp"), Read("fifo1"), Read("fifo2")>>

ReceiverOpens == <<Read("fifo1"), Read("fifo2"), Write("fifo1_resp"), Write("fifo2_resp")>>

Opens(p) == IF p = "writer" THEN WriterOpens ELSE ReceiverOpens

\* Where a process goes after its n-th open: the results are tested two by
\* two, so that a process leaves only after the second open of a pair.
Opened(p, n) == IF n \in {2, 4} /\ ~({Opens(p)[n - 1][2], Opens(p)[n][2]} \subseteq made)
                  THEN <<"setup", 0>>
                ELSE IF n = 4 THEN <<"setup", 4>> ELSE <<"open", n + 1>>

BlockedOn(p, f) == at[p][1] = "blocked" /\ Opens(p)[at[p][2]][2] = f

\* open. Reading is opened with O_NONBLOCK and releases a peer that waits to
\* write; writing waits until somebody has opened the FIFO for reading.
Open(p) ==
    LET n == at[p][2]
        f == Opens(p)[n][2]
    IN /\ at[p][1] = "open"
       /\ \/ /\ f \notin made
             /\ at' = [at EXCEPT ![p] = Opened(p, n)]
             /\ UNCHANGED ends
          \/ /\ f \in made /\ Opens(p)[n] = Read(f)
             /\ readers' = readers \cup {f}
             /\ at' = [at EXCEPT ![p] = Opened(p, n),
                                 ![Peer(p)] = IF BlockedOn(Peer(p), f)
                                                THEN Opened(Peer(p), @[2]) ELSE @]
             /\ UNCHANGED <<made, writers>>
          \/ /\ f \in made /\ Opens(p)[n] = Write(f)
             /\ writers' = writers \cup {f}
             /\ at' = [at EXCEPT ![p] = IF f \in readers THEN Opened(p, n) ELSE <<"blocked", n>>]
             /\ UNCHANGED <<made, readers>>
       /\ UNCHANGED <<line, pipe, received, echoes>>

\* A process ends or is killed by SIGPIPE, and its descriptors are closed.
Leave(p, how) ==
    /\ at' = [at EXCEPT ![p] = <<how, 0>>]
    /\ readers' = {f \in readers : \A n \in 1 .. 4 : Opens(p)[n] # Read(f)}
    /\ writers' = {f \in writers : \A n \in 1 .. 4 : Opens(p)[n] # Write(f)}
    /\ UNCHANGED made

\* The epoll instance and, in the receiver, the log file; any may fail.
Setup(p) == /\ at[p][1] = "setup"
            /\ \/ /\ at[p][2] = 4
                  /\ at' = [at EXCEPT ![p] = <<IF p = "writer" THEN "prompt" ELSE "wait", 0>>]
                  /\ UNCHANGED ends
               \/ Leave(p, "end")
            /\ UNCHANGED <<line, pipe, received, echoes>>
-----------------------------------------------------------------------------
(* The writer *)
Go(p, place) == at' = [at EXCEPT ![p] = <<place, 0>>]

\* The user types a line; or "exit" or the end of the input.
Prompt == /\ at["writer"][1] = "prompt"
          /\ \/ line < MaxLines /\ line' = line + 1 /\ Go("writer", "fifo1") /\ UNCHANGED ends
             \/ Leave("writer", "end") /\ UNCHANGED line
          /\ UNCHANGED <<pipe, received, echoes>>

\* Where the writer goes after a writev with n failures so far for this line:
\* the other FIFO is written all the same, but nobody waits for a response.
Sent(f, n) == at' = [at EXCEPT !["writer"] = IF f = "fifo1" THEN <<"fifo2", n>>
                                             ELSE <<IF n = 0 THEN "poll" ELSE "prompt", 0>>]

\* writev to a FIFO, and then to the other one: SIGPIPE without a reader, or
\* the line is in the FIFO, or writev fails otherwise.
Send(f) == /\ at["writer"][1] = f
           /\ \/ /\ f \in readers
                 /\ pipe' = [pipe EXCEPT ![f] = Append(@, line)]
                 /\ Sent(f, at["writer"][2])
                 /\ UNCHANGED ends
              \/ f \notin readers /\ Leave("writer", "killed") /\ UNCHANGED pipe
              \/ Sent(f, 1) /\ UNCHANGED <<pipe, ends>>
           /\ UNCHANGED <<line, received, echoes>>

\* epoll_wait, and one readv for every response FIFO with something in it. It
\* takes one or several responses. Nothing within 5 seconds: the next prompt.
Poll == /\ at["writer"][1] = "poll"
        /\ \E left \in [Data -> 0 .. MaxLines] :
             /\ \A f \in Data : left[f] < echoes[f] \/ left[f] + echoes[f] = 0
             /\ echoes' = left
        /\ Go("writer", "prompt")
        /\ UNCHANGED <<ends, line, pipe, received>>

\* epoll_wait fails: the process leaves its loop.
EpollFails(p) == /\ at[p][1] \in {"poll", "wait"}
                 /\ Leave(p, "end")
                 /\ UNCHANGED <<line, pipe, received, echoes>>

WriterStep == Open("writer") \/ Setup("writer") \/ Poll \/ \E f \in Data : Send(f)
-----------------------------------------------------------------------------
(* The receiver *)

\* Mutant: a hang-up is looked at before the data that is left.
ReceiveWhileOpen(f) == /\ at["receiver"][1] = "wait" /\ pipe[f] # <<>> /\ f \in writers
                       /\ received' = [received EXCEPT ![f] = @ \o pipe[f]]
                       /\ pipe' = [pipe EXCEPT ![f] = <<>>]
                       /\ Go("receiver", f)
                       /\ UNCHANGED <<ends, line, echoes>>

\* An EPOLLIN event: readv takes one or several messages, which are logged.
\* A FIFO whose writer has gone and that is empty reports EPOLLHUP alone, for
\* which the loop does nothing: the branch for a readv of zero is never taken
\* and epoll_wait returns again at once. A readv that fails changes nothing: the
\* messages stay, and epoll_wait reports them again.
Receive(f) == /\ at["receiver"][1] = "wait" /\ pipe[f] # <<>>
              /\ \E n \in 1 .. Len(pipe[f]) :
                   /\ received' = [received EXCEPT ![f] = @ \o SubSeq(pipe[f], 1, n)]
                   /\ pipe' = [pipe EXCEPT ![f] = SubSeq(@, n + 1, Len(@))]
              /\ Go("receiver", f)
              /\ UNCHANGED <<ends, line, echoes>>

\* writev to the response FIFO; SIGPIPE if the writer has gone.
Echo(f) == /\ at["receiver"][1] = f
           /\ IF Resp(f) \in readers
                THEN /\ echoes' = [echoes EXCEPT ![f] = @ + 1]
                     /\ Go("receiver", "wait")
                     /\ UNCHANGED ends
                ELSE Leave("receiver", "killed") /\ UNCHANGED echoes
           /\ UNCHANGED <<line, pipe, received>>

ReceiverStep == \/ Open("receiver") \/ Setup("receiver")
                \/ \E f \in Data : Receive(f) \/ Echo(f)

Next == Prompt \/ WriterStep \/ ReceiverStep \/ \E p \in Process : EpollFails(p)

\* Both processes keep running; the user may never type anything, and epoll_wait
\* need not fail.
Spec == Init /\ [][Next]_vars /\ WF_vars(WriterStep) /\ WF_vars(ReceiverStep)
-----------------------------------------------------------------------------
Ended(p) == at[p][1] \in {"end", "killed"}

\* The blocking opens of the two processes meet: neither waits for ever for an
\* open that the other makes only after its own, as long as the other has not
\* ended.
OpensMeet == made = Fifo ~> \/ \A p \in Process : at[p][1] \notin {"open", "blocked"}
                            \/ \E p \in Process : Ended(p)

\* Every line that the writer put into a FIFO is logged, also when the writer
\* has closed it; unless the receiver has ended, by the SIGPIPE of an echo that
\* nobody reads or by an error, or still waits for a writer that has ended to open the
\* response FIFOs.
LinesAreLogged ==
    \A f \in Data, n \in 1 .. MaxLines :
      (\E k \in DOMAIN pipe[f] : pipe[f][k] = n)
        ~> \/ \E k \in DOMAIN received[f] : received[f][k] = n
           \/ Ended("receiver")
           \/ at["receiver"][1] = "blocked" /\ Ended("writer")
=============================================================================
