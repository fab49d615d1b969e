------------------------------ MODULE FifoReader ------------------------------
(***************************************************************************)
(* The reader and writer of lesson_3/02_read: the child sends the lines    *)
(* that the user types through a FIFO, the parent reads them until it      *)
(* reads the word stop (read.c). Lines are sent without their newline and  *)
(* a read takes all that is there, up to the size of its buffer, so that   *)
(* words may be joined. Text is a sequence of pieces, two of which make up *)
(* MSG_STOP.                                                               *)
(***************************************************************************)
EXTENDS Naturals, Sequences

CONSTANTS BufferSize, \* pieces that one line or one read has at most
          MaxTyped    \* bound: lines the user types

MSG_STOP == <<"st", "op">>
Texts == {<<>>, <<"x">>, <<"st">>, <<"op">>, MSG_STOP}   \* what a typed line may be

VARIABLES rd,         \* where the parent is
          wr,         \* where the child is
          fifo,       \* what was written and not read yet
          rbuf, wbuf, \* the buffers of parent and child
          typed       \* lines typed so far

vars == <<rd, wr, fifo, rbuf, wbuf, typed>>

Unset == <<"unset">>  \* the parent's buffer before its first read

TypeOK == /\ rd \in {"start", "open", "read", "wait", "done", "failed"}
          /\ wr \in {"none", "open", "type", "write", "stopped", "failed", "killed"}
          /\ fifo \in Seq({"st", "op", "x"}) /\ rbuf \in Seq({"st", "op", "x", "unset"})
          /\ wbuf \in Texts \cup {<<>>}
          /\ typed \in 0 .. MaxTyped

Init == /\ rd = "start" /\ wr = "none" /\ fifo = <<>>
        /\ rbuf = Unset /\ wbuf = <<>> /\ typed = 0

ChildEnded == wr \in {"stopped", "failed", "killed"}
-----------------------------------------------------------------------------
\* make_fifo and fork, or the failure of one of them.
Start == /\ rd = "start"
         /\ \/ rd' = "open" /\ wr' = "open"
            \/ rd' = "failed" /\ UNCHANGED wr
         /\ UNCHANGED <<fifo, rbuf, wbuf, typed>>

\* Each open waits for the other one.
OpenBoth == /\ rd = "open" /\ wr = "open"
            /\ rd' = "read" /\ wr' = "type"
            /\ UNCHANGED <<fifo, rbuf, wbuf, typed>>

\* One of them fails; the other process then waits in its own for ever.
OpenFails == /\ rd = "open" /\ wr = "open"
             /\ \/ rd' = "failed" /\ UNCHANGED wr
                \/ wr' = "failed" /\ UNCHANGED rd
             /\ UNCHANGED <<fifo, rbuf, wbuf, typed>>

\* The child: fgets, which at the end of the input makes it give up.
Type(text) == /\ wr = "type" /\ typed < MaxTyped
              /\ wbuf' = text /\ wr' = "write" /\ typed' = typed + 1
              /\ UNCHANGED <<rd, fifo, rbuf>>

InputEnds == /\ wr = "type" /\ wr' = "failed"
             /\ UNCHANGED <<rd, fifo, rbuf, wbuf, typed>>

\* Mutant: the word stop ends the loop before it is sent.
WriteUnlessStop ==
    /\ wr = "write"
    /\ \/ wbuf = MSG_STOP /\ wr' = "stopped" /\ UNCHANGED fifo
       \/ wbuf # MSG_STOP /\ rd = "read" /\ fifo' = fifo \o wbuf /\ wr' = "type"
       \/ wbuf \notin {MSG_STOP, <<>>} /\ rd # "read" /\ wr' = "killed" /\ UNCHANGED fifo
    /\ UNCHANGED <<rd, rbuf, wbuf, typed>>

\* write, and the test for the word that ends the loop. When the parent has
\* closed its end SIGPIPE kills the child, unless there is nothing to write.
Write == /\ wr = "write"
         /\ IF rd = "read" \/ wbuf = <<>>
              THEN /\ fifo' = fifo \o wbuf
                   /\ wr' = IF wbuf = MSG_STOP THEN "stopped" ELSE "type"
              ELSE wr' = "killed" /\ UNCHANGED fifo
         /\ UNCHANGED <<rd, rbuf, wbuf, typed>>

\* The parent: one read takes what is there, and buffer is compared.
Read == LET n == IF Len(fifo) < BufferSize THEN Len(fifo) ELSE BufferSize
        IN /\ rd = "read" /\ fifo # <<>>
           /\ rbuf' = SubSeq(fifo, 1, n)
           /\ fifo' = SubSeq(fifo, n + 1, Len(fifo))
           /\ rd' = IF rbuf' = MSG_STOP THEN "wait" ELSE "read"
           /\ UNCHANGED <<wr, wbuf, typed>>

\* At the end of file, and when read fails, buffer keeps what it had, and is
\* compared all the same; before the first read that may be anything. The loop
\* goes on otherwise.
NothingRead == /\ rd = "read" /\ rbuf = Unset /\ rd' = "wait"
               /\ UNCHANGED <<wr, fifo, rbuf, wbuf, typed>>

\* The FIFO is closed, the child waited for and the FIFO removed.
Finish == /\ rd = "wait" /\ ChildEnded /\ rd' = "done"
          /\ UNCHANGED <<wr, fifo, rbuf, wbuf, typed>>

ReaderStep == Start \/ OpenBoth \/ Read \/ Finish
WriterStep == Write
Next == \/ ReaderStep \/ WriterStep \/ OpenFails \/ InputEnds \/ NothingRead
        \/ \E text \in Texts : Type(text)

\* Both processes run; nobody has to type.
Spec == Init /\ [][Next]_vars /\ WF_vars(ReaderStep) /\ WF_vars(WriterStep)
-----------------------------------------------------------------------------
\* The word was read together with other text, or in two reads.
StopMissed == /\ rd = "read" /\ fifo = <<>> /\ rbuf # MSG_STOP
              /\ rbuf # <<>> /\ rbuf[Len(rbuf)] = "op"

\* Once the user has typed stop the parent ends too, unless the word reached
\* it joined to other text: then it reads end-of-file for ever.
StopEndsReader == wr = "stopped" ~> rd = "done" \/ StopMissed
=============================================================================
