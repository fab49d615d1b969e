--------------------------- MODULE BoundedChannel ---------------------------
(***************************************************************************)
(* What the work queue of lesson_9/04_work_queue_pattern promises to the   *)
(* threads that call it: a first-in first-out channel of bounded capacity  *)
(* that can be closed, after which nothing is accepted any more but what   *)
(* it holds can still be received.  No array, no index, no sleeping        *)
(* thread: module WorkQueue is shown to implement this one.                *)
(***************************************************************************)
EXTENDS Naturals, Sequences

CONSTANTS Capacity,  \* the most messages the channel holds
          Msg        \* the messages

VARIABLES chan,      \* the messages in the channel, oldest first
          closed

Init == chan = << >> /\ closed = FALSE

Send(m) == /\ ~closed
           /\ Len(chan) < Capacity
           /\ chan' = Append(chan, m)
           /\ UNCHANGED closed

\* The oldest message leaves; a closed channel can still be emptied.
Receive == /\ chan # << >>
           /\ chan' = Tail(chan)
           /\ UNCHANGED closed

Close == closed' = TRUE /\ UNCHANGED chan

Next == (\E m \in Msg : Send(m)) \/ Receive \/ Close

Spec == Init /\ [][Next]_<<chan, closed>>
=============================================================================
