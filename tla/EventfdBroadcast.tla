-------------------------- MODULE EventfdBroadcast --------------------------
(***************************************************************************)
(* The broadcast of lesson_5/04_eventfd: T1 (main_impl) writes a message   *)
(* and the set of its receivers to shared memory, signals each of them     *)
(* through its eventfd, and waits on efdT1 until ack_mask equals the set;  *)
(* a receiver answers, sets its bit in ack_mask and signals efdT1          *)
(* (04_eventfd.c, 64-78 and 101-291).                                      *)
(*                                                                         *)
(* A bit mask is the set of the receivers whose bits are set.  A message   *)
(* is the number of the command that carried it.  ack_mask |= mask is a    *)
(* load and a store, since the field is neither atomic nor locked.  An     *)
(* eventfd is its counter; its read returns at once with EBADF when the    *)
(* descriptor was closed, and wait_eventfd only reports that.              *)
(***************************************************************************)
EXTENDS Naturals, FiniteSets

CONSTANTS N,           \* how many receiver threads there are
          Masks,       \* the bit masks the user may type, as sets
          MaxCommands, \* bound: how many commands are typed
          Invalid,     \* a bit mask above max_mask
          None, Torn   \* no response yet; one mixed from two writers

\* Receiver i is the thread with threadID i + 2.
Receivers == 0 .. N - 1

ASSUME CountAssumption == N \in Nat \ {0}
ASSUME MaskAssumption == Masks \subseteq SUBSET Receivers
ASSUME BoundAssumption == MaxCommands \in Nat

VARIABLES t1,          \* where T1 is
          todo,        \* receivers T1 has still to signal
          message, receivers_mask, ack_mask, response,  \* shared memory
          efdT1, efd,  \* counters of the eventfds
          open,        \* shared memory is mapped / eventfds are open
          rx,          \* where each receiver is
          tmp,         \* the ack_mask a receiver loaded
          seen,        \* history: the message each receiver read last
          command,     \* history: how many commands were typed
          crashed      \* a receiver touched unmapped memory

vars == <<t1, todo, message, receivers_mask, ack_mask, response, efdT1, efd, open,
          rx, tmp, seen, command, crashed>>

TypeOK == /\ t1 \in {"prompt", "set", "clear", "signal", "wait", "check", "report",
                     "munmap", "close", "exit"}
          /\ todo \subseteq Receivers
          /\ message \in 0 .. MaxCommands /\ command \in 0 .. MaxCommands
          /\ receivers_mask \subseteq Receivers /\ ack_mask \subseteq Receivers
          /\ response \in Receivers \cup {None, Torn}
          /\ efdT1 \in Nat /\ efd \in [Receivers -> Nat]
          /\ open \in [mem : BOOLEAN, fds : BOOLEAN]
          /\ rx \in [Receivers -> {"wait", "test", "read", "respond", "load", "store", "signal"}]
          /\ tmp \in [Receivers -> SUBSET Receivers]
          /\ seen \in [Receivers -> 0 .. MaxCommands]
          /\ crashed \in BOOLEAN

Init == /\ t1 = "prompt" /\ todo = {} /\ command = 0
        /\ message = 0 /\ receivers_mask = {} /\ ack_mask = {} /\ response = None
        /\ efdT1 = 0 /\ efd = [r \in Receivers |-> 0]
        /\ open = [mem |-> TRUE, fds |-> TRUE]
        /\ rx = [r \in Receivers |-> "wait"]
        /\ tmp = [r \in Receivers |-> {}]
        /\ seen = [r \in Receivers |-> 0]
        /\ crashed = FALSE

local == <<rx, tmp, seen, crashed>>
shared == <<message, receivers_mask, ack_mask, response>>
-----------------------------------------------------------------------------
\* A line is read and its message stored; only then is the bit mask tested.
Command(m) == /\ t1 = "prompt" /\ command < MaxCommands
              /\ command' = command + 1
              /\ message' = command + 1
              /\ t1' = IF m = Invalid THEN "prompt" ELSE "set"
              /\ todo' = IF m = Invalid THEN todo ELSE m
              /\ UNCHANGED <<receivers_mask, ack_mask, response, efdT1, efd, open, local>>

SetReceivers == /\ t1 = "set"
                /\ receivers_mask' = todo
                /\ t1' = "clear"
                /\ UNCHANGED <<todo, message, ack_mask, response, efdT1, efd, open, command, local>>

\* Mutant: the bits of the previous command stay set.
KeepAcks == /\ t1 = "clear"
            /\ t1' = "signal"
            /\ UNCHANGED <<todo, shared, efdT1, efd, open, command, local>>

ClearAcks == /\ t1 = "clear"
             /\ ack_mask' = {}
             /\ t1' = "signal"
             /\ UNCHANGED <<todo, message, receivers_mask, response, efdT1, efd, open, command, local>>

SignalReceiver(r) == /\ t1 = "signal" /\ r \in todo /\ \A q \in todo : r <= q
                     /\ efd' = [efd EXCEPT ![r] = @ + 1]
                     /\ todo' = todo \ {r}
                     /\ UNCHANGED <<t1, shared, efdT1, open, command, local>>

StartWaiting == /\ t1 = "signal" /\ todo = {}
                /\ t1' = "wait"
                /\ UNCHANGED <<todo, shared, efdT1, efd, open, command, local>>

\* wait_eventfd(efdT1): one read takes the whole count, however many
\* receivers signalled.
WaitAck == /\ t1 = "wait" /\ efdT1 > 0
           /\ efdT1' = 0
           /\ t1' = "check"
           /\ UNCHANGED <<todo, shared, efd, open, command, local>>

\* Mutant: the first acknowledgement is enough.
CheckAnyAck == /\ t1 = "check"
               /\ t1' = IF ack_mask # {} THEN "report" ELSE "wait"
               /\ UNCHANGED <<todo, shared, efdT1, efd, open, command, local>>

\* bitmask is T1's own copy; nothing else writes receivers_mask meanwhile.
CheckAcks == /\ t1 = "check"
             /\ t1' = IF ack_mask = receivers_mask THEN "report" ELSE "wait"
             /\ UNCHANGED <<todo, shared, efdT1, efd, open, command, local>>

Report == /\ t1 = "report"
          /\ t1' = "prompt"
          /\ UNCHANGED <<todo, shared, efdT1, efd, open, command, local>>

\* "exit", or end of input.
Quit == /\ t1 = "prompt" /\ t1' = "munmap"
        /\ UNCHANGED <<todo, shared, efdT1, efd, open, command, local>>

Unmap == /\ t1 = "munmap" /\ t1' = "close"
         /\ open' = [open EXCEPT !.mem = FALSE]
         /\ UNCHANGED <<todo, shared, efdT1, efd, command, local>>

CloseAll == /\ t1 = "close" /\ t1' = "exit"
            /\ open' = [open EXCEPT !.fds = FALSE]
            /\ UNCHANGED <<todo, shared, efdT1, efd, command, local>>
-----------------------------------------------------------------------------
To(r, label) == rx' = [rx EXCEPT ![r] = label]
mainVars == <<t1, todo, message, receivers_mask, open, command>>

\* wait_eventfd(efdMe): signalled, or the descriptor is closed. A read that was
\* blocked before the close returns here too, which allows more than the code.
RxWait(r) == /\ rx[r] = "wait" /\ (efd[r] > 0 \/ ~open.fds)
             /\ efd' = [efd EXCEPT ![r] = 0]
             /\ To(r, "test")
             /\ UNCHANGED <<mainVars, ack_mask, response, efdT1, tmp, seen, crashed>>

\* "Not for me => ignore", or on to the message.  The test is the first
\* access to g_shared after the wait.
RxTest(r) == /\ rx[r] = "test"
             /\ To(r, IF r \in receivers_mask THEN "read" ELSE "wait")
             /\ crashed' = (crashed \/ ~open.mem)
             /\ UNCHANGED <<mainVars, ack_mask, response, efdT1, efd, tmp, seen>>

RxRead(r) == /\ rx[r] = "read"
             /\ seen' = [seen EXCEPT ![r] = message]
             /\ To(r, "respond")
             /\ UNCHANGED <<mainVars, ack_mask, response, efdT1, efd, tmp, crashed>>

\* Two receivers may print into the one response buffer at the same time.
RxRespond(r) == /\ rx[r] = "respond"
                /\ response' \in {r} \cup
                     IF \E q \in Receivers \ {r} : rx[q] = "respond" THEN {Torn} ELSE {}
                /\ To(r, "load")
                /\ UNCHANGED <<mainVars, ack_mask, efdT1, efd, tmp, seen, crashed>>

RxLoad(r) == /\ rx[r] = "load"
             /\ tmp' = [tmp EXCEPT ![r] = ack_mask]
             /\ To(r, "store")
             /\ UNCHANGED <<mainVars, ack_mask, response, efdT1, efd, seen, crashed>>

\* Mutant: &= instead of |=.
RxStoreAnd(r) == /\ rx[r] = "store"
                 /\ ack_mask' = tmp[r] \cap {r}
                 /\ To(r, "signal")
                 /\ UNCHANGED <<mainVars, response, efdT1, efd, tmp, seen, crashed>>

RxStore(r) == /\ rx[r] = "store"
              /\ ack_mask' = tmp[r] \cup {r}
              /\ To(r, "signal")
              /\ UNCHANGED <<mainVars, response, efdT1, efd, tmp, seen, crashed>>

\* The msync and the write to efdT1; on a closed descriptor it only fails.
RxSignal(r) == /\ rx[r] = "signal"
               /\ efdT1' = IF open.fds THEN efdT1 + 1 ELSE efdT1
               /\ To(r, "wait")
               /\ UNCHANGED <<mainVars, ack_mask, response, efd, tmp, seen, crashed>>

T1Step == \/ SetReceivers \/ ClearAcks \/ StartWaiting \/ WaitAck \/ CheckAcks \/ Report
          \/ Unmap \/ CloseAll \/ \E r \in Receivers : SignalReceiver(r)
RxStep(r) == \/ RxWait(r) \/ RxTest(r) \/ RxRead(r) \/ RxRespond(r)
             \/ RxLoad(r) \/ RxStore(r) \/ RxSignal(r)

\* A crash ends the process; after main returns the receivers run on only
\* until exit() is through, so they may still take steps.
Next == /\ ~crashed
        /\ \/ \E m \in Masks \cup {Invalid} : Command(m)
           \/ Quit \/ T1Step
           \/ \E r \in Receivers : RxStep(r)

\* The threads run; the user is not obliged to type anything.
Spec == Init /\ [][Next]_vars /\ WF_vars(T1Step) /\ \A r \in Receivers : WF_vars(RxStep(r))
-----------------------------------------------------------------------------
\* When T1 reports that all threads in the bit mask acked, every one of them
\* has read the message of this command, not an older one: ack bits and
\* late signals of the previous command never count for this one.
ReportIsTrue == t1 = "report" => \A r \in receivers_mask : seen[r] = message

\* T1 never overwrites the message or the bit masks under a receiver that has
\* been signalled and has not acknowledged yet.
NoOverwriteUnderReader ==
    t1 \in {"prompt", "set", "clear", "munmap"} =>
      \A r \in Receivers : rx[r] \in {"wait", "signal"} /\ efd[r] = 0

\* A command for one receiver is answered and T1 prompts again, also after
\* commands for several whose signals are still on their way.
BroadcastCompletes == t1 = "wait" /\ Cardinality(receivers_mask) = 1 ~> t1 = "prompt"

\* The comment on ack_mask: it tracks which threads have responded, each
\* thread sets its bit before signalling T1.
AckTracksResponses == \A r \in Receivers : rx[r] = "signal" /\ t1 = "wait" => r \in ack_mask
=============================================================================
