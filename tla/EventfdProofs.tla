---------------------------- MODULE EventfdProofs ----------------------------
(***************************************************************************)
(* What EventfdBroadcast guarantees for every number of receivers, every   *)
(* set of bit masks and any number of commands. ack_mask may lose a bit in *)
(* the race between two receivers, but it never shows one that is not      *)
(* earned, and that is what T1's report and the reuse of the buffer need.  *)
(***************************************************************************)
EXTENDS EventfdBroadcast, TLAPS

\* A receiver that was signalled and has not stored its acknowledgement.
Busy(r) == efd[r] > 0 \/ rx[r] \in {"test", "read", "respond", "load", "store"}

\* A receiver that has answered the command at hand.
Answered(r) == /\ r \in receivers_mask \ todo
               /\ ~Busy(r)
               /\ seen[r] = message

\* Between two commands, and when main starts to leave, no receiver works.
Between == t1 \in {"prompt", "set", "clear", "munmap", "close"} =>
             \A r \in Receivers : ~Busy(r)

\* During a command only its receivers work, a bit in ack_mask or in a copy
\* of it that will be stored was earned, and the report waits for all bits.
During == t1 \in {"signal", "wait", "check", "report"} =>
            /\ todo \subseteq receivers_mask
            /\ t1 # "signal" => todo = {}
            /\ t1 = "report" => ack_mask = receivers_mask
            /\ \A r \in Receivers : Busy(r) => r \in receivers_mask \ todo
            /\ \A r \in ack_mask : Answered(r)
            /\ \A r \in Receivers : rx[r] = "store" => \A q \in tmp[r] : Answered(q)
            /\ \A r \in Receivers : rx[r] \in {"respond", "load", "store"} => seen[r] = message

\* What holds in every phase.
Always == /\ t1 = "clear" => receivers_mask = todo
          /\ t1 # "exit" => /\ open.fds
                            /\ \A r \in Receivers : efd[r] > 0 => rx[r] \in {"wait", "signal"}

BroadcastInv == TypeOK /\ Between /\ During /\ Always
-----------------------------------------------------------------------------
\* The types, step by step.
LEMMA TypeStep ==
    ASSUME TypeOK, [Next]_vars
    PROVE  TypeOK'
<1> USE CountAssumption, MaskAssumption, BoundAssumption DEF TypeOK
<1>1. CASE UNCHANGED vars
  BY <1>1 DEF vars
<1>2. ASSUME NEW m \in Masks \cup {Invalid}, Command(m)
      PROVE  TypeOK'
  BY <1>2 DEF Command, local
<1>3. CASE SetReceivers \/ ClearAcks \/ StartWaiting \/ WaitAck \/ CheckAcks \/ Report \/ Quit
  BY <1>3 DEF SetReceivers, ClearAcks, StartWaiting, WaitAck, CheckAcks, Report, Quit, local, shared
<1>4. ASSUME NEW r \in Receivers, SignalReceiver(r)
      PROVE  TypeOK'
  BY <1>4 DEF SignalReceiver, local, shared
<1>5. CASE Unmap \/ CloseAll
  BY <1>5 DEF Unmap, CloseAll, local, shared
<1>6. ASSUME NEW r \in Receivers, RxWait(r) \/ RxTest(r) \/ RxRead(r)
      PROVE  TypeOK'
  <2>1. crashed' \in BOOLEAN
    BY <1>6 DEF RxWait, RxTest, RxRead
  <2>. QED
    BY <1>6, <2>1 DEF RxWait, RxTest, RxRead, To, mainVars
<1>7. ASSUME NEW r \in Receivers, RxRespond(r) \/ RxLoad(r) \/ RxStore(r) \/ RxSignal(r)
      PROVE  TypeOK'
  <2>1. /\ ack_mask' \subseteq Receivers /\ response' \in Receivers \cup {None, Torn}
        /\ efdT1' \in Nat /\ tmp' \in [Receivers -> SUBSET Receivers]
    BY <1>7 DEF RxRespond, RxLoad, RxStore, RxSignal
  <2>2. /\ UNCHANGED <<t1, todo, message, receivers_mask, open, command, efd, seen, crashed>>
        /\ \E l \in {"load", "store", "signal", "wait"} : To(r, l)
    BY <1>7 DEF RxRespond, RxLoad, RxStore, RxSignal, mainVars
  <2>. QED
    BY <2>1, <2>2 DEF To
<1>. QED
  BY <1>1, <1>2, <1>3, <1>4, <1>5, <1>6, <1>7 DEF Next, T1Step, RxStep

\* The steps of T1 keep the invariant: a new command starts when nobody works
\* on the last one, and T1 reports when all bits are set.
LEMMA T1Keeps ==
    ASSUME BroadcastInv, TypeOK',
           \/ \E m \in Masks \cup {Invalid} : Command(m)
           \/ Quit \/ T1Step
    PROVE  Between' /\ During' /\ Always'
<1> USE DEF TypeOK
<1>1. ASSUME NEW m \in Masks \cup {Invalid}, Command(m)
      PROVE  Between' /\ During' /\ Always'
  <2>1. /\ t1 = "prompt" /\ t1' \in {"prompt", "set"}
        /\ UNCHANGED <<efd, rx, open>>
    BY <1>1 DEF Command, local
  <2>. QED
    BY <2>1 DEF BroadcastInv, Between, During, Always, Busy
<1>2. CASE SetReceivers
  <2>1. /\ t1 = "set" /\ t1' = "clear" /\ receivers_mask' = todo /\ todo' = todo
        /\ UNCHANGED <<efd, rx, open>>
    BY <1>2 DEF SetReceivers, local
  <2>. QED
    BY <2>1 DEF BroadcastInv, Between, During, Always, Busy
<1>3. CASE ClearAcks
  <2>1. /\ t1 = "clear" /\ t1' = "signal" /\ ack_mask' = {}
        /\ UNCHANGED <<todo, receivers_mask, efd, rx, open>>
    BY <1>3 DEF ClearAcks, local
  <2>2. \A r \in Receivers : ~Busy(r)
    BY <2>1 DEF BroadcastInv, Between
  <2>3. \A r \in Receivers : ~Busy(r)' /\ rx'[r] \notin {"respond", "load", "store"}
    BY <2>1, <2>2 DEF Busy
  <2>4. Between' /\ Always'
    BY <2>1 DEF BroadcastInv, Between, Always
  <2>5. receivers_mask' = todo'
    BY <2>1 DEF BroadcastInv, Always
  <2>. QED
    BY <2>1, <2>3, <2>4, <2>5 DEF During
<1>4. ASSUME NEW r \in Receivers, SignalReceiver(r)
      PROVE  Between' /\ During' /\ Always'
  <2>1. /\ t1 = "signal" /\ t1' = "signal" /\ r \in todo /\ todo' = todo \ {r}
        /\ efd' = [efd EXCEPT ![r] = @ + 1]
        /\ UNCHANGED <<message, receivers_mask, ack_mask, open, rx, tmp, seen>>
    BY <1>4 DEF SignalReceiver, local, shared
  <2>2. ~Busy(r) /\ r \in receivers_mask
    BY <2>1 DEF BroadcastInv, During
  <2>3. rx[r] \in {"wait", "signal"}
    BY <2>2 DEF BroadcastInv, Busy
  <2>4. Always'
    BY <2>1, <2>3 DEF BroadcastInv, Always
  <2>5. \A q \in Receivers : q # r => (Busy(q)' <=> Busy(q))
    BY <2>1 DEF Busy, BroadcastInv
  <2>6. \A q \in Receivers : Answered(q) => Answered(q)'
    BY <2>1, <2>5 DEF Answered
  <2>7. \A q \in Receivers : Busy(q)' => q \in receivers_mask \ todo'
    BY <2>1, <2>2, <2>5 DEF BroadcastInv, During
  <2>8. ack_mask \subseteq Receivers /\ \A q \in Receivers : tmp[q] \subseteq Receivers
    BY DEF BroadcastInv
  <2>9. During'
    BY <2>1, <2>6, <2>7, <2>8 DEF BroadcastInv, During
  <2>. QED
    BY <2>1, <2>4, <2>9 DEF Between
<1>5. CASE StartWaiting \/ WaitAck \/ CheckAcks
  <2>1. /\ \/ t1 = "signal" /\ t1' = "wait" /\ todo = {}
           \/ t1 = "wait" /\ t1' = "check"
           \/ t1 = "check" /\ t1' = IF ack_mask = receivers_mask THEN "report" ELSE "wait"
        /\ UNCHANGED <<todo, message, receivers_mask, ack_mask, efd, open, rx, tmp, seen>>
    BY <1>5 DEF StartWaiting, WaitAck, CheckAcks, local, shared
  <2>2. \A r \in Receivers : (Busy(r)' <=> Busy(r)) /\ (Answered(r)' <=> Answered(r))
    BY <2>1 DEF Busy, Answered
  <2>3. ack_mask \subseteq Receivers /\ \A q \in Receivers : tmp[q] \subseteq Receivers
    BY DEF BroadcastInv
  <2>4. Between' /\ Always'
    BY <2>1 DEF BroadcastInv, Between, Always
  <2>5. During'
    BY <2>1, <2>2, <2>3 DEF BroadcastInv, During
  <2>. QED
    BY <2>4, <2>5
<1>6. CASE Report
  <2>1. t1 = "report" /\ t1' = "prompt" /\ UNCHANGED <<efd, rx, open>>
    BY <1>6 DEF Report, local
  <2>2. \A r \in Receivers : ~Busy(r)
    BY <2>1 DEF BroadcastInv, During, Answered
  <2>3. \A r \in Receivers : ~Busy(r)'
    BY <2>1, <2>2 DEF Busy
  <2>. QED
    BY <2>1, <2>3 DEF BroadcastInv, Between, During, Always
<1>7. CASE Quit \/ Unmap \/ CloseAll
  <2>1. /\ t1 \in {"prompt", "munmap", "close"} /\ t1' \in {"munmap", "close", "exit"}
        /\ UNCHANGED <<efd, rx>>
    BY <1>7 DEF Quit, Unmap, CloseAll, local
  <2>2. t1' # "exit" => open'.fds = open.fds
    BY <1>7 DEF BroadcastInv, Quit, Unmap, CloseAll
  <2>. QED
    BY <2>1, <2>2 DEF BroadcastInv, Between, During, Always, Busy
<1>. QED
  BY <1>1, <1>2, <1>3, <1>4, <1>5, <1>6, <1>7 DEF T1Step

\* The steps of a receiver keep the invariant: what it stores in ack_mask is
\* a copy made during this command, with its own bit.
LEMMA ReceiverKeeps ==
    ASSUME BroadcastInv, TypeOK', NEW r \in Receivers, RxStep(r)
    PROVE  Between' /\ During' /\ Always'
<1> USE DEF TypeOK
<1> DEFINE W == {"signal", "wait", "check", "report"}
<1>1. UNCHANGED <<t1, todo, message, receivers_mask, open>>
  BY DEF RxStep, RxWait, RxTest, RxRead, RxRespond, RxLoad, RxStore, RxSignal, mainVars
<1>2. /\ ack_mask \subseteq Receivers /\ \A q \in Receivers : tmp[q] \subseteq Receivers
      /\ efd \in [Receivers -> Nat] /\ seen \in [Receivers -> 0 .. MaxCommands]
      /\ DOMAIN rx = Receivers /\ tmp \in [Receivers -> SUBSET Receivers]
  BY DEF BroadcastInv
<1>3. CASE t1 = "exit"
  BY <1>1, <1>3 DEF Between, During, Always
<1>4. CASE RxWait(r) /\ t1 # "exit"
  <2>1. /\ efd[r] > 0 /\ efd' = [efd EXCEPT ![r] = 0] /\ rx' = [rx EXCEPT ![r] = "test"]
        /\ UNCHANGED <<ack_mask, tmp, seen>>
    BY <1>4 DEF RxWait, To, BroadcastInv, Always
  <2>2. \A q \in Receivers : (Busy(q)' <=> Busy(q))
    BY <1>2, <2>1 DEF Busy
  <2>3. \A q \in Receivers : Answered(q)' <=> Answered(q)
    BY <1>1, <2>1, <2>2 DEF Answered
  <2>4. Between' /\ Always'
    BY <1>1, <1>2, <2>1, <2>2 DEF BroadcastInv, Between, Always
  <2>5. During'
    BY <1>1, <1>2, <2>1, <2>2, <2>3 DEF BroadcastInv, During
  <2>. QED
    BY <2>4, <2>5
<1>5. ASSUME rx[r] \in {"test", "read", "respond", "load", "store"}, t1 # "exit"
      PROVE  /\ t1 \in W /\ efd[r] = 0 /\ r \in receivers_mask \ todo
  <2>1. Busy(r)
    BY <1>5 DEF Busy
  <2>2. t1 \in W
    BY <1>5, <2>1 DEF BroadcastInv, Between
  <2>3. r \in receivers_mask \ todo
    BY <2>1, <2>2 DEF BroadcastInv, During
  <2>4. ~(efd[r] > 0)
    BY <1>5 DEF BroadcastInv, Always
  <2>. QED
    BY <1>2, <2>2, <2>3, <2>4
<1>6. CASE (RxTest(r) \/ RxRead(r) \/ RxRespond(r) \/ RxLoad(r)) /\ t1 # "exit"
  <2>1. /\ t1 \in W /\ efd[r] = 0 /\ r \in receivers_mask \ todo
    BY <1>5, <1>6 DEF RxTest, RxRead, RxRespond, RxLoad
  <2>2. /\ UNCHANGED <<ack_mask, efd>>
        /\ \/ rx[r] = "test" /\ rx' = [rx EXCEPT ![r] = "read"] /\ UNCHANGED <<tmp, seen>>
           \/ /\ rx[r] = "read" /\ rx' = [rx EXCEPT ![r] = "respond"] /\ UNCHANGED tmp
              /\ seen' = [seen EXCEPT ![r] = message]
           \/ rx[r] = "respond" /\ rx' = [rx EXCEPT ![r] = "load"] /\ UNCHANGED <<tmp, seen>>
           \/ /\ rx[r] = "load" /\ rx' = [rx EXCEPT ![r] = "store"] /\ UNCHANGED seen
              /\ tmp' = [tmp EXCEPT ![r] = ack_mask]
    BY <1>6, <2>1 DEF RxTest, RxRead, RxRespond, RxLoad, To
  <2>3. \A q \in Receivers : (Busy(q)' <=> Busy(q))
    BY <1>2, <2>2 DEF Busy
  <2>4. \A q \in Receivers : Answered(q) => Answered(q)'
    <3>1. Busy(r)
      BY <2>2 DEF Busy
    <3>2. \A q \in Receivers : q # r => seen'[q] = seen[q]
      BY <1>2, <2>2
    <3>. QED
      BY <1>1, <2>3, <3>1, <3>2 DEF Answered
  <2>5. Between' /\ Always'
    BY <1>1, <1>2, <2>1, <2>2, <2>3 DEF BroadcastInv, Between, Always
  <2>6. \A q \in Receivers : rx'[q] = "store" => \A p \in tmp'[q] : Answered(p)'
    <3>1. ASSUME NEW q \in Receivers, rx'[q] = "store"
          PROVE  \A p \in tmp'[q] : Answered(p)
      <4>1. CASE q # r
        <5>1. rx[q] = "store" /\ tmp'[q] = tmp[q]
          BY <1>2, <2>2, <3>1, <4>1
        <5>. QED
          BY <2>1, <5>1 DEF BroadcastInv, During
      <4>2. CASE q = r
        <5>1. tmp'[q] = ack_mask
          BY <1>2, <2>2, <3>1, <4>2
        <5>. QED
          BY <2>1, <5>1 DEF BroadcastInv, During
      <4>. QED
        BY <4>1, <4>2
    <3>2. \A q \in Receivers : tmp'[q] \subseteq Receivers
      OBVIOUS
    <3>. QED
      BY <2>4, <3>1, <3>2
  <2>7. \A q \in Receivers : rx'[q] \in {"respond", "load", "store"} => seen'[q] = message
    BY <1>2, <2>1, <2>2 DEF BroadcastInv, During
  <2>8. /\ todo \subseteq receivers_mask
        /\ t1 # "signal" => todo = {}
        /\ t1 = "report" => ack_mask = receivers_mask
        /\ \A q \in ack_mask : Answered(q)'
        /\ \A q \in Receivers : Busy(q)' => q \in receivers_mask \ todo
    BY <1>2, <2>1, <2>3, <2>4 DEF BroadcastInv, During
  <2>9. During'
    BY <1>1, <2>2, <2>6, <2>7, <2>8 DEF During
  <2>. QED
    BY <2>5, <2>9
<1>7. CASE RxStore(r) /\ t1 # "exit"
  <2>1. /\ rx[r] = "store" /\ rx' = [rx EXCEPT ![r] = "signal"]
        /\ ack_mask' = tmp[r] \cup {r}
        /\ UNCHANGED <<efd, tmp, seen>>
    BY <1>7 DEF RxStore, To
  <2>2. t1 \in W /\ efd[r] = 0 /\ r \in receivers_mask \ todo
    BY <1>5, <1>7, <2>1
  <2>3. seen[r] = message /\ \A q \in tmp[r] : Answered(q)
    BY <2>1, <2>2 DEF BroadcastInv, During
  <2>4. \A q \in Receivers : Busy(q)' <=> Busy(q) /\ q # r
    BY <1>2, <2>1, <2>2 DEF Busy
  <2>5. \A q \in Receivers : Answered(q) => Answered(q)'
    BY <1>1, <2>1, <2>4 DEF Answered
  <2>6. Answered(r)'
    BY <1>1, <2>1, <2>2, <2>3, <2>4 DEF Answered
  <2>7. t1 # "report"
    <3>1. Busy(r)
      BY <2>1 DEF Busy
    <3>. QED
      BY <2>2, <3>1 DEF BroadcastInv, During, Answered
  <2>8. Between' /\ Always'
    BY <1>1, <1>2, <2>1, <2>2 DEF BroadcastInv, Between, Always
  <2>9. \A q \in ack_mask' : Answered(q)'
    BY <1>2, <2>1, <2>3, <2>5, <2>6
  <2>10. \A q \in Receivers : rx'[q] = "store" => \A p \in tmp'[q] : Answered(p)'
    BY <1>2, <2>1, <2>2, <2>5 DEF BroadcastInv, During
  <2>11. \A q \in Receivers : rx'[q] \in {"respond", "load", "store"} => seen'[q] = message
    BY <1>2, <2>1, <2>2 DEF BroadcastInv, During
  <2>12. /\ todo \subseteq receivers_mask
         /\ t1 # "signal" => todo = {}
         /\ \A q \in Receivers : Busy(q)' => q \in receivers_mask \ todo
    BY <2>2, <2>4 DEF BroadcastInv, During
  <2>13. During'
    BY <1>1, <2>7, <2>9, <2>10, <2>11, <2>12 DEF During
  <2>. QED
    BY <2>8, <2>13
<1>8. CASE RxSignal(r) /\ t1 # "exit"
  <2>1. /\ rx[r] = "signal" /\ rx' = [rx EXCEPT ![r] = "wait"]
        /\ UNCHANGED <<efd, tmp, seen, ack_mask>>
    BY <1>8 DEF RxSignal, To
  <2>2. \A q \in Receivers : Busy(q)' <=> Busy(q)
    BY <1>2, <2>1 DEF Busy
  <2>3. \A q \in Receivers : Answered(q)' <=> Answered(q)
    BY <1>1, <2>1, <2>2 DEF Answered
  <2>4. Between' /\ Always'
    BY <1>1, <1>2, <2>1, <2>2 DEF BroadcastInv, Between, Always
  <2>5. During'
    BY <1>1, <1>2, <2>1, <2>2, <2>3 DEF BroadcastInv, During
  <2>. QED
    BY <2>4, <2>5
<1>. QED
  BY <1>3, <1>4, <1>6, <1>7, <1>8 DEF RxStep

\* The inductive invariant of the broadcast.
LEMMA BroadcastCorrect == Spec => []BroadcastInv
<1>1. Init => BroadcastInv
  <2> SUFFICES ASSUME Init PROVE BroadcastInv
    OBVIOUS
  <2>1. TypeOK
    <3>1. open \in [mem : BOOLEAN, fds : BOOLEAN] /\ crashed \in BOOLEAN
      BY DEF Init
    <3>. QED
      BY <3>1, BoundAssumption DEF Init, TypeOK
  <2>2. Between /\ During /\ Always
    BY DEF Init, Between, During, Always, Busy
  <2>. QED
    BY <2>1, <2>2 DEF BroadcastInv
<1>2. ASSUME BroadcastInv, [Next]_vars
      PROVE  BroadcastInv'
  <2>1. TypeOK'
    BY <1>2, TypeStep DEF BroadcastInv
  <2>2. ASSUME UNCHANGED vars
        PROVE  Between' /\ During' /\ Always'
    BY <1>2, <2>2 DEF BroadcastInv, Between, During, Always, Busy, Answered, vars
  <2>3. Between' /\ During' /\ Always'
    BY <1>2, <2>1, <2>2, T1Keeps, ReceiverKeeps DEF Next
  <2>. QED
    BY <2>1, <2>3 DEF BroadcastInv
<1>. QED
  BY <1>1, <1>2, PTL DEF Spec
-----------------------------------------------------------------------------
\* When T1 prints that all threads of the bit mask acked, each of them has
\* read the message of this command, for any number of receivers and any
\* interleaving of their unlocked updates of ack_mask.
THEOREM ReportsAreTrue == Spec => []ReportIsTrue
<1>1. BroadcastInv => ReportIsTrue
  BY DEF BroadcastInv, During, Answered, ReportIsTrue
<1>. QED
  BY <1>1, BroadcastCorrect, PTL

\* The shared buffer is not written, and not unmapped, while a receiver that
\* was signalled has yet to acknowledge.
THEOREM BufferIsFree == Spec => []NoOverwriteUnderReader
<1>1. BroadcastInv => NoOverwriteUnderReader
  BY DEF BroadcastInv, TypeOK, Between, Busy, NoOverwriteUnderReader
<1>. QED
  BY <1>1, BroadcastCorrect, PTL
=============================================================================
