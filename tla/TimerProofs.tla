----------------------------- MODULE TimerProofs -----------------------------
(***************************************************************************)
(* What TimerCallback guarantees for every number of slots, timers and     *)
(* threads, and for any number of expiries: no POSIX timer outlives its    *)
(* slot, however the creation of timers, their deletion by main and the    *)
(* deletion from timer1_callback interleave with handlers and threads.     *)
(***************************************************************************)
EXTENDS EventPrograms, TLAPS

\* The names of slots and threads in the timer system.
Slots == Timer!Slots
Main == Timer!Main
Callbacks == Timer!Callbacks
Threads == Timer!Threads
NoOne == Timer!NoOne
USE DEF Slots, Main, Callbacks, Threads, NoOne

\* The shape of the state the argument needs.
TimerShape == /\ DOMAIN pc = Threads /\ DOMAIN job = Threads /\ DOMAIN idx = Threads
              /\ DOMAIN cb = Slots
              /\ job[Main] \in Nat \ {0}
              /\ pc[Main] \in {"findLock", "find", "armLock", "arm"} => idx[Main] \in Slots
              /\ pc[Main] = "found" => idx[Main] \in Slots \cup {NoOne}

\* Until the first timer is armed there is nothing that could expire, no
\* handler and no callback thread.
NothingFired == job[Main] = 1 /\ pc[Main] \in {"create", "findLock", "find", "found",
                                               "armLock", "arm"} =>
                  /\ armed = {} /\ pending = {} /\ h.at = "none"
                  /\ \A t \in Callbacks : pc[t] = "unborn"

\* The slot that main has claimed stays claimed until its timer is armed,
\* unless a timer1_callback deletes it for another one.
ClaimKept == ~stray /\ pc[Main] \in {"found", "armLock", "arm"} /\ idx[Main] # NoOne =>
               /\ idx[Main] \in active /\ idx[Main] \notin armed
               /\ cb[idx[Main]] = job[Main]

TimerInv == TimerShape /\ NothingFired /\ ClaimKept /\ Timer!NoOrphanTimer
-----------------------------------------------------------------------------
\* Main is not one of the callback threads, and NoOne is not a slot.
LEMMA Names == /\ Main \in Threads /\ Main \notin Callbacks /\ Callbacks \subseteq Threads
               /\ NoOne \notin Slots
  BY TimerAssumption
     DEF Timer!Main, Timer!Callbacks, Timer!Threads, Timer!NoOne, Timer!Slots

\* What a step of a handler, of a callback thread or an expiry needs of the
\* state: a timer was armed before.
Fired == ~(job[Main] = 1 /\ pc[Main] \in {"create", "findLock", "find", "found",
                                          "armLock", "arm"})

\* What such a step leaves alone, unless it is a deletion.
Aside == /\ UNCHANGED <<active, armed, cb, stray>>
         /\ job'[Main] = job[Main] /\ pc'[Main] = pc[Main] /\ idx'[Main] = idx[Main]
         /\ DOMAIN pc' = Threads /\ DOMAIN job' = Threads /\ DOMAIN idx' = Threads

\* A step beside main's, other than a deletion, keeps the invariant.
LEMMA AsideKeeps ==
    ASSUME TimerInv, Fired, Aside
    PROVE  TimerInv'
<1>1. TimerShape'
  BY DEF TimerInv, TimerShape, Aside
<1>2. NothingFired'
  BY DEF NothingFired, Fired, Aside
<1>3. ClaimKept' /\ Timer!NoOrphanTimer'
  BY DEF TimerInv, ClaimKept, Timer!NoOrphanTimer, Aside
<1>. QED
  BY <1>1, <1>2, <1>3 DEF TimerInv

\* Expiry, delivery of a signal and the steps of a handler.
LEMMA HandlerKeeps ==
    ASSUME TimerInv,
           \/ \E i \in Slots : Timer!Expire(i) \/ Timer!Deliver(i)
           \/ Timer!HandlerStep
    PROVE  TimerInv'
<1> USE Names
<1>1. ASSUME NEW i \in Slots, Timer!Expire(i)
      PROVE  TimerInv'
  <2>1. Fired
    BY <1>1 DEF Timer!Expire, TimerInv, NothingFired, Fired
  <2>2. Aside
    BY <1>1 DEF Timer!Expire, Aside, Timer!slots, Timer!hist, TimerInv, TimerShape
  <2>. QED
    BY <2>1, <2>2, AsideKeeps
<1>2. ASSUME NEW i \in Slots, Timer!Deliver(i)
      PROVE  TimerInv'
  <2>1. Fired
    BY <1>2 DEF Timer!Deliver, TimerInv, NothingFired, Fired
  <2>2. Aside
    BY <1>2 DEF Timer!Deliver, Aside, Timer!slots, TimerInv, TimerShape
  <2>. QED
    BY <2>1, <2>2, AsideKeeps
<1>3. ASSUME Timer!HandlerStep
      PROVE  TimerInv'
  <2>1. Fired
    <3>1. h.at # "none"
      BY <1>3 DEF Timer!HandlerStep, Timer!HandlerLock, Timer!HandlerScan,
                  Timer!HandlerUnlock, Timer!HandlerReturn
    <3>. QED
      BY <3>1 DEF TimerInv, NothingFired, Fired
  <2>2. CASE Timer!HandlerLock \/ Timer!HandlerScan \/ Timer!HandlerUnlock
    <3>1. Aside
      BY <2>2 DEF Timer!HandlerLock, Timer!HandlerScan, Timer!HandlerUnlock, Aside,
                  Timer!slots, Timer!hist,
                  TimerInv, TimerShape
    <3>. QED
      BY <2>1, <3>1, AsideKeeps
  <2>3. CASE Timer!HandlerReturn
    <3>1. /\ UNCHANGED <<active, armed, cb, stray, job>>
      BY <2>3 DEF Timer!HandlerReturn, Timer!slots, Timer!hist, TimerInv, TimerShape
    <3>2. \/ UNCHANGED <<pc, idx>>
          \/ \E u \in Callbacks : /\ pc' = [pc EXCEPT ![u] = "copyLock"]
                                  /\ idx' = [idx EXCEPT ![u] = h.sig]
      BY <2>3 DEF Timer!HandlerReturn, Timer!Go
    <3>3. Aside
      BY <3>1, <3>2 DEF Aside, TimerInv, TimerShape
    <3>. QED
      BY <2>1, <3>3, AsideKeeps
  <2>. QED
    BY <1>3, <2>2, <2>3 DEF Timer!HandlerStep
<1>. QED
  BY <1>1, <1>2, <1>3

\* The steps of a callback thread: if timer1_callback deletes the slot that
\* main is about to arm, that slot is not timer 1's.
LEMMA CallbackKeeps ==
    ASSUME TimerInv, NEW t \in Callbacks, Timer!CallbackStep(t)
    PROVE  TimerInv'
<1> USE Names
<1>1. Fired
  <2>1. pc[t] # "unborn"
    BY DEF Timer!CallbackStep, Timer!CopyLock, Timer!Copy, Timer!Call, Timer!DoneLock,
           Timer!Done, Timer!DeleteLock, Timer!Delete, Timer!At, Timer!Alive
  <2>. QED
    BY <2>1 DEF TimerInv, NothingFired, Fired
<1>2. CASE \/ Timer!CopyLock(t) \/ Timer!Copy(t) \/ Timer!DoneLock(t) \/ Timer!Done(t)
           \/ Timer!DeleteLock(t, "delLock", "del", job[t])
  <2>1. UNCHANGED <<active, armed, cb, stray, idx, h>>
    BY <1>2 DEF Timer!CopyLock, Timer!Copy, Timer!DoneLock, Timer!Done, Timer!DeleteLock,
                Timer!slots, Timer!hist
  <2>2. job' = job \/ job' = [job EXCEPT ![t] = cb[idx[t]]]
    BY <1>2 DEF Timer!CopyLock, Timer!Copy, Timer!DoneLock, Timer!Done, Timer!DeleteLock
  <2>3. \E l \in {"copy", "call", "done", "end", "del"} : pc' = [pc EXCEPT ![t] = l]
    BY <1>2 DEF Timer!CopyLock, Timer!Copy, Timer!DoneLock, Timer!Done, Timer!DeleteLock,
                Timer!Go
  <2>4. Aside
    BY <2>1, <2>2, <2>3 DEF Aside, TimerInv, TimerShape
  <2>. QED
    BY <1>1, <2>4, AsideKeeps
<1>3. CASE Timer!Call(t)
  <2>1. UNCHANGED <<active, armed, cb, stray, idx, h>>
    BY <1>3 DEF Timer!Call, Timer!slots
  <2>2. job' = job \/ \E i : job' = [job EXCEPT ![t] = i]
    BY <1>3 DEF Timer!Call
  <2>3. \E l \in {"doneLock", "delLock"} : pc' = [pc EXCEPT ![t] = l]
    BY <1>3 DEF Timer!Call, Timer!Go
  <2>4. Aside
    BY <2>1, <2>2, <2>3 DEF Aside, TimerInv, TimerShape
  <2>. QED
    BY <1>1, <2>4, AsideKeeps
<1>4. CASE Timer!Delete(t, "del", "doneLock", job[t]) /\ UNCHANGED job
  <2> DEFINE i == job[t]
  <2>1. /\ pc' = [pc EXCEPT ![t] = "doneLock"] /\ UNCHANGED <<cb, idx, h, job>>
        /\ armed' = IF i \in active THEN armed \ {i} ELSE armed
        /\ active' = active \ {i}
        /\ stray' = (stray \/ (t # Main /\ i \in active /\ cb[i] # 1))
    BY <1>4 DEF Timer!Delete, Timer!Go
  <2>2. pc'[Main] = pc[Main] /\ t # Main
    BY <2>1 DEF TimerInv, TimerShape
  <2>3. TimerShape'
    BY <2>1, <2>2 DEF TimerInv, TimerShape
  <2>4. NothingFired'
    BY <1>1, <2>1, <2>2 DEF NothingFired, Fired
  <2>5. Timer!NoOrphanTimer'
    BY <2>1 DEF TimerInv, Timer!NoOrphanTimer
  <2>6. ClaimKept'
    <3> SUFFICES ASSUME ~stray', pc[Main] \in {"found", "armLock", "arm"}, idx[Main] # NoOne
                 PROVE  /\ idx[Main] \in active' /\ idx[Main] \notin armed'
                        /\ cb[idx[Main]] = job[Main]
      BY <2>1, <2>2 DEF ClaimKept
    <3>1. ~stray /\ ~(i \in active /\ cb[i] # 1)
      BY <2>1, <2>2
    <3>2. /\ idx[Main] \in active /\ idx[Main] \notin armed
          /\ cb[idx[Main]] = job[Main]
      BY <3>1 DEF TimerInv, ClaimKept
    <3>3. job[Main] # 1
      BY <1>1 DEF Fired
    <3>4. i # idx[Main]
      BY <3>1, <3>2, <3>3
    <3>. QED
      BY <2>1, <3>2, <3>4
  <2>. QED
    BY <2>3, <2>4, <2>5, <2>6 DEF TimerInv
<1>. QED
  BY <1>2, <1>3, <1>4 DEF Timer!CallbackStep

\* The steps of main.
LEMMA MainKeeps ==
    ASSUME TimerInv, Timer!MainStep
    PROVE  TimerInv'
<1> USE Names
<1> USE DEF Timer!Go, Timer!At
<1>1. /\ DOMAIN pc = Threads /\ DOMAIN job = Threads /\ DOMAIN idx = Threads
      /\ DOMAIN cb = Slots /\ job[Main] \in Nat \ {0}
  BY DEF TimerInv, TimerShape
<1>2. \A t \in Callbacks : t # Main
  OBVIOUS
<1>3. CASE Timer!CreateLock \/ Timer!FindLock
  <2>1. /\ \/ pc[Main] = "create" /\ pc' = [pc EXCEPT ![Main] = "findLock"]
              /\ idx' = [idx EXCEPT ![Main] = 0]
           \/ pc[Main] = "findLock" /\ pc' = [pc EXCEPT ![Main] = "find"] /\ idx' = idx
        /\ UNCHANGED <<active, armed, cb, stray, pending, h, job>>
    BY <1>3 DEF Timer!CreateLock, Timer!FindLock, Timer!slots, Timer!hist
  <2>2. 0 \in Slots
    BY TimerAssumption DEF Timer!Slots
  <2>3. TimerShape'
    BY <1>1, <2>1, <2>2 DEF TimerInv, TimerShape
  <2>4. NothingFired' /\ ClaimKept' /\ Timer!NoOrphanTimer'
    BY <1>1, <1>2, <2>1 DEF TimerInv, NothingFired, ClaimKept, Timer!NoOrphanTimer
  <2>. QED
    BY <2>3, <2>4 DEF TimerInv
<1>4. CASE Timer!Find
  <2> DEFINE i == idx[Main]
  <2>1. pc[Main] = "find" /\ i \in Slots /\ UNCHANGED <<armed, stray, pending, h, job>>
    BY <1>4 DEF Timer!Find, Timer!hist, TimerInv, TimerShape
  <2>2. CASE i \notin active
    <3>1. /\ active' = active \cup {i} /\ cb' = [cb EXCEPT ![i] = job[Main]]
          /\ pc' = [pc EXCEPT ![Main] = "found"] /\ idx' = idx
      BY <1>4, <2>2 DEF Timer!Find
    <3>2. TimerShape'
      BY <1>1, <2>1, <3>1 DEF TimerInv, TimerShape
    <3>3. NothingFired' /\ Timer!NoOrphanTimer'
      BY <1>1, <1>2, <2>1, <3>1 DEF TimerInv, NothingFired, Timer!NoOrphanTimer
    <3>4. ~stray => i \notin armed
      BY <2>2 DEF TimerInv, Timer!NoOrphanTimer
    <3>5. ClaimKept'
      BY <1>1, <2>1, <3>1, <3>4 DEF ClaimKept
    <3>. QED
      BY <3>2, <3>3, <3>5 DEF TimerInv
  <2>3. CASE i \in active
    <3>1. /\ idx' = [idx EXCEPT ![Main] = IF i + 1 < MAX_TIMERS THEN i + 1 ELSE NoOne]
          /\ pc' = [pc EXCEPT ![Main] = IF i + 1 < MAX_TIMERS THEN "findLock" ELSE "found"]
          /\ UNCHANGED <<active, cb>>
      BY <1>4, <2>3 DEF Timer!Find
    <3>2. i + 1 < MAX_TIMERS => i + 1 \in Slots
      BY <2>1, TimerAssumption DEF Timer!Slots
    <3>3. TimerShape'
      BY <1>1, <2>1, <3>1, <3>2 DEF TimerInv, TimerShape
    <3>4. NothingFired' /\ Timer!NoOrphanTimer' /\ ClaimKept'
      BY <1>1, <1>2, <2>1, <3>1 DEF TimerInv, NothingFired, Timer!NoOrphanTimer, ClaimKept
    <3>. QED
      BY <3>3, <3>4 DEF TimerInv
  <2>. QED
    BY <2>2, <2>3
<1>5. CASE Timer!Found \/ Timer!ArmLock
  <2>1. /\ \/ /\ pc[Main] = "found"
              /\ pc' = [pc EXCEPT ![Main] = IF idx[Main] = NoOne THEN "store" ELSE "armLock"]
           \/ pc[Main] = "armLock" /\ pc' = [pc EXCEPT ![Main] = "arm"]
        /\ UNCHANGED <<active, armed, cb, stray, pending, h, job, idx>>
    BY <1>5 DEF Timer!Found, Timer!ArmLock, Timer!slots, Timer!hist
  <2>2. pc[Main] = "found" => idx[Main] \in Slots \cup {NoOne}
    BY DEF TimerInv, TimerShape
  <2>3. TimerShape'
    BY <1>1, <2>1, <2>2 DEF TimerInv, TimerShape
  <2>4. NothingFired' /\ ClaimKept' /\ Timer!NoOrphanTimer'
    BY <1>1, <1>2, <2>1 DEF TimerInv, NothingFired, ClaimKept, Timer!NoOrphanTimer
  <2>. QED
    BY <2>3, <2>4 DEF TimerInv
<1>6. CASE Timer!Arm
  <2>1. /\ pc[Main] = "arm" /\ UNCHANGED <<cb, pending, h, job, stray>>
        /\ \/ /\ armed' = armed \cup {idx[Main]} /\ pc' = [pc EXCEPT ![Main] = "armed"]
              /\ UNCHANGED <<active, idx>>
           \/ /\ active' = active \ {idx[Main]} /\ pc' = [pc EXCEPT ![Main] = "store"]
              /\ idx' = [idx EXCEPT ![Main] = NoOne] /\ UNCHANGED armed
    BY <1>6 DEF Timer!Arm, Timer!hist
  <2>2. idx[Main] \in Slots
    BY <2>1 DEF TimerInv, TimerShape
  <2>3. ~stray => idx[Main] \in active /\ idx[Main] \notin armed
    BY <2>1, <2>2 DEF TimerInv, ClaimKept
  <2>4. TimerShape' /\ NothingFired' /\ ClaimKept'
    BY <1>1, <2>1 DEF TimerInv, TimerShape, NothingFired, ClaimKept
  <2>5. Timer!NoOrphanTimer'
    BY <2>1, <2>3 DEF TimerInv, Timer!NoOrphanTimer
  <2>. QED
    BY <2>4, <2>5 DEF TimerInv
<1>7. CASE Timer!ArmUnlock \/ Timer!StoreId \/ Timer!WakeUp
  <2>1. /\ \E l \in {"store", "sleep", "create", "delLock"} :
             /\ pc' = [pc EXCEPT ![Main] = l]
             /\ l = "create" => job' = [job EXCEPT ![Main] = @ + 1]
        /\ \/ job' = job
           \/ job' = [job EXCEPT ![Main] = @ + 1]
           \/ job' = [job EXCEPT ![Main] = 2]
        /\ UNCHANGED <<active, armed, cb, stray, pending, h, idx>>
    BY <1>7 DEF Timer!ArmUnlock, Timer!StoreId, Timer!WakeUp, Timer!slots, Timer!hist
  <2>2. TimerShape' /\ NothingFired' /\ ClaimKept'
    BY <1>1, <2>1 DEF TimerInv, TimerShape, NothingFired, ClaimKept
  <2>3. Timer!NoOrphanTimer'
    BY <2>1 DEF TimerInv, Timer!NoOrphanTimer
  <2>. QED
    BY <2>2, <2>3 DEF TimerInv
<1>8. CASE Timer!MainDelete \/ Timer!FreeMessage \/ Timer!CleanLock \/ Timer!Cleanup
  <2>1. /\ \E l \in {"del", "free", "delLock", "cleanLock", "clean", "exited"} :
             pc' = [pc EXCEPT ![Main] = l]
        /\ job' = job \/ job' = [job EXCEPT ![Main] = job[Main] + 1]
        /\ UNCHANGED <<cb, h, idx>>
    BY <1>8 DEF Timer!MainDelete, Timer!DeleteLock, Timer!Delete, Timer!AfterDelete,
                Timer!FreeMessage, Timer!CleanLock,
                Timer!Cleanup, Timer!slots, Timer!hist
  <2>2. TimerShape' /\ NothingFired' /\ ClaimKept'
    BY <1>1, <2>1 DEF TimerInv, TimerShape, NothingFired, ClaimKept
  <2>3. CASE Timer!MainDelete
    <3>1. \/ UNCHANGED <<active, armed, stray>>
          \/ \E i : /\ armed' = IF i \in active THEN armed \ {i} ELSE armed
                    /\ active' = active \ {i}
                    /\ stray' = (stray \/ (Main # Main /\ i \in active /\ cb[i] # 1))
      BY <2>3 DEF Timer!MainDelete, Timer!DeleteLock, Timer!Delete, Timer!slots, Timer!hist
    <3>2. Timer!NoOrphanTimer'
      BY <3>1 DEF TimerInv, Timer!NoOrphanTimer
    <3>. QED
      BY <2>2, <3>2 DEF TimerInv
  <2>4. CASE Timer!FreeMessage \/ Timer!CleanLock \/ Timer!Cleanup
    <3>1. Timer!NoOrphanTimer'
      BY <2>4 DEF Timer!FreeMessage, Timer!CleanLock, Timer!Cleanup, Timer!slots, Timer!hist,
                  TimerInv, Timer!NoOrphanTimer
    <3>. QED
      BY <2>2, <3>1 DEF TimerInv
  <2>. QED
    BY <1>8, <2>3, <2>4
<1>. QED
  BY <1>3, <1>4, <1>5, <1>6, <1>7, <1>8 DEF Timer!MainStep

\* An armed POSIX timer belongs to an active slot, for every number of slots,
\* timers, threads and expiries, as long as no timer1_callback has deleted a
\* timer that is not timer 1: its signals find their slot, and
\* timer_system_cleanup deletes it.
THEOREM TimersKeepTheirSlots == AllSpec => []NoOrphanTimer
<1>1. AllInit => TimerInv
  <2> SUFFICES ASSUME Timer!Init PROVE TimerInv
    BY DEF AllInit
  <2>1. TimerShape
    BY Names, TimerAssumption DEF Timer!Init, TimerShape
  <2>2. NothingFired /\ ClaimKept /\ Timer!NoOrphanTimer
    BY Names DEF Timer!Init, NothingFired, ClaimKept, Timer!NoOrphanTimer, Timer!NoHandler
  <2>. QED
    BY <2>1, <2>2 DEF TimerInv
<1>2. ASSUME TimerInv, [AllNext]_allVars
      PROVE  TimerInv'
  <2>1. ASSUME UNCHANGED timerVars
        PROVE  TimerInv'
    BY <1>2, <2>1 DEF TimerInv, TimerShape, NothingFired, ClaimKept, Timer!NoOrphanTimer,
                      timerVars
  <2>2. Timer!Next \/ UNCHANGED timerVars
    BY <1>2 DEF AllNext, allVars, InEventfd, InTimer
  <2>. QED
    BY <1>2, <2>1, <2>2, HandlerKeeps, CallbackKeeps, MainKeeps DEF Timer!Next
<1>3. TimerInv => NoOrphanTimer
  BY DEF TimerInv, NoOrphanTimer
<1>. QED
  BY <1>1, <1>2, <1>3, PTL DEF AllSpec
=============================================================================
