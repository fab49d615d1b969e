---------------------------- MODULE TimerCallback ----------------------------
(***************************************************************************)
(* The timer system of lesson_12/01_timer_callback: POSIX timers whose     *)
(* expiry raises SIGRTMIN, a signal handler that starts a detached thread  *)
(* for the timer's callback, and a main that creates the timers, sleeps,   *)
(* deletes them and cleans up (01_timer_callback.c, 29-295).               *)
(*                                                                         *)
(* The callback threads are created in the handler and inherit its signal  *)
(* mask, with SIGRTMIN blocked, so that the signal always interrupts main: *)
(* at any point, also while main holds timers_mutex or a timers[i].mutex,  *)
(* and main goes on only when the handler returns.  A timer has at most    *)
(* one signal queued.  Time is not modelled: a timer may expire whenever   *)
(* it is armed, at most MaxFire times in all.                              *)
(***************************************************************************)
EXTENDS TimerConstants, FiniteSets

Slots == 0 .. MAX_TIMERS - 1
Main == 0
Callbacks == 1 .. MaxThreads
Threads == Callbacks \cup {Main}
NoOne == -1
Unset == -2   \* *timer1_id before main stored to it

VARIABLES active, running, cb,  \* fields of timers[i]; cb: whose callback
          armed,      \* slots whose POSIX timer exists and runs
          pending,    \* slots whose signal is queued
          G, M,       \* holders of timers_mutex and of timers[i].mutex
          pc, idx,    \* where a thread is; the slot it works on
          job,        \* main: the timer at hand; callback thread: its copy
          h,          \* the handler on top of main
          ids,        \* what main stored for each timer it created
          count,      \* executions of timer1_callback
          freed,      \* timer2_message was freed
          cut,        \* sleep(15) was interrupted
          stray,      \* timer1_callback deleted a timer that is not timer 1
          fired       \* expiries so far

slots == <<active, running, cb, armed>>
hist == <<ids, count, freed, cut, stray>>
vars == <<slots, pending, G, M, pc, idx, job, h, hist, fired>>

NoHandler == [at |-> "none", sig |-> 0, i |-> 0, hit |-> FALSE]

TypeOK == /\ active \subseteq Slots /\ running \subseteq Slots /\ armed \subseteq Slots
          /\ pending \subseteq Slots
          /\ cb \in [Slots -> 0 .. NumTimers]
          /\ G \in Threads \cup {NoOne} /\ M \in [Slots -> Threads \cup {NoOne}]
          /\ idx \in [Threads -> Slots \cup {MAX_TIMERS, NoOne}]
          /\ job \in [Threads -> 0 .. NumTimers + 1]
          /\ h \in [at : {"none", "lockG", "scan", "unlockG", "spawn"},
                    sig : Slots, i : Slots \cup {MAX_TIMERS}, hit : BOOLEAN]
          /\ ids \in [1 .. NumTimers -> Slots \cup {NoOne, Unset}]
          /\ count \in 0 .. MaxThreads /\ fired \in 0 .. MaxFire
          /\ freed \in BOOLEAN /\ cut \in BOOLEAN /\ stray \in BOOLEAN

\* timer_system_init, before the first timer exists.
Init == /\ active = {} /\ running = {} /\ armed = {} /\ pending = {}
        /\ cb = [i \in Slots |-> 0]
        /\ G = NoOne /\ M = [i \in Slots |-> NoOne]
        /\ pc = [t \in Threads |-> IF t = Main THEN "create" ELSE "unborn"]
        /\ idx = [t \in Threads |-> 0]
        /\ job = [t \in Threads |-> IF t = Main THEN 1 ELSE 0]
        /\ h = NoHandler
        /\ ids = [k \in 1 .. NumTimers |-> Unset]
        /\ count = 0 /\ freed = FALSE /\ cut = FALSE /\ stray = FALSE /\ fired = 0

Exited == pc[Main] = "exited"
Alive(t) == ~Exited /\ pc[t] \notin {"unborn", "end"}
At(t, label) == Alive(t) /\ pc[t] = label /\ (t = Main => h.at = "none")
Go(t, label) == pc' = [pc EXCEPT ![t] = label]
Take(t, i) == M[i] = NoOne /\ M' = [M EXCEPT ![i] = t]
Give(i) == M' = [M EXCEPT ![i] = NoOne]
-----------------------------------------------------------------------------
\* An armed timer expires; a second expiry of a queued signal is an overrun.
Expire(i) == /\ ~Exited /\ i \in armed /\ fired < MaxFire
             /\ fired' = fired + 1
             /\ pending' = pending \cup {i}
             /\ UNCHANGED <<slots, G, M, pc, idx, job, h, hist>>

\* SIGRTMIN interrupts main, unless it is in the handler already.
Deliver(i) == /\ ~Exited /\ h.at = "none" /\ i \in pending
              /\ pending' = pending \ {i}
              /\ h' = [NoHandler EXCEPT !.at = "lockG", !.sig = i]
              /\ cut' = (cut \/ pc[Main] = "sleep")
              /\ UNCHANGED <<slots, G, M, pc, idx, job, ids, count, freed, stray, fired>>

\* timer_handler: timers_mutex, then each timers[i].mutex in turn.  The slot
\* is remembered whether or not a thread is running for it already.
HandlerLock == /\ h.at = "lockG" /\ G = NoOne
               /\ G' = Main
               /\ h' = [h EXCEPT !.at = "scan"]
               /\ UNCHANGED <<slots, pending, M, pc, idx, job, hist, fired>>

HandlerScan ==
    LET i == h.i
        match == i \in active /\ h.sig = i
        first == match /\ i \notin running
    IN /\ h.at = "scan" /\ M[i] = NoOne
       /\ running' = IF first THEN running \cup {i} ELSE running
       /\ h' = [h EXCEPT !.hit = @ \/ match,
                         !.i = i + 1,
                         !.at = IF first \/ i + 1 = MAX_TIMERS THEN "unlockG" ELSE "scan"]
       /\ UNCHANGED <<active, cb, armed, pending, G, M, pc, idx, job, hist, fired>>

HandlerUnlock == /\ h.at = "unlockG"
                 /\ G' = NoOne
                 /\ h' = [h EXCEPT !.at = "spawn"]
                 /\ UNCHANGED <<slots, pending, M, pc, idx, job, hist, fired>>

\* A thread for the callback, if a slot was found, malloc and pthread_create
\* succeeded and the bound on threads is not reached.
HandlerReturn ==
    /\ h.at = "spawn"
    /\ h' = NoHandler
    /\ \/ /\ h.hit
          /\ \E u \in Callbacks :
               /\ pc[u] = "unborn" /\ \A v \in 1 .. u - 1 : pc[v] # "unborn"
               /\ Go(u, "copyLock")
               /\ idx' = [idx EXCEPT ![u] = h.sig]
       \/ UNCHANGED <<pc, idx>>
    /\ UNCHANGED <<slots, pending, G, M, job, hist, fired>>
-----------------------------------------------------------------------------
\* timer_thread: copy the slot under its mutex, call the callback with the
\* copied user_data, then clear thread_running.
CopyLock(t) == /\ At(t, "copyLock") /\ Take(t, idx[t]) /\ Go(t, "copy")
               /\ UNCHANGED <<slots, pending, G, idx, job, h, hist, fired>>

Copy(t) == /\ At(t, "copy") /\ Give(idx[t]) /\ Go(t, "call")
           /\ job' = [job EXCEPT ![t] = cb[idx[t]]]
           /\ UNCHANGED <<slots, pending, G, idx, h, hist, fired>>

\* timer1_callback counts and stops its timer after StopAfter executions; it
\* may run before main stored the timer's id.  The others only print.
Call(t) ==
    /\ At(t, "call")
    /\ count' = IF job[t] = 1 THEN count + 1 ELSE count
    /\ \/ /\ job[t] = 1 /\ count + 1 >= StopAfter
          /\ \E i \in (IF ids[1] = Unset THEN Slots \cup {NoOne} ELSE {ids[1]}) :
               IF i = NoOne THEN Go(t, "doneLock") /\ UNCHANGED job
               ELSE Go(t, "delLock") /\ job' = [job EXCEPT ![t] = i]
       \/ /\ ~(job[t] = 1 /\ count + 1 >= StopAfter)
          /\ Go(t, "doneLock") /\ UNCHANGED job
    /\ UNCHANGED <<slots, pending, G, M, idx, h, ids, freed, cut, stray, fired>>

DoneLock(t) == /\ At(t, "doneLock") /\ Take(t, idx[t]) /\ Go(t, "done")
               /\ UNCHANGED <<slots, pending, G, idx, job, h, hist, fired>>

Done(t) == /\ At(t, "done") /\ Give(idx[t]) /\ Go(t, "end")
           /\ running' = running \ {idx[t]}
           /\ UNCHANGED <<active, cb, armed, pending, G, idx, job, h, hist, fired>>

\* timer_delete_with_callback(i), called by a thread that then goes to next:
\* the slot's mutex, then, if it is active, the timer is disarmed and deleted.
DeleteLock(t, from, to, i) ==
    /\ At(t, from) /\ Take(t, i) /\ Go(t, to)
    /\ UNCHANGED <<slots, pending, G, idx, job, h, hist, fired>>

\* Mutant: the slot is released but its POSIX timer is not deleted.
DeleteSlotOnly(t, from, next, i) ==
    /\ At(t, from) /\ Give(i) /\ Go(t, next)
    /\ active' = active \ {i}
    /\ stray' = (stray \/ (t # Main /\ i \in active /\ cb[i] # 1))
    /\ UNCHANGED <<running, cb, armed, pending, G, idx, h, ids, count, freed, cut, fired>>

Delete(t, from, next, i) ==
    /\ At(t, from) /\ Give(i) /\ Go(t, next)
    /\ armed' = IF i \in active THEN armed \ {i} ELSE armed
    /\ active' = active \ {i}
    /\ stray' = (stray \/ (t # Main /\ i \in active /\ cb[i] # 1))
    /\ UNCHANGED <<running, cb, pending, G, idx, h, ids, count, freed, cut, fired>>

CallbackStep(t) == \/ CopyLock(t) \/ Copy(t) \/ Call(t) \/ DoneLock(t) \/ Done(t)
                   \/ DeleteLock(t, "delLock", "del", job[t])
                   \/ Delete(t, "del", "doneLock", job[t]) /\ UNCHANGED job
-----------------------------------------------------------------------------
\* timer_create_with_callback in main: find a slot under timers_mutex.
CreateLock == /\ At(Main, "create") /\ job[Main] <= NumTimers /\ G = NoOne
              /\ G' = Main /\ Go(Main, "findLock")
              /\ idx' = [idx EXCEPT ![Main] = 0]
              /\ UNCHANGED <<slots, pending, M, job, h, hist, fired>>

FindLock == /\ At(Main, "findLock") /\ Take(Main, idx[Main]) /\ Go(Main, "find")
            /\ UNCHANGED <<slots, pending, G, idx, job, h, hist, fired>>

Find == LET i == idx[Main]
        IN /\ At(Main, "find") /\ Give(i)
           /\ IF i \notin active
                THEN /\ active' = active \cup {i}
                     /\ cb' = [cb EXCEPT ![i] = job[Main]]
                     /\ Go(Main, "found") /\ UNCHANGED idx
                ELSE /\ idx' = [idx EXCEPT ![Main] = IF i + 1 < MAX_TIMERS THEN i + 1 ELSE NoOne]
                     /\ Go(Main, IF i + 1 < MAX_TIMERS THEN "findLock" ELSE "found")
                     /\ UNCHANGED <<active, cb>>
           /\ UNCHANGED <<running, armed, pending, G, job, h, hist, fired>>

Found == /\ At(Main, "found")
         /\ G' = NoOne
         /\ Go(Main, IF idx[Main] = NoOne THEN "store" ELSE "armLock")
         /\ UNCHANGED <<slots, pending, M, idx, job, h, hist, fired>>

ArmLock == /\ At(Main, "armLock") /\ Take(Main, idx[Main]) /\ Go(Main, "arm")
           /\ UNCHANGED <<slots, pending, G, idx, job, h, hist, fired>>

\* Mutant: the error path returns with the slot's mutex locked.
ArmFailsLocked ==
    /\ At(Main, "arm")
    /\ \/ armed' = armed \cup {idx[Main]} /\ Go(Main, "armed") /\ UNCHANGED <<active, idx>>
       \/ /\ active' = active \ {idx[Main]}
          /\ idx' = [idx EXCEPT ![Main] = NoOne]
          /\ Go(Main, "store") /\ UNCHANGED armed
    /\ UNCHANGED <<running, cb, pending, G, M, job, h, hist, fired>>

\* timer_create and timer_settime, or the failure of one of them.
Arm == /\ At(Main, "arm")
       /\ \/ armed' = armed \cup {idx[Main]} /\ Go(Main, "armed") /\ UNCHANGED <<active, idx, M>>
          \/ /\ active' = active \ {idx[Main]} /\ Give(idx[Main])
             /\ idx' = [idx EXCEPT ![Main] = NoOne]
             /\ Go(Main, "store") /\ UNCHANGED armed
       /\ UNCHANGED <<running, cb, pending, G, job, h, hist, fired>>

ArmUnlock == /\ At(Main, "armed") /\ Give(idx[Main]) /\ Go(Main, "store")
             /\ UNCHANGED <<slots, pending, G, idx, job, h, hist, fired>>

\* main stores the id that was returned and goes on to the next timer.
StoreId == /\ At(Main, "store")
           /\ ids' = [ids EXCEPT ![job[Main]] = idx[Main]]
           /\ job' = [job EXCEPT ![Main] = @ + 1]
           /\ Go(Main, IF job[Main] = NumTimers THEN "sleep" ELSE "create")
           /\ UNCHANGED <<slots, pending, G, M, idx, h, count, freed, cut, stray, fired>>

\* sleep(15) returns: the time is over, or a handler interrupted it.  Then
\* timers 2, 3, ... are deleted.
WakeUp == /\ At(Main, "sleep")
          /\ job' = [job EXCEPT ![Main] = 2]
          /\ Go(Main, "delLock")
          /\ UNCHANGED <<slots, pending, G, M, idx, h, hist, fired>>

AfterDelete == IF job[Main] = NumTimers THEN "free" ELSE "delLock"

MainDelete ==
    LET k == job[Main]
    IN \/ k \in 2 .. NumTimers /\ ids[k] # NoOne /\ DeleteLock(Main, "delLock", "del", ids[k])
       \/ k \in 2 .. NumTimers /\ ids[k] # NoOne /\ Delete(Main, "del", AfterDelete, ids[k])
                      /\ job' = [job EXCEPT ![Main] = k + 1]
       \/ /\ At(Main, "delLock") /\ ids[k] = NoOne   \* returns -1 at once
          /\ Go(Main, AfterDelete) /\ job' = [job EXCEPT ![Main] = k + 1]
          /\ UNCHANGED <<slots, pending, G, M, idx, h, hist, fired>>

FreeMessage == /\ At(Main, "free") /\ freed' = TRUE /\ Go(Main, "cleanLock")
               /\ UNCHANGED <<slots, pending, G, M, idx, job, h, ids, count, cut, stray, fired>>

\* timer_system_cleanup: under timers_mutex only, not the slots' mutexes.
CleanLock == /\ At(Main, "cleanLock") /\ G = NoOne
             /\ G' = Main /\ Go(Main, "clean")
             /\ UNCHANGED <<slots, pending, M, idx, job, h, hist, fired>>

Cleanup == /\ At(Main, "clean")
           /\ active' = {} /\ armed' = {}
           /\ G' = NoOne /\ Go(Main, "exited")
           /\ UNCHANGED <<running, cb, pending, M, idx, job, h, hist, fired>>

MainStep == \/ CreateLock \/ FindLock \/ Find \/ Found \/ ArmLock \/ Arm \/ ArmUnlock
            \/ StoreId \/ WakeUp \/ MainDelete \/ FreeMessage \/ CleanLock \/ Cleanup

HandlerStep == /\ ~Exited
               /\ \/ HandlerLock \/ HandlerScan \/ HandlerUnlock \/ HandlerReturn

Next == \/ \E i \in Slots : Expire(i) \/ Deliver(i)
        \/ HandlerStep
        \/ \E t \in Callbacks : CallbackStep(t)
        \/ MainStep

\* Threads and the handler run; timers need not expire.
Spec == /\ Init /\ [][Next]_vars
        /\ WF_vars(MainStep) /\ WF_vars(HandlerStep)
        /\ \A t \in Callbacks : WF_vars(CallbackStep(t))
-----------------------------------------------------------------------------
\* The handler interrupted main while main held a mutex.
HandlerOverLock == /\ h.at # "none"
                   /\ \/ \E i \in Slots : M[i] = Main
                      \/ G = Main /\ h.at = "lockG"

\* A POSIX timer never outlives its slot: whatever the order of creation,
\* deletion by main and deletion from the callback, an armed timer belongs
\* to an active slot, so that its signals are not ignored and
\* timer_system_cleanup deletes it.  Only a timer1_callback that
\* deletes another timer's slot can break this.
NoOrphanTimer == ~stray => armed \subseteq active

\* The lock order (timers_mutex, then a slot's mutex) is kept everywhere: the
\* program ends unless the handler interrupted main while it held a mutex.
EndsOrHandlerOverLock == <>(Exited \/ HandlerOverLock)

\* The callback threads that work for a slot.
Workers(i) == {t \in Callbacks : idx[t] = i /\ pc[t] \notin {"unborn", "end"}}

\* The comment in timer_handler: no new thread while one is already running.
OneThreadPerTimer == \A i \in Slots : Cardinality(Workers(i)) <= 1
=============================================================================
