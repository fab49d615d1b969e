---------------------------- MODULE EventPrograms ----------------------------
(***************************************************************************)
(* The eventfd broadcast and the timer system, one behaviour of one of     *)
(* them at a time, as in SmallPrograms: program names it, and the state of *)
(* the other stays as it is. In both a thread is told of an event by a     *)
(* counter or a signal that may be merged with the next one.               *)
(***************************************************************************)
EXTENDS EventfdBroadcast, TimerConstants

VARIABLES program,
          active, running, cb, armed, pending, G, M, pc, idx, job, h,
          ids, count, freed, cut, stray, fired

Timer == INSTANCE TimerCallback

timerVars == <<active, running, cb, armed, pending, G, M, pc, idx, job, h,
               ids, count, freed, cut, stray, fired>>
allVars == <<program, vars, timerVars>>

AllInit == program \in {"eventfd", "timer"} /\ Init /\ Timer!Init

\* A step of one program.
InEventfd(step) == program = "eventfd" /\ step /\ UNCHANGED <<program, timerVars>>
InTimer(step) == program = "timer" /\ step /\ UNCHANGED <<program, vars>>

AllNext == InEventfd(Next) \/ InTimer(Timer!Next)

\* The fairness of each program's own specification.
AllSpec == /\ AllInit /\ [][AllNext]_allVars
           /\ WF_allVars(InEventfd(T1Step))
           /\ \A r \in Receivers : WF_allVars(InEventfd(RxStep(r)))
           /\ WF_allVars(InTimer(Timer!MainStep)) /\ WF_allVars(InTimer(Timer!HandlerStep))
           /\ \A t \in Timer!Callbacks : WF_allVars(InTimer(Timer!CallbackStep(t)))
-----------------------------------------------------------------------------
\* Timers: an armed timer belongs to an active slot, unless timer1_callback has
\* deleted another timer's slot.
NoOrphanTimer == Timer!NoOrphanTimer

\* Timers: the program ends unless the handler interrupted main while it held a
\* mutex.
EndsOrHandlerOverLock == program = "timer" ~> Timer!Exited \/ Timer!HandlerOverLock
=============================================================================
