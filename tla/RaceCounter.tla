----------------------------- MODULE RaceCounter -----------------------------
(***************************************************************************)
(* The race demonstration of lesson_9/06_race: two threads add to counter  *)
(* without a lock, then two threads add to safe_counter under              *)
(* counter_mutex (06_race.c). An increment is a load and a store, since    *)
(* the variables are volatile.                                             *)
(***************************************************************************)
EXTENDS Naturals, FiniteSets

CONSTANT iterations   \* increments of each thread (10000000 in the code)

Threads == {1, 2}
Phases == {"race", "safe"}
NoOne == 0

VARIABLES phase,     \* which pair of threads main runs
          maker,     \* where main is
          thread, n, \* where each thread is, and its loop index
          tmp,       \* the value a thread loaded
          total,     \* counter and safe_counter
          mutex,     \* the holder of counter_mutex
          created    \* the threads that pthread_create started, per phase

vars == <<phase, maker, thread, n, tmp, total, mutex, created>>

MainPc == ({"create", "join"} \X Threads) \cup {<<"end", 0>>, <<"crash", 0>>}

TypeOK == /\ phase \in Phases /\ maker \in MainPc
          /\ thread \in [Threads -> {"none", "loop", "load", "store", "unlock", "end"}]
          /\ n \in [Threads -> 0 .. iterations]
          /\ tmp \in [Threads -> 0 .. 2 * iterations]
          /\ total \in [Phases -> 0 .. 2 * iterations]
          /\ mutex \in Threads \cup {NoOne}
          /\ created \in [Phases -> SUBSET Threads]

Init == /\ phase = "race" /\ maker = <<"create", 1>>
        /\ thread = [t \in Threads |-> "none"]
        /\ n = [t \in Threads |-> 0] /\ tmp = [t \in Threads |-> 0]
        /\ total = [p \in Phases |-> 0]
        /\ mutex = NoOne
        /\ created = [p \in Phases |-> {}]

Running == maker \notin {<<"end", 0>>, <<"crash", 0>>}
-----------------------------------------------------------------------------
AfterCreate(t) == maker' = IF t = 1 THEN <<"create", 2>> ELSE <<"join", 1>>

\* pthread_create, whose result main does not look at.
CreateThread(t) ==
    /\ maker = <<"create", t>> /\ AfterCreate(t)
    /\ \/ /\ thread' = [thread EXCEPT ![t] = "loop"] /\ n' = [n EXCEPT ![t] = 0]
          /\ created' = [created EXCEPT ![phase] = @ \cup {t}]
       \/ UNCHANGED <<thread, n, created>>
    /\ UNCHANGED <<phase, tmp, total, mutex>>

\* After its second join main prints the result of the phase; after the race it
\* resets safe_counter and creates the second pair. An id that was not set, or
\* that was joined before, makes pthread_join fail or crash.
JoinThread(t) ==
    /\ maker = <<"join", t>>
    /\ t \in created[phase] => thread[t] = "end"
    /\ \/ /\ maker' = CASE t = 1 -> <<"join", 2>>
                        [] t = 2 /\ phase = "race" -> <<"create", 1>>
                        [] OTHER -> <<"end", 0>>
          /\ phase' = IF t = 2 THEN "safe" ELSE phase
          /\ total' = IF t = 2 /\ phase = "race" THEN [total EXCEPT !["safe"] = 0] ELSE total
       \/ t \notin created[phase] /\ maker' = <<"crash", 0>> /\ UNCHANGED <<phase, total>>
    /\ UNCHANGED <<thread, n, tmp, mutex, created>>

MainStep == \E t \in Threads : CreateThread(t) \/ JoinThread(t)
-----------------------------------------------------------------------------
Go(t, from, to) == Running /\ thread[t] = from /\ thread' = [thread EXCEPT ![t] = to]

\* Mutant: increment_counter_safe does not lock.
EnterUnlocked(t) == /\ Go(t, "loop", "load") /\ n[t] < iterations
                    /\ UNCHANGED <<phase, maker, n, tmp, total, mutex, created>>

\* The next round of the loop; increment_counter_safe locks the mutex first.
Enter(t) == /\ Go(t, "loop", "load") /\ n[t] < iterations
            /\ \/ phase = "race" /\ UNCHANGED mutex
               \/ phase = "safe" /\ mutex = NoOne /\ mutex' = t
            /\ UNCHANGED <<phase, maker, n, tmp, total, created>>

Load(t) == /\ Go(t, "load", "store")
           /\ tmp' = [tmp EXCEPT ![t] = total[phase]]
           /\ UNCHANGED <<phase, maker, n, total, mutex, created>>

Store(t) == /\ Go(t, "store", "unlock")
            /\ total' = [total EXCEPT ![phase] = tmp[t] + 1]
            /\ UNCHANGED <<phase, maker, n, tmp, mutex, created>>

\* pthread_mutex_unlock in the safe function, and i++ in both.
EndOfRound(t) == /\ Go(t, "unlock", "loop")
                 /\ n' = [n EXCEPT ![t] = @ + 1]
                 /\ mutex' = IF phase = "safe" THEN NoOne ELSE mutex
                 /\ UNCHANGED <<phase, maker, tmp, total, created>>

Return(t) == /\ Go(t, "loop", "end") /\ n[t] = iterations
             /\ UNCHANGED <<phase, maker, n, tmp, total, mutex, created>>

ThreadStep(t) == Enter(t) \/ Load(t) \/ Store(t) \/ EndOfRound(t) \/ Return(t)

Next == MainStep \/ \E t \in Threads : ThreadStep(t)

Spec == Init /\ [][Next]_vars
-----------------------------------------------------------------------------
Full(p) == Cardinality(created[p]) * iterations

\* What main prints at its end: with the mutex no increment is missing; without
\* it no increment is counted twice, and of two threads that interfere as badly
\* as they can two increments are left, not fewer.
CountsAtEnd ==
    maker = <<"end", 0>> =>
      /\ total["safe"] = Full("safe")
      /\ total["race"] <= Full("race")
      /\ total["race"] >= IF created["race"] = Threads /\ iterations > 2 THEN 2
                          ELSE IF created["race"] = Threads THEN iterations ELSE Full("race")
=============================================================================
