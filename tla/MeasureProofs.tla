---------------------------- MODULE MeasureProofs ----------------------------
(***************************************************************************)
(* Proofs about the three programs of MorePrograms that measure: the CPU   *)
(* affinity benchmark, the race demonstration and the cyclic test.         *)
(***************************************************************************)
EXTENDS MoreProofs, FiniteSets, FiniteSetTheorems

(* The CPU affinity benchmark *)

\* A word of shared memory, as it was stored last.
Word == {"zero", "one", "number"} \X (Workers \cup {-1}) \X Nat

\* Types of what the workers do, and: after the stop the flag stays zero, and a
\* worker that is in an operation has done none since the stop.
StopInv ==
    /\ shared \in [Words -> Word]
    /\ ops_count \in [Workers -> Nat] /\ atStop \in [Workers -> Nat]
    /\ DOMAIN worker = Workers
    /\ StopIsFinal
    /\ StopsPromptly
    /\ Stopped => \A w \in Workers : worker[w] = "work" => ops_count[w] <= atStop[w]

\* There is at least one worker, since there is at least one CPU.
LEMMA NumWorkers == num_workers \in Nat \ {0}
BY AffinityAssumption DEF num_workers, num_cpus

\* StopInv holds when main starts to create workers.
LEMMA StopInit == ASSUME AllInit PROVE StopInv
<1>1. Init
  BY DEF AllInit
<1>2. test_running \in Words /\ active_workers \in Words
  BY AffinityAssumption DEF test_running, active_workers, Words
<1> QED
  BY <1>1, <1>2 DEF StopInv, Init, StopIsFinal, StopsPromptly, Stopped, One, Zero, Number, Word

\* A store changes the flag only if it is one of the words stored to.
LEMMA StoreType ==
    ASSUME StopInv, NEW S, NEW v \in Word, Store(S, v)
    PROVE  /\ shared' \in [Words -> Word]
           /\ test_running \notin S => shared'[test_running] = shared[test_running]
<1>1. test_running \in Words
  BY AffinityAssumption DEF test_running, Words
<1> QED
  BY <1>1 DEF Store, StopInv

\* With at most one worker more than the arrays have entries, no worker's results
\* reach the word test_running; worker MAX_CPUS + 1 would store its cache misses
\* there.
LEMMA FlagIsApart ==
    ASSUME num_workers <= MAX_CPUS + 1, NEW w \in Workers
    PROVE  test_running \notin UNION {total_ops(w), elapsed_time(w), cpu_temp(w), cache_misses(w)}
BY AffinityAssumption, NumWorkers
   DEF Workers, test_running, total_ops, elapsed_time, cpu_temp, cache_misses

\* Every step of main and of a worker keeps StopInv, if the flag is apart.
LEMMA StopNext ==
    ASSUME StopInv, num_workers <= MAX_CPUS + 1, [AllNext]_allVars
    PROVE  StopInv'
<1>1. CASE UNCHANGED vars
  BY <1>1 DEF vars, StopInv, StopIsFinal, StopsPromptly, Stopped
<1>2. CASE CreateWorker
  <2>1. /\ UNCHANGED <<ops_count, atStop>> /\ main' \in {"create", "monitor"}
        /\ DOMAIN worker' = Workers
    BY <1>2 DEF CreateWorker, StopInv
  <2>2. Number(-1, 0) \in Word
    BY DEF Number, Word
  <2>3. shared' \in [Words -> Word]
    BY <1>2, <2>2, StoreType DEF CreateWorker, StopInv
  <2> QED
    BY <2>1, <2>3 DEF StopInv, StopIsFinal, StopsPromptly, Stopped
<1>3. CASE Monitor \/ JoinWorker \/ JoinGarbage \/ Display \/ SetupFails \/ handle_signal
  BY <1>3 DEF StopInv, StopIsFinal, StopsPromptly, Stopped,
        Monitor, JoinWorker, JoinGarbage, Display, SetupFails, handle_signal, JoinNext
<1>4. CASE StopTest
  BY <1>4, AffinityAssumption DEF StopTest, StopInv, StopIsFinal, StopsPromptly, Stopped, Store,
                                  test_running, Words, Zero, Word
<1>5. ASSUME NEW w \in Workers, WorkerStep(w) PROVE StopInv'
  <2>1. CASE Start(w) \/ Test(w)
    BY <2>1 DEF Start, Test, Go, StopInv, StopIsFinal, StopsPromptly, Stopped
  <2>2. CASE Work(w)
    BY <2>2 DEF Work, Go, StopInv, StopIsFinal, StopsPromptly, Stopped
  <2>3. CASE Report(w) \/ Final(w)
    <3>1. \A k \in Nat : Number(w, k) \in Word /\ Zero \in Word
      BY DEF Number, Zero, Word
    <3>2. \A b \in BOOLEAN : Values(w, b) \subseteq Word
      BY <3>1 DEF Values
    <3>3. PICK v \in Word, S \in {total_ops(w), elapsed_time(w), cpu_temp(w), cache_misses(w)} :
            Store(S, v)
      BY <2>3, <3>1, <3>2 DEF Report, Final, StopInv
    <3>4. test_running \notin S
      BY FlagIsApart
    <3>5. /\ UNCHANGED <<main, ops_count, atStop>> /\ DOMAIN worker' = Workers
          /\ \A u \in Workers : worker'[u] = "work" => worker[u] = "work"
      BY <2>3 DEF Report, Final, Go, StopInv
    <3> QED
      BY <3>3, <3>4, <3>5, StoreType DEF StopInv, StopIsFinal, StopsPromptly, Stopped
  <2> QED
    BY <1>5, <2>1, <2>2, <2>3 DEF WorkerStep
<1> QED
  BY <1>1, <1>2, <1>3, <1>4, <1>5, OneProgramSteps DEF Next, MainStep

\* CPU affinity benchmark: for every number of entries and of CPUs with at most
\* one worker more than entries, no worker does more than one operation after
\* main cleared test_running.
THEOREM StopIsPrompt ==
    ASSUME num_workers <= MAX_CPUS + 1
    PROVE  AllSpec => []StopsPromptly
<1>1. StopInv => StopsPromptly
  BY DEF StopInv
<1> QED
  BY <1>1, StopInit, StopNext, PTL DEF AllSpec
-----------------------------------------------------------------------------
(* The race demonstration *)

\* Where a thread is inside a round of its loop.
Rounding == {"load", "store", "unlock"}
\* The increments that a thread has stored, and those of a phase.
Stored(t) == IF thread[t] = "unlock" THEN n[t] + 1 ELSE n[t]
Increments(p, t) == IF t \in created[p] THEN Stored(t) ELSE 0
AllIncrements(p) == Increments(p, 1) + Increments(p, 2)

\* Types.
RaceType ==
    /\ phase \in Race!Phases /\ maker \in Race!MainPc
    /\ thread \in [Race!Threads -> {"none", "loop", "load", "store", "unlock", "end"}]
    /\ n \in [Race!Threads -> 0 .. increments]
    /\ tmp \in [Race!Threads -> Nat] /\ total \in [Race!Phases -> Nat]
    /\ mutex \in Race!Threads \cup {Race!NoOne}
    /\ created \in [Race!Phases -> SUBSET Race!Threads]

\* How main, the created threads and their loop indices go together.
RaceControl ==
    /\ phase = "race" => created["safe"] = {} /\ total["safe"] = 0
    /\ maker = <<"create", 1>> => created[phase] = {}
    /\ maker = <<"create", 2>> => 2 \notin created[phase]
    /\ maker = <<"join", 2>> /\ 1 \in created[phase] => thread[1] = "end"
    /\ maker = <<"end", 0>> => phase = "safe" /\ \A t \in created["safe"] : thread[t] = "end"
    /\ \A t \in Race!Threads :
         /\ t \notin created[phase] => thread[t] \in {"none", "end"}
         /\ t \in created[phase] => thread[t] # "none"
         /\ thread[t] \in Rounding => n[t] < increments
         /\ thread[t] = "end" /\ t \in created[phase] => n[t] = increments

\* Without the mutex: the counter and every value about to be stored are bounded
\* by the increments stored so far; a thread past its first round has loaded at
\* least 1, so a counter below 2 was stored by a thread's first round; and a
\* thread that is alone loses nothing.
RaceBounds ==
    phase = "race" =>
      /\ total["race"] <= AllIncrements("race")
      /\ \A t \in created["race"] :
           /\ thread[t] = "store" => tmp[t] <= AllIncrements("race")
           /\ Stored(t) >= 1 => total["race"] >= 1
           /\ thread[t] = "store" /\ n[t] >= 1 => tmp[t] >= 1
      /\ total["race"] < 2 /\ created["race"] # {} => \E t \in created["race"] : Stored(t) <= 1
      /\ \A t \in Race!Threads : created["race"] = {t} =>
           /\ total["race"] = Stored(t)
           /\ thread[t] = "store" => tmp[t] = total["race"]

\* What main prints after the race.
RaceResult ==
    /\ total["race"] <= Race!Full("race")
    /\ total["race"] >= IF created["race"] = Race!Threads /\ increments > 2 THEN 2
                        ELSE IF created["race"] = Race!Threads THEN increments
                        ELSE Race!Full("race")

\* With the mutex: its holder is the one thread in a round, and it loaded the
\* counter as it still is, which is the number of increments stored.
SafeExact ==
    /\ phase = "race" => mutex = Race!NoOne
    /\ phase = "safe" =>
         /\ RaceResult
         /\ total["safe"] = AllIncrements("safe")
         /\ \A t \in Race!Threads : mutex = t <=> thread[t] \in Rounding
         /\ \A t \in Race!Threads : thread[t] = "store" => tmp[t] = total["safe"]

RaceInv == RaceType /\ RaceControl /\ RaceBounds /\ SafeExact

\* The number of threads that were created.
LEMMA CardThreads ==
    /\ Cardinality({}) = 0
    /\ Cardinality({1}) = 1 /\ Cardinality({2}) = 1 /\ Cardinality({1, 2}) = 2
<1>1. {1} \cup {2} = {1, 2} /\ 2 \notin {1}
  OBVIOUS
<1>2. Cardinality({1} \cup {2}) = Cardinality({1}) + 1
  <2>1. IsFiniteSet({1})
    BY FS_Singleton
  <2> QED
    BY <1>1, <2>1, FS_AddElement
<1>3. Cardinality({}) = 0 /\ Cardinality({1}) = 1 /\ Cardinality({2}) = 1
  BY FS_EmptySet, FS_Singleton, Zenon
<1> QED
  BY <1>1, <1>2, <1>3

\* RaceInv holds at the start of main.
LEMMA RaceInit == ASSUME AllInit PROVE RaceInv
<1>1. Race!Init
  BY DEF AllInit
<1> USE <1>1, RaceAssumption DEF Race!Init
<1>2. RaceType
  BY DEF RaceType, Race!Phases, Race!MainPc, Race!Threads, Race!NoOne
<1>3. RaceControl
  BY DEF RaceControl, Rounding, Race!Threads, Race!Phases
<1>4. RaceBounds
  BY DEF RaceBounds, Race!Threads, Race!Phases, AllIncrements, Increments
<1>5. SafeExact
  BY DEF SafeExact
<1> QED
  BY <1>2, <1>3, <1>4, <1>5 DEF RaceInv

\* The full count of a phase is the sum over its threads.
LEMMA FullIs ==
    ASSUME NEW p \in Race!Phases, RaceType
    PROVE  Race!Full(p) =   (IF 1 \in created[p] THEN increments ELSE 0)
                          + (IF 2 \in created[p] THEN increments ELSE 0)
<1>1. created[p] \in {{}, {1}, {2}, {1, 2}}
  BY DEF RaceType, Race!Threads
<1>2. Race!Full(p) = Cardinality(created[p]) * increments
  BY Zenon DEF Race!Full, Race!Cardinality, Cardinality
<1>3. CASE created[p] = {}
  BY <1>2, <1>3, CardThreads, RaceAssumption
<1>4. CASE created[p] = {1}
  BY <1>2, <1>4, CardThreads, RaceAssumption
<1>5. CASE created[p] = {2}
  BY <1>2, <1>5, CardThreads, RaceAssumption
<1>6. CASE created[p] = {1, 2}
  BY <1>2, <1>6, CardThreads, RaceAssumption
<1> QED
  BY <1>1, <1>3, <1>4, <1>5, <1>6

\* The second phase does not touch the result of the first.
LEMMA RaceResultKept ==
    ASSUME RaceResult, total'["race"] = total["race"], created'["race"] = created["race"]
    PROVE  RaceResult'
BY DEF RaceResult, Race!Full

\* Every step of main and of a thread keeps RaceInv.
LEMMA RaceNext == ASSUME RaceInv, [AllNext]_allVars PROVE RaceInv'
<1> USE RaceAssumption DEF Race!Threads, Race!Phases, Race!NoOne
<1>1. CASE UNCHANGED raceVars
  BY <1>1
  DEF raceVars, RaceInv, RaceType, RaceControl, RaceBounds, SafeExact, AllIncrements,
      Increments, Stored, RaceResult, Race!Full
<1>2. ASSUME NEW t \in Race!Threads, Race!CreateThread(t) PROVE RaceInv'
  <2> USE <1>2 DEF Race!CreateThread, Race!AfterCreate, RaceInv
  <2>1. RaceType'
    BY DEF RaceType, Race!MainPc
  <2>2. RaceControl'
    BY DEF RaceType, RaceControl, Rounding, Race!MainPc
  <2>3. RaceBounds'
    BY DEF RaceType, RaceControl, Rounding, RaceBounds, AllIncrements, Increments, Stored
  <2>4. SafeExact'
    BY RaceResultKept
    DEF RaceType, RaceControl, Rounding, SafeExact, AllIncrements, Increments, Stored
  <2> QED
    BY <2>1, <2>2, <2>3, <2>4
<1>3. ASSUME NEW t \in Race!Threads, Race!JoinThread(t) PROVE RaceInv'
  <2> USE <1>3 DEF Race!JoinThread, RaceInv
  <2>1. RaceType'
    BY DEF RaceType, Race!MainPc
  <2>2. RaceControl'
    BY DEF RaceType, RaceControl, Rounding, Race!MainPc
  <2>3. RaceBounds'
    BY DEF RaceType, RaceControl, Rounding, RaceBounds, AllIncrements, Increments, Stored
  <2>4. SafeExact'
    <3>1. CASE phase = "safe" \/ phase' = "race"
      BY <3>1, RaceResultKept
      DEF RaceType, RaceControl, Rounding, SafeExact, AllIncrements, Increments, Stored
    <3>2. CASE phase = "race" /\ phase' = "safe"
      <4>1. /\ UNCHANGED <<thread, n, tmp, mutex, created>> /\ total' = [total EXCEPT !["safe"] = 0]
            /\ \A u \in created["race"] : thread[u] = "end" /\ Stored(u) = increments
            /\ \A u \in Race!Threads : thread[u] \notin Rounding
        BY <3>2 DEF RaceType, RaceControl, Rounding, Stored
      <4>2. RaceResult
        BY <3>2, <4>1, FullIs DEF RaceType, RaceBounds, RaceResult, AllIncrements, Increments
      <4>3. RaceResult'
        BY <4>1, <4>2, RaceResultKept DEF RaceType
      <4>4. AllIncrements("safe")' = 0 /\ total'["safe"] = 0
        BY <3>2, <4>1 DEF RaceType, RaceControl, AllIncrements, Increments
      <4>5. mutex' = Race!NoOne
        BY <3>2, <4>1 DEF SafeExact
      <4> QED
        BY <3>2, <4>1, <4>3, <4>4, <4>5 DEF SafeExact, Rounding
    <3> QED
      BY <3>1, <3>2 DEF RaceType
  <2> QED
    BY <2>1, <2>2, <2>3, <2>4
<1>4. ASSUME NEW t \in Race!Threads, Race!Enter(t) PROVE RaceInv'
  <2> USE <1>4 DEF Race!Enter, Race!Go, Race!Running, RaceInv
  <2>1. RaceType'
    BY DEF RaceType, Race!MainPc
  <2>2. RaceControl'
    BY DEF RaceType, RaceControl, Rounding, Race!MainPc
  <2>3. RaceBounds'
    BY DEF RaceType, RaceControl, Rounding, RaceBounds, AllIncrements, Increments, Stored
  <2>4. SafeExact'
    BY RaceResultKept
    DEF RaceType, RaceControl, Rounding, SafeExact, AllIncrements, Increments, Stored
  <2> QED
    BY <2>1, <2>2, <2>3, <2>4
<1>5. ASSUME NEW t \in Race!Threads, Race!Load(t) PROVE RaceInv'
  <2> USE <1>5 DEF Race!Load, Race!Go, Race!Running, RaceInv
  <2>1. RaceType'
    BY DEF RaceType, Race!MainPc
  <2>2. RaceControl'
    BY DEF RaceType, RaceControl, Rounding, Race!MainPc
  <2>3. RaceBounds'
    BY DEF RaceType, RaceControl, Rounding, RaceBounds, AllIncrements, Increments, Stored
  <2>4. SafeExact'
    BY RaceResultKept
    DEF RaceType, RaceControl, Rounding, SafeExact, AllIncrements, Increments, Stored
  <2> QED
    BY <2>1, <2>2, <2>3, <2>4
<1>6. ASSUME NEW t \in Race!Threads, Race!Store(t) PROVE RaceInv'
  <2> USE <1>6 DEF Race!Store, Race!Go, Race!Running, RaceInv
  <2>1. RaceType'
    BY DEF RaceType, Race!MainPc
  <2>2. RaceControl'
    BY DEF RaceType, RaceControl, Rounding, Race!MainPc
  <2>3. RaceBounds'
    BY DEF RaceType, RaceControl, Rounding, RaceBounds, AllIncrements, Increments, Stored
  <2>4. SafeExact'
    BY RaceResultKept
    DEF RaceType, RaceControl, Rounding, SafeExact, AllIncrements, Increments, Stored
  <2> QED
    BY <2>1, <2>2, <2>3, <2>4
<1>7. ASSUME NEW t \in Race!Threads, Race!EndOfRound(t) PROVE RaceInv'
  <2> USE <1>7 DEF Race!EndOfRound, Race!Go, Race!Running, RaceInv
  <2>1. RaceType'
    BY DEF RaceType, RaceControl, Rounding, Race!MainPc
  <2>2. RaceControl'
    BY DEF RaceType, RaceControl, Rounding, Race!MainPc
  <2>3. RaceBounds'
    BY DEF RaceType, RaceControl, Rounding, RaceBounds, AllIncrements, Increments, Stored
  <2>4. SafeExact'
    BY RaceResultKept
    DEF RaceType, RaceControl, Rounding, SafeExact, AllIncrements, Increments, Stored
  <2> QED
    BY <2>1, <2>2, <2>3, <2>4
<1>8. ASSUME NEW t \in Race!Threads, Race!Return(t) PROVE RaceInv'
  <2> USE <1>8 DEF Race!Return, Race!Go, Race!Running, RaceInv
  <2>1. RaceType'
    BY DEF RaceType, Race!MainPc
  <2>2. RaceControl'
    BY DEF RaceType, RaceControl, Rounding, Race!MainPc
  <2>3. RaceBounds'
    BY DEF RaceType, RaceControl, Rounding, RaceBounds, AllIncrements, Increments, Stored
  <2>4. SafeExact'
    BY RaceResultKept
    DEF RaceType, RaceControl, Rounding, SafeExact, AllIncrements, Increments, Stored
  <2> QED
    BY <2>1, <2>2, <2>3, <2>4
<1> QED
  BY <1>1, <1>2, <1>3, <1>4, <1>5, <1>6, <1>7, <1>8, OneProgramSteps
  DEF Race!Next, Race!MainStep, Race!ThreadStep

\* Race demonstration: for every number of increments, the locked counter is
\* exact, and the other lies between two (or all, if a thread was alone) and the
\* full count.
THEOREM CountsAreRight == AllSpec => []CountsAtEnd
<1>1. RaceInv => CountsAtEnd
  <2> SUFFICES ASSUME RaceInv, maker = <<"end", 0>> PROVE CountsAtEnd
    BY DEF CountsAtEnd, Race!CountsAtEnd
  <2>1. /\ RaceType /\ phase = "safe"
        /\ \A t \in created["safe"] : thread[t] = "end" /\ n[t] = increments
    BY DEF RaceInv, RaceType, RaceControl, Race!Phases, Race!Threads
  <2>2. total["safe"] = Race!Full("safe")
    BY <2>1, FullIs DEF RaceInv, SafeExact, AllIncrements, Increments, Stored, Race!Phases
  <2>3. RaceResult
    BY <2>1 DEF RaceInv, SafeExact
  <2> QED
    BY <2>2, <2>3 DEF RaceResult, CountsAtEnd, Race!CountsAtEnd
<1> QED
  BY <1>1, RaceInit, RaceNext, PTL DEF AllSpec
-----------------------------------------------------------------------------
(* The cyclic test *)

\* A timespec stands for its nanoseconds.
LEMMA TimeNanos ==
    ASSUME NEW k \in Nat
    PROVE  Cyclic!Time(k) \in Cyclic!Times /\ Cyclic!Nanos(Cyclic!Time(k)) = k
<1> NS \in Nat \ {0}
  BY CyclicAssumption
<1>1. k \div NS \in Nat /\ k % NS \in 0 .. NS - 1 /\ k = NS * (k \div NS) + (k % NS)
  BY DivMod
<1>2. (k \div NS) * NS = NS * (k \div NS)
  BY <1>1
<1>3. Cyclic!Nanos(Cyclic!Time(k)) = (k \div NS) * NS + (k % NS)
  BY DEF Cyclic!Nanos, Cyclic!Time
<1>4. Cyclic!Time(k) \in Cyclic!Times
  BY <1>1 DEF Cyclic!Time, Cyclic!Times
<1> QED
  BY <1>1, <1>2, <1>3, <1>4

\* Nanoseconds are a natural number.
LEMMA NanosType ==
    ASSUME NEW t \in Cyclic!Times
    PROVE  Cyclic!Nanos(t) \in Nat
BY CyclicAssumption DEF Cyclic!Nanos, Cyclic!Times

\* The next target is one interval ahead, with the carry into the seconds.
LEMMA NextTargetNanos ==
    ASSUME NEW t \in Cyclic!Times
    PROVE  /\ Cyclic!NextTarget(t) \in Cyclic!Times
           /\ Cyclic!Nanos(Cyclic!NextTarget(t)) = Cyclic!Nanos(t) + INTERVAL
<1> USE CyclicAssumption DEF Cyclic!Times, Cyclic!Nanos
<1>1. CASE t.tv_nsec + INTERVAL >= NS
  <2>1. Cyclic!NextTarget(t) = [tv_sec |-> t.tv_sec + 1, tv_nsec |-> t.tv_nsec + INTERVAL - NS]
    BY <1>1 DEF Cyclic!NextTarget
  <2>2. (t.tv_sec + 1) * NS = t.tv_sec * NS + NS
    OBVIOUS
  <2> QED
    BY <1>1, <2>1, <2>2
<1>2. CASE t.tv_nsec + INTERVAL < NS
  <2>1. Cyclic!NextTarget(t) = [tv_sec |-> t.tv_sec, tv_nsec |-> t.tv_nsec + INTERVAL]
    BY <1>2 DEF Cyclic!NextTarget
  <2> QED
    BY <1>2, <2>1
<1> QED
  BY <1>1, <1>2

\* The difference in a long is the real one unless it is LongHalf or more.
LEMMA DifferenceNanos ==
    ASSUME NEW a \in Cyclic!Times, NEW b \in Cyclic!Times
    PROVE  /\ Cyclic!Difference(a, b) \in Int
           /\ Cyclic!Nanos(a) - Cyclic!Nanos(b) \in 0 .. LongHalf - 1
                => Cyclic!Difference(a, b) = Cyclic!Nanos(a) - Cyclic!Nanos(b)
<1> DEFINE x == Cyclic!Nanos(a) - Cyclic!Nanos(b)
           y == (x + LongHalf) % (2 * LongHalf)
<1> USE CyclicAssumption
<1>1. /\ a.tv_sec \in Nat /\ b.tv_sec \in Nat /\ a.tv_nsec \in Nat /\ b.tv_nsec \in Nat
  BY DEF Cyclic!Times
<1>2. (a.tv_sec - b.tv_sec) * NS + (a.tv_nsec - b.tv_nsec) = x
  BY <1>1 DEF Cyclic!Nanos
<1>3. x \in Int
  BY NanosType
<1>4. Cyclic!Difference(a, b) = y - LongHalf
  BY <1>2 DEF Cyclic!Difference, Cyclic!Wrap
<1> HIDE DEF x
<1>5. y \in Int
  BY <1>3
<1>6. ASSUME x \in 0 .. LongHalf - 1 PROVE y = x + LongHalf
  <2>1. /\ 2 * LongHalf \in Nat \ {0} /\ x + LongHalf \in 0 .. 2 * LongHalf - 1 /\ 0 \in Nat
        /\ 2 * LongHalf * 0 + (x + LongHalf) = x + LongHalf
    BY <1>6
  <2>2. (2 * LongHalf * 0 + (x + LongHalf)) % (2 * LongHalf) = x + LongHalf
    BY <2>1, ModUnique
  <2> QED
    BY <2>1, <2>2
<1> HIDE DEF y
<1> QED
  BY <1>3, <1>4, <1>5, <1>6 DEF x

\* Types, and when there are samples; the target is one interval ahead.
CyclicType ==
    /\ turn \in Nat
    /\ t_start \in Cyclic!Times /\ t_target \in Cyclic!Times /\ first \in Cyclic!Times
    /\ min_latency \in Int /\ max_latency \in Int /\ total_latency \in Int
    /\ samples \subseteq Nat
    /\ turn = 0 <=> samples = {}
    /\ at \in {"setup", "settle", "crashed"} => turn = 0
    /\ at = "done" => turn # 0
    /\ at = "sleep" => t_target = Cyclic!NextTarget(t_start)

\* No wake-up was later than a long can hold.
Representable == \A x \in samples : x < LongHalf

\* The statistics at any time: extremes, sums and the time that has gone by.
CyclicSums ==
    /\ turn = 0 => max_latency = 0
    /\ turn # 0 => max_latency \in samples
    /\ max_latency >= 0
    /\ min_latency \in samples \cup {MinStart}
    /\ \A x \in samples : min_latency <= x /\ x <= max_latency
    /\ turn * min_latency <= total_latency /\ total_latency <= turn * max_latency
    /\ Cyclic!Nanos(t_start) - Cyclic!Nanos(first) = turn * INTERVAL + total_latency

CyclicInv == CyclicType /\ (Representable => CyclicSums)

\* CyclicInv holds before setup_rt_task.
LEMMA CyclicInit == ASSUME AllInit PROVE CyclicInv
<1>1. Cyclic!Init
  BY DEF AllInit
<1>2. Cyclic!Time(0) \in Cyclic!Times /\ Cyclic!Nanos(Cyclic!Time(0)) = 0
  BY TimeNanos
<1>3. CyclicType
  BY <1>1, <1>2, CyclicAssumption DEF Cyclic!Init, CyclicType
<1>4. CyclicSums
  BY <1>1, <1>2, CyclicAssumption DEF Cyclic!Init, CyclicSums
<1> QED
  BY <1>3, <1>4 DEF CyclicInv

\* Multiplication from the left is monotonic.
LEMMA ProductLeft ==
    ASSUME NEW x \in Nat, NEW y \in Nat, NEW z \in Nat, x <= y
    PROVE  z * x <= z * y
OBVIOUS

\* Every step of main and of the signal handler keeps CyclicInv.
LEMMA CyclicNext == ASSUME CyclicInv, [AllNext]_allVars PROVE CyclicInv'
<1> USE CyclicAssumption
<1>1. CASE UNCHANGED cyclicVars
  BY <1>1 DEF cyclicVars, CyclicInv, CyclicType, Representable, CyclicSums, Cyclic!Nanos
<1>2. CASE Cyclic!setup_rt_task \/ Cyclic!signal_handler \/ Cyclic!SleepFails \/ Cyclic!Report
  BY <1>2
  DEF Cyclic!setup_rt_task, Cyclic!signal_handler, Cyclic!SleepFails, Cyclic!Report,
      Cyclic!stats,
     CyclicInv, CyclicType, Representable, CyclicSums, Cyclic!Nanos, Cyclic!NextTarget
<1>3. CASE Cyclic!Settle
  BY <1>3, TimeNanos
  DEF Cyclic!Settle, CyclicInv, CyclicType, Representable, CyclicSums, Cyclic!Nanos
<1>4. CASE Cyclic!LoopTest
  BY <1>4, NextTargetNanos
  DEF Cyclic!LoopTest, Cyclic!stats, CyclicInv, CyclicType, Representable, CyclicSums,
      Cyclic!Nanos
<1>5. ASSUME NEW late \in Lateness, Cyclic!WakeUp(late) PROVE CyclicInv'
  <2> DEFINE wake == Cyclic!Later(Cyclic!Nanos(t_target), Cyclic!Nanos(t_start))
             t_actual == Cyclic!Time(wake + late)
             latency == Cyclic!Difference(t_actual, t_target)
  <2>1. /\ at = "sleep" /\ at' = "loop"
        /\ min_latency' = IF latency < min_latency THEN latency ELSE min_latency
        /\ max_latency' = IF latency > max_latency THEN latency ELSE max_latency
        /\ total_latency' = total_latency + latency
        /\ t_start' = t_actual /\ turn' = turn + 1
        /\ samples' = samples \cup {late}
        /\ UNCHANGED <<keep_running, t_target, first>>
    BY <1>5 DEF Cyclic!WakeUp
  <2>2. /\ Cyclic!Nanos(t_start) \in Nat /\ late \in Nat
        /\ Cyclic!Nanos(t_target) = Cyclic!Nanos(t_start) + INTERVAL
    BY <2>1, NanosType, NextTargetNanos DEF CyclicInv, CyclicType
  <2>3. t_actual = Cyclic!Time(Cyclic!Nanos(t_target) + late)
    BY <2>2 DEF Cyclic!Later
  <2>4. t_actual \in Cyclic!Times /\ Cyclic!Nanos(t_actual) = Cyclic!Nanos(t_target) + late
    BY <2>2, <2>3, TimeNanos
  <2> HIDE DEF t_actual
  <2>5. latency \in Int /\ (late < LongHalf => latency = late)
    BY <2>2, <2>4, DifferenceNanos DEF CyclicInv, CyclicType
  <2> HIDE DEF latency
  <2>6. CyclicType'
    BY <2>1, <2>2, <2>4, <2>5 DEF CyclicInv, CyclicType
  <2>7. ASSUME Representable' PROVE CyclicSums'
    <3>1. late < LongHalf /\ Representable
      BY <2>1, <2>7 DEF Representable
    <3>2. latency = late /\ CyclicSums /\ CyclicType
      BY <2>5, <3>1 DEF CyclicInv
    <3>3. /\ turn' # 0 /\ max_latency' \in samples' /\ max_latency' >= 0
          /\ min_latency' \in samples' \cup {MinStart}
          /\ \A x \in samples' : min_latency' <= x /\ x <= max_latency'
      BY <2>1, <2>2, <3>2 DEF CyclicSums, CyclicType
    <3>4. /\ min_latency' \in Int /\ max_latency' \in Int
          /\ min_latency' <= min_latency /\ min_latency' <= late
          /\ max_latency <= max_latency' /\ late <= max_latency'
      BY <2>1, <2>2, <3>2 DEF CyclicType
    <3>5. turn * min_latency' <= turn * min_latency /\ turn * max_latency <= turn * max_latency'
      <4>1. /\ min_latency \in Nat /\ min_latency' \in Nat
            /\ max_latency \in Nat /\ max_latency' \in Nat /\ turn \in Nat
        BY <2>1, <2>2, <3>2, <3>4 DEF CyclicSums, CyclicType
      <4> QED
        BY <3>4, <4>1, ProductLeft
    <3>6. /\ turn' * min_latency' = turn * min_latency' + min_latency'
          /\ turn' * max_latency' = turn * max_latency' + max_latency'
          /\ turn' * INTERVAL = turn * INTERVAL + INTERVAL
      BY <2>1, <3>2, <3>4 DEF CyclicType
    <3>7. turn' * min_latency' <= total_latency' /\ total_latency' <= turn' * max_latency'
      BY <2>1, <2>2, <3>2, <3>4, <3>5, <3>6 DEF CyclicType, CyclicSums
    <3>8. Cyclic!Nanos(t_start)' - Cyclic!Nanos(first)' = turn' * INTERVAL + total_latency'
      <4>1. Cyclic!Nanos(t_start)' = Cyclic!Nanos(t_start) + INTERVAL + late
        BY <2>1, <2>2, <2>4 DEF Cyclic!Nanos
      <4>2. Cyclic!Nanos(first)' = Cyclic!Nanos(first) /\ Cyclic!Nanos(first) \in Nat
        BY <2>1, <3>2, NanosType DEF Cyclic!Nanos, CyclicType
      <4>3. turn * INTERVAL \in Int
        BY <3>2 DEF CyclicType
      <4> QED
        BY <2>1, <2>2, <3>2, <3>6, <4>1, <4>2, <4>3 DEF CyclicSums, CyclicType
    <3> QED
      BY <3>3, <3>7, <3>8 DEF CyclicSums
  <2> QED
    BY <2>6, <2>7 DEF CyclicInv
<1> QED
  BY <1>1, <1>2, <1>3, <1>4, <1>5, OneProgramSteps DEF Cyclic!Next

\* The average lies between bounds of the summands.
LEMMA Average ==
    ASSUME NEW k \in Nat \ {0}, NEW lo \in Int, NEW hi \in Int, NEW sum \in Nat,
           k * lo <= sum, sum <= k * hi
    PROVE  lo <= sum \div k /\ sum \div k <= hi
<1> DEFINE q == sum \div k
           r == sum % k
<1>1. q \in Nat /\ r \in 0 .. k - 1 /\ sum = k * q + r
  BY DivMod
<1> HIDE DEF q, r
<1>2. ASSUME lo > q PROVE FALSE
  <2>1. k * (lo - q) = k * lo - k * q
    BY <1>1
  <2>2. k * (lo - q) >= k
    BY <1>1, <1>2
  <2> QED
    BY <1>1, <2>1, <2>2
<1>3. ASSUME q > hi PROVE FALSE
  <2>1. k * (q - hi) = k * q - k * hi
    BY <1>1
  <2>2. k * (q - hi) >= k
    BY <1>1, <1>3
  <2> QED
    BY <1>1, <2>1, <2>2
<1> QED
  BY <1>1, <1>2, <1>3 DEF q

\* Cyclic test: for every interval shorter than a second, every start time and
\* every lateness, what is printed is true unless a wake-up was later than a long
\* can hold, and the division fails only without a sample.
THEOREM StatisticsTrue == AllSpec => []StatisticsAreTrue
<1>1. CyclicInv => StatisticsAreTrue
  <2> SUFFICES ASSUME CyclicInv PROVE Cyclic!StatisticsAreTrue
    BY DEF StatisticsAreTrue
  <2>1. at = "crashed" => samples = {}
    BY DEF CyclicInv, CyclicType
  <2>2. ASSUME at = "done", Representable
        PROVE  /\ min_latency <= total_latency \div turn /\ total_latency \div turn <= max_latency
               /\ CyclicSums /\ turn # 0
    <3>1. /\ CyclicSums /\ turn \in Nat \ {0}
          /\ min_latency \in Int /\ max_latency \in Int /\ total_latency \in Int
      BY <2>2 DEF CyclicInv, CyclicType
    <3>2. min_latency \in Nat
      BY <3>1, CyclicAssumption DEF CyclicSums, CyclicInv, CyclicType
    <3>3. turn * min_latency \in Nat
      BY <3>1, <3>2
    <3>4. total_latency \in Nat
      BY <3>1, <3>3 DEF CyclicSums
    <3> QED
      BY <3>1, <3>4, Average DEF CyclicSums
  <2> QED
    BY <2>1, <2>2 DEF Cyclic!StatisticsAreTrue, CyclicSums, Representable
<1> QED
  BY <1>1, CyclicInit, CyclicNext, PTL DEF AllSpec
=============================================================================
