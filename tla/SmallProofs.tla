----------------------------- MODULE SmallProofs -----------------------------
(***************************************************************************)
(* Proofs about three programs of SmallPrograms: the daemon threads, the   *)
(* deadlock demonstrations and the log relay. Each has an inductive        *)
(* invariant of its own; the fairness of AllSpec is not used.              *)
(***************************************************************************)
EXTENDS SmallPrograms, FiniteSetTheorems, SequenceTheorems, TLAPS

\* What a step of the whole is to each of them: one of its own steps, or none.
LEMMA OneProgramSteps ==
    ASSUME [AllNext]_allVars
    PROVE  /\ Next \/ UNCHANGED vars
           /\ Locks!Next \/ UNCHANGED lockVars
           /\ Relay!Next \/ UNCHANGED relayVars
BY DEF AllNext, allVars, Daemon, InLocks, InRelay, InYield, InFifos, InReader, InSelect
-----------------------------------------------------------------------------
(* The daemon threads *)

\* The count is exact, main sleeps only while it is not zero, and when main has
\* left it was zero.
DaemonInv == /\ TypeOK
             /\ CountIsExact
             /\ main = "asleep" => active_threads > 0
             /\ main = "exit" => active_threads = 0
             /\ \A t \in Background : bg[t] = "sleep" => count[t] < MaxWork

\* DaemonInv holds before main creates the threads.
LEMMA DaemonInit == ASSUME AllInit PROVE DaemonInv
<1>1. Init /\ Cardinality(Background) \in Nat
  BY DaemonAssumption, FS_CardinalityType DEF AllInit
<1>2. {t \in Background : Registered(t)} = {}
  BY <1>1 DEF Init, Registered
<1>3. CountIsExact
  BY <1>1, <1>2, FS_EmptySet DEF Init, CountIsExact
<1> QED
  BY <1>1, <1>3, DaemonAssumption DEF Init, DaemonInv, TypeOK

\* How the set of registered threads changes with the place of one thread.
LEMMA RegisteredChange ==
    ASSUME NEW t \in Background, NEW to, TypeOK, bg' = [bg EXCEPT ![t] = to]
    PROVE  {u \in Background : Registered(u)'} =
             IF to \in {"test", "sleep", "unregister"}
               THEN {u \in Background : Registered(u)} \cup {t}
               ELSE {u \in Background : Registered(u)} \ {t}
BY DEF TypeOK, Registered

\* The set of registered threads is finite, and no larger than Background.
LEMMA RegisteredFinite ==
    /\ IsFiniteSet({t \in Background : Registered(t)})
    /\ Cardinality({t \in Background : Registered(t)}) \in 0 .. Cardinality(Background)
<1>1. {t \in Background : Registered(t)} \subseteq Background
  OBVIOUS
<1>2. /\ IsFiniteSet({t \in Background : Registered(t)})
      /\ Cardinality({t \in Background : Registered(t)}) <= Cardinality(Background)
  BY <1>1, DaemonAssumption, FS_Subset
<1> QED
  BY <1>2, DaemonAssumption, FS_CardinalityType

\* Every step of main, of a signal and of a thread keeps DaemonInv.
LEMMA DaemonNext == ASSUME DaemonInv, [AllNext]_allVars PROVE DaemonInv'
<1> DEFINE R == {t \in Background : Registered(t)}
<1> USE DaemonAssumption
<1>1. /\ IsFiniteSet(R) /\ Cardinality(R) \in Nat /\ active_threads = Cardinality(R)
      /\ R' = {t \in Background : Registered(t)'}
      /\ IsFiniteSet(R') /\ Cardinality(R') \in 0 .. Cardinality(Background)
      /\ Cardinality(Background) \in Nat
  <2>1. IsFiniteSet(R) /\ Cardinality(R) \in Nat /\ active_threads = Cardinality(R)
    BY RegisteredFinite, FS_CardinalityType DEF DaemonInv, CountIsExact
  <2>2. R' \subseteq Background /\ R' = {t \in Background : Registered(t)'}
    OBVIOUS
  <2>3. IsFiniteSet(R') /\ Cardinality(R') <= Cardinality(Background)
    BY <2>2, FS_Subset
  <2> QED
    BY <2>1, <2>2, <2>3, FS_CardinalityType
<1>2. CASE UNCHANGED vars
  BY <1>2 DEF vars, DaemonInv, TypeOK, CountIsExact, Registered
<1>3. CASE HandleSignal \/ StopThreads \/ CheckCount \/ SpuriousWakeup
  <2>1. running' \in BOOLEAN
    BY <1>3 DEF HandleSignal, StopThreads, CheckCount, SpuriousWakeup, DaemonInv, TypeOK
  <2>2. /\ UNCHANGED <<active_threads, bg, count>>
        /\ main' \in {"create", "work", "check", "asleep", "exit"}
        /\ main' = "asleep" => active_threads > 0
        /\ main' = "exit" => active_threads = 0
    <3>1. active_threads \in Nat
      BY <1>1
    <3> QED
      BY <1>3, <3>1
      DEF HandleSignal, StopThreads, CheckCount, SpuriousWakeup, DaemonInv, TypeOK, Alive
  <2> QED
    BY <2>1, <2>2 DEF DaemonInv, TypeOK, CountIsExact, Registered
<1>4. ASSUME NEW t \in Background, CreateThread(t) PROVE DaemonInv'
  <2>1. R' = R \ {t} /\ t \notin R
    BY <1>1, <1>4, RegisteredChange DEF CreateThread, DaemonInv, Registered
  <2>2. R' = R
    BY <2>1
  <2>3. active_threads' = Cardinality(R')
    BY <1>1, <1>4, <2>2 DEF CreateThread
  <2> QED
    BY <1>4, <2>3 DEF CreateThread, DaemonInv, TypeOK, CountIsExact
<1>5. ASSUME NEW t \in Background, Register(t) PROVE DaemonInv'
  <2>1. R' = R \cup {t} /\ t \notin R
    BY <1>1, <1>5, RegisteredChange DEF Register, DaemonInv, Registered
  <2>2. active_threads' = Cardinality(R')
    BY <1>1, <1>5, <2>1, FS_AddElement DEF Register
  <2> QED
    BY <1>1, <1>5, <2>2 DEF Register, Alive, DaemonInv, TypeOK, CountIsExact
<1>6. ASSUME NEW t \in Background, TestRunning(t) \/ Work(t) PROVE DaemonInv'
  <2>1. R' = R \cup {t} /\ t \in R
    BY <1>1, <1>6, RegisteredChange DEF TestRunning, Work, DaemonInv, Registered
  <2>2. R' = R
    BY <2>1
  <2>3. active_threads' = Cardinality(R')
    BY <1>1, <1>6, <2>2 DEF TestRunning, Work
  <2>4. /\ count' \in [Background -> 0 .. MaxWork]
        /\ \A u \in Background : bg'[u] = "sleep" => count'[u] < MaxWork
    BY <1>6 DEF TestRunning, Work, DaemonInv, TypeOK
  <2> QED
    BY <1>6, <2>3, <2>4 DEF TestRunning, Work, DaemonInv, TypeOK, CountIsExact
<1>7. ASSUME NEW t \in Background, Unregister(t) PROVE DaemonInv'
  <2>1. R' = R \ {t} /\ t \in R
    BY <1>1, <1>7, RegisteredChange DEF Unregister, DaemonInv, Registered
  <2>2. active_threads' = Cardinality(R')
    BY <1>1, <1>7, <2>1, FS_RemoveElement DEF Unregister
  <2> QED
    BY <1>1, <1>7, <2>2 DEF Unregister, Alive, DaemonInv, TypeOK, CountIsExact
<1> QED
  BY <1>2, <1>3, <1>4, <1>5, <1>6, <1>7, OneProgramSteps DEF Next, MainStep, BgStep

\* Daemon threads: for any number of threads, active_threads is the number of
\* threads that registered and did not unregister.
THEOREM CountStaysExact == AllSpec => []CountIsExact
<1>1. DaemonInv => CountIsExact
  BY DEF DaemonInv
<1> QED
  BY <1>1, DaemonInit, DaemonNext, PTL DEF AllSpec

\* main has left the wait of its loop only when no thread was registered.
NoneRegisteredAtExit == main = "exit" => \A t \in Background : ~Registered(t)

\* main is asleep on count_cond only while a thread that will unregister is
\* registered.
AsleepWithReason == main = "asleep" => \E t \in Background : Registered(t)

\* Daemon threads: main leaves with no thread registered, and is never asleep
\* after the last one has signalled count_cond: no wake-up is lost.
THEOREM NoWakeupIsLost == AllSpec => [](NoneRegisteredAtExit /\ AsleepWithReason)
<1>1. DaemonInv => NoneRegisteredAtExit /\ AsleepWithReason
  <2> SUFFICES ASSUME DaemonInv PROVE NoneRegisteredAtExit /\ AsleepWithReason
    OBVIOUS
  <2> DEFINE R == {t \in Background : Registered(t)}
  <2>1. IsFiniteSet(R) /\ active_threads = Cardinality(R)
    BY RegisteredFinite DEF DaemonInv, CountIsExact
  <2>2. active_threads = 0 <=> R = {}
    BY <2>1, FS_EmptySet
  <2> QED
    BY <2>2 DEF DaemonInv, NoneRegisteredAtExit, AsleepWithReason
<1> QED
  BY <1>1, DaemonInit, DaemonNext, PTL DEF AllSpec
-----------------------------------------------------------------------------
(* The deadlock demonstrations *)

\* The mutex that a thread locks first, and the one it locks second.
First(t) == IF t = "thread1" \/ part = 2 THEN "A" ELSE "B"
Second(t) == IF t = "thread1" \/ part = 2 THEN "B" ELSE "A"

\* What a thread owns follows from the call it is at, also if it was cancelled.
LockInv == /\ Locks!TypeOK
           /\ part = 4 => demo = "done" /\ pc = [t \in Locks!Threads |-> 0]
           /\ demo = "create1" => pc = [t \in Locks!Threads |-> 0]
           /\ demo = "create2" => pc["thread2"] = 0
           /\ \A t \in Locks!Threads :
                /\ pc[t] = 6 => t \in gone
                /\ owner[First(t)] = t <=> pc[t] \in 2 .. 5
                /\ owner[Second(t)] = t <=> pc[t] = 4

\* The calls of the thread functions, by their position.
LEMMA Calls ==
    ASSUME Locks!TypeOK, NEW t \in Locks!Threads, pc[t] \in 1 .. 5
    PROVE  /\ Locks!Res(t) = IF pc[t] \in {1, 2, 5} THEN First(t) ELSE Second(t)
           /\ Locks!Op(t) = CASE pc[t] = 1 -> "lock"
                              [] pc[t] = 2 -> "sleep"
                              [] pc[t] = 3 -> IF part = 3 THEN "try" ELSE "lock"
                              [] OTHER -> "unlock"
<1> DEFINE op == IF part = 3 THEN "try" ELSE "lock"
<1>1. Locks!Script(t) = << <<"lock", First(t)>>, <<"sleep", First(t)>>, <<op, Second(t)>>,
                           <<"unlock", Second(t)>>, <<"unlock", First(t)>> >>
  BY DEF Locks!Script, Locks!thread1_function, Locks!thread2_function, Locks!Nested,
         Locks!Threads, First, Second
<1> HIDE DEF op
<1>2. CASE pc[t] = 1
  BY <1>1, <1>2 DEF Locks!Res, Locks!Op
<1>3. CASE pc[t] = 2
  BY <1>1, <1>3 DEF Locks!Res, Locks!Op
<1>4. CASE pc[t] = 3
  BY <1>1, <1>4 DEF Locks!Res, Locks!Op, op
<1>5. CASE pc[t] = 4
  BY <1>1, <1>5 DEF Locks!Res, Locks!Op
<1>6. CASE pc[t] = 5
  BY <1>1, <1>6 DEF Locks!Res, Locks!Op
<1> QED
  BY <1>2, <1>3, <1>4, <1>5, <1>6

\* LockInv holds when the mutexes are first initialised.
LEMMA LockInit == ASSUME AllInit PROVE LockInv
<1>1. Locks!Init
  BY DEF AllInit
<1>2. Locks!TypeOK
  BY <1>1 DEF Locks!Init, Locks!TypeOK, Locks!Threads, Locks!Resource, Locks!Nobody
<1> QED
  BY <1>1, <1>2
  DEF LockInv, Locks!Init, Locks!Threads, Locks!Resource, Locks!Nobody, First, Second

\* Every step of main and of a thread keeps LockInv.
LEMMA LockNext == ASSUME LockInv, [AllNext]_allVars PROVE LockInv'
<1> USE DEF Locks!Threads, Locks!Resource, Locks!Nobody
<1>1. CASE UNCHANGED lockVars
  BY <1>1 DEF lockVars, LockInv, Locks!TypeOK, First, Second
<1>2. CASE Locks!CreateThread1 \/ Locks!CreateThread2
  <2> USE DEF Locks!Create, LockInv, Locks!TypeOK
  <2>1. CASE Locks!CreateThread1
    <3>1. pc' = [pc EXCEPT !["thread1"] = 1] /\ demo' = "create2" /\ demo = "create1"
          /\ UNCHANGED <<part, printed, owner, cancel, gone>>
      BY <2>1 DEF Locks!CreateThread1
    <3> QED
      BY <3>1 DEF First, Second
  <2>2. CASE Locks!CreateThread2
    <3>1. pc' = [pc EXCEPT !["thread2"] = 1] /\ demo' \in {"cancel", "join"} /\ demo = "create2"
          /\ UNCHANGED <<part, printed, owner, cancel, gone>>
      BY <2>2 DEF Locks!CreateThread2
    <3> QED
      BY <3>1 DEF First, Second
  <2> QED
    BY <1>2, <2>1, <2>2
<1>3. CASE Locks!CancelBoth
  BY <1>3 DEF Locks!CancelBoth, LockInv, Locks!TypeOK, First, Second
<1>4. CASE Locks!JoinBoth
  BY <1>4 DEF Locks!JoinBoth, LockInv, Locks!TypeOK, First, Second
<1>5. ASSUME NEW t \in Locks!Threads, Locks!PrintStep(t) \/ Locks!Cancelled(t) PROVE LockInv'
  <2>1. /\ UNCHANGED <<part, demo, pc, owner, cancel>>
        /\ gone' \in {gone, gone \cup {t}}
        /\ \E b \in BOOLEAN : printed' = [printed EXCEPT ![t] = b]
    BY <1>5, Zenon DEF Locks!PrintStep, Locks!Cancelled
  <2> QED
    BY <2>1 DEF LockInv, Locks!TypeOK, First, Second
<1>6. ASSUME NEW t \in Locks!Threads,
             \/ Locks!SleepStep(t) \/ Locks!Acquire(t) \/ Locks!TimedOut(t) \/ Locks!Release(t)
      PROVE  LockInv'
  <2>1. Locks!TypeOK /\ pc[t] \in 1 .. 5 /\ t \notin gone
    BY <1>6 DEF Locks!SleepStep, Locks!Acquire, Locks!TimedOut, Locks!Release,
                Locks!Running, LockInv
  <2> DEFINE first == First(t)
             second == Second(t)
  <2>2. /\ Locks!Res(t) = IF pc[t] \in {1, 2, 5} THEN first ELSE second
        /\ Locks!Op(t) = CASE pc[t] = 1 -> "lock"
                           [] pc[t] = 2 -> "sleep"
                           [] pc[t] = 3 -> IF part = 3 THEN "try" ELSE "lock"
                           [] OTHER -> "unlock"
    BY <2>1, Calls
  <2> USE <2>1, <2>2 DEF LockInv, Locks!TypeOK, Locks!Advance, First, Second
  <2>3. CASE Locks!SleepStep(t)
    BY <2>3 DEF Locks!SleepStep
  <2>4. CASE Locks!Acquire(t)
    BY <2>4 DEF Locks!Acquire
  <2>5. CASE Locks!TimedOut(t)
    BY <2>5 DEF Locks!TimedOut
  <2>6. CASE Locks!Release(t)
    BY <2>6 DEF Locks!Release
  <2> QED
    BY <1>6, <2>3, <2>4, <2>5, <2>6
<1> QED
  BY <1>1, <1>2, <1>3, <1>4, <1>5, <1>6, OneProgramSteps
  DEF Locks!Next, Locks!MainStep, Locks!ThreadStep

\* Deadlock demonstrations: in part 2, where both threads lock A first, and in
\* part 3, where the second lock gives up, the threads never wait for each other.
THEOREM NoCycleAfterPart1 == AllSpec => []CycleOnlyInPart1
<1>1. LockInv => CycleOnlyInPart1
  <2> SUFFICES ASSUME LockInv, Locks!CircularWait PROVE part = 1
    BY DEF CycleOnlyInPart1, Locks!CycleOnlyInPart1
  <2> USE DEF Locks!Threads
  <2>1. Locks!Other("thread1") = "thread2" /\ Locks!Other("thread2") = "thread1"
    BY DEF Locks!Other
  <2>2. \A t \in Locks!Threads : pc[t] \in 1 .. 5 /\ Locks!Op(t) = "lock"
    BY DEF Locks!CircularWait, Locks!Blocked, Locks!Running
  <2>3. /\ owner[Locks!Res("thread1")] = "thread2" /\ owner[Locks!Res("thread2")] = "thread1"
    BY <2>1 DEF Locks!CircularWait
  <2>4. \A t \in Locks!Threads :
          /\ Locks!Res(t) = IF pc[t] = 1 THEN First(t) ELSE Second(t)
          /\ pc[t] = 1 \/ (pc[t] = 3 /\ part # 3)
    BY <2>2, Calls DEF LockInv
  <2> QED
    BY <2>2, <2>3, <2>4 DEF LockInv, Locks!TypeOK, First, Second
<1> QED
  BY <1>1, LockInit, LockNext, PTL DEF AllSpec
-----------------------------------------------------------------------------
(* The log relay *)

\* AsSent for any number of turns and any lost entries.
Ordered(s, f, l) ==
    /\ \A w \in LogWorkers, k \in 1 .. Entries :
         k <= f[w] /\ <<w, k>> \notin l <=> \E j \in DOMAIN s : s[j] = <<w, k>>
    /\ \A j, k \in DOMAIN s :
         j < k /\ s[j][1] = s[k][1] /\ s[j][1] \in LogWorkers => s[j][2] < s[k][2]

\* Each worker's place tells how many turns it has made, and only entries of
\* these are lost; EXIT is the last message, sent when every worker has ended;
\* and what is logged or still in the queue is as it was sent.
RelayInv == /\ Relay!TypeOK
            /\ \A w \in LogWorkers :
                 /\ logger[w] \in {"none", "open"} => sent[w] = 0
                 /\ logger[w] = "send" => sent[w] < Entries
                 /\ logger[w] = "end" => sent[w] = Entries
            /\ \A w \in LogWorkers, k \in 1 .. Entries : <<w, k>> \in lost => k <= sent[w]
            /\ boss \in {"exit", "tell", "joinIo", "joinUntold", "done"} =>
                 \A w \in LogWorkers : logger[w] \in {"end", "gaveUp"}
            /\ \A k \in DOMAIN mq :
                 mq[k] = Relay!EXIT => k = Len(mq) /\ boss \in {"joinIo", "done"}
            /\ io = "end" => mq = <<>> /\ boss \in {"joinIo", "done"}
            /\ Ordered(log_file \o mq, sent, lost)

\* Receiving moves the head of the queue to the end of the log.
LEMMA MoveHead ==
    ASSUME NEW S, NEW s \in Seq(S), NEW q \in Seq(S), q # <<>>
    PROVE  Append(s, Head(q)) \o Tail(q) = s \o q
<1>1. Append(s, Head(q)) \o Tail(q) \in Seq(S) /\ s \o q \in Seq(S)
  OBVIOUS
<1>2. Len(Append(s, Head(q)) \o Tail(q)) = Len(s \o q)
  OBVIOUS
<1>3. \A k \in 1 .. Len(s \o q) : (Append(s, Head(q)) \o Tail(q))[k] = (s \o q)[k]
  OBVIOUS
<1> QED
  BY <1>1, <1>2, <1>3, SeqEqual

\* Sending appends to what is logged or still in the queue.
LEMMA AppendRight ==
    ASSUME NEW S, NEW s \in Seq(S), NEW q \in Seq(S), NEW e \in S
    PROVE  s \o Append(q, e) = Append(s \o q, e)
<1>1. s \o Append(q, e) \in Seq(S) /\ Append(s \o q, e) \in Seq(S)
  OBVIOUS
<1>2. Len(s \o Append(q, e)) = Len(Append(s \o q, e))
  OBVIOUS
<1>3. \A k \in 1 .. Len(s \o Append(q, e)) : (s \o Append(q, e))[k] = Append(s \o q, e)[k]
  OBVIOUS
<1> QED
  BY <1>1, <1>2, <1>3, SeqEqual

\* A sequence and one element more.
LEMMA AppendElements ==
    ASSUME NEW S, NEW s \in Seq(S), NEW e \in S
    PROVE  LET t == Append(s, e)
               last == Len(s) + 1
           IN /\ DOMAIN s \subseteq Nat /\ last \in Nat /\ \A j \in DOMAIN s : j < last
              /\ DOMAIN t = DOMAIN s \cup {last} /\ t[last] = e
              /\ \A j \in DOMAIN s : t[j] = s[j]
OBVIOUS

\* The next message of a worker.
LEMMA OrderedSend ==
    ASSUME NEW s \in Seq(Relay!Message), NEW f \in [LogWorkers -> 0 .. Entries],
           NEW l, NEW w \in LogWorkers, f[w] < Entries, <<w, f[w] + 1>> \notin l,
           Ordered(s, f, l)
    PROVE  Ordered(Append(s, <<w, f[w] + 1>>), [f EXCEPT ![w] = @ + 1], l)
<1> DEFINE e == <<w, f[w] + 1>>
           t == Append(s, e)
           g == [f EXCEPT ![w] = @ + 1]
           last == Len(s) + 1
<1> USE RelayAssumption
<1>1. e \in Relay!Message
  BY DEF Relay!Message, Relay!Entry
<1>2. /\ DOMAIN s \subseteq Nat /\ last \in Nat /\ \A j \in DOMAIN s : j < last
      /\ DOMAIN t = DOMAIN s \cup {last} /\ t[last] = e
      /\ \A j \in DOMAIN s : t[j] = s[j]
  BY <1>1, AppendElements
<1> HIDE DEF t, last
<1>3. ASSUME NEW u \in LogWorkers, NEW k \in 1 .. Entries
      PROVE  k <= g[u] /\ <<u, k>> \notin l <=> \E j \in DOMAIN t : t[j] = <<u, k>>
  <2>1. k <= g[u] <=> k <= f[u] \/ (u = w /\ k = f[w] + 1)
    OBVIOUS
  <2>2. <<u, k>> = e <=> (u = w /\ k = f[w] + 1)
    OBVIOUS
  <2>3. k <= f[u] /\ <<u, k>> \notin l <=> \E j \in DOMAIN s : s[j] = <<u, k>>
    BY DEF Ordered
  <2>4. (\E j \in DOMAIN t : t[j] = <<u, k>>)
        <=> (<<u, k>> = e \/ \E j \in DOMAIN s : s[j] = <<u, k>>)
    BY <1>2, Zenon
  <2> QED
    BY <2>1, <2>2, <2>3, <2>4
<1>4. \A j \in DOMAIN s : s[j][1] = w => s[j][2] \in Nat /\ s[j][2] <= f[w]
  BY DEF Ordered, Relay!Message, Relay!Entry, Relay!EXIT, Relay!Old, Relay!OldExit
<1>5. ASSUME NEW j \in DOMAIN t, NEW k \in DOMAIN t,
             j < k, t[j][1] = t[k][1], t[j][1] \in LogWorkers
      PROVE  t[j][2] < t[k][2]
  <2>1. j \in DOMAIN s
    BY <1>2, <1>5
  <2>2. CASE k \in DOMAIN s
    BY <1>2, <1>5, <2>1, <2>2 DEF Ordered
  <2>3. CASE k = last
    BY <1>2, <1>4, <1>5, <2>1, <2>3
  <2> QED
    BY <1>2, <2>2, <2>3
<1> QED
  BY <1>3, <1>5 DEF Ordered, t

\* A turn in which the entry is lost.
LEMMA OrderedLoss ==
    ASSUME NEW s \in Seq(Relay!Message), NEW f \in [LogWorkers -> 0 .. Entries],
           NEW l, NEW w \in LogWorkers, f[w] < Entries, Ordered(s, f, l)
    PROVE  Ordered(s, [f EXCEPT ![w] = @ + 1], l \cup {<<w, f[w] + 1>>})
<1> DEFINE e == <<w, f[w] + 1>>
           g == [f EXCEPT ![w] = @ + 1]
<1> USE RelayAssumption
<1>1. ASSUME NEW u \in LogWorkers, NEW k \in 1 .. Entries
      PROVE  k <= g[u] /\ <<u, k>> \notin l \cup {e} <=> k <= f[u] /\ <<u, k>> \notin l
  <2>1. k <= g[u] <=> k <= f[u] \/ (u = w /\ k = f[w] + 1)
    OBVIOUS
  <2>2. <<u, k>> = e <=> (u = w /\ k = f[w] + 1)
    OBVIOUS
  <2>3. u = w /\ k = f[w] + 1 => ~(k <= f[u])
    OBVIOUS
  <2> QED
    BY <2>1, <2>2, <2>3
<1> QED
  BY <1>1 DEF Ordered

\* The EXIT of an earlier run does not count, wherever it was.
LEMMA OrderedSkip ==
    ASSUME NEW s \in Seq(Relay!Message), NEW q \in Seq(Relay!Message), q # <<>>,
           Head(q) = Relay!OldExit, NEW f, NEW l, Ordered(s \o q, f, l)
    PROVE  Ordered(s \o Tail(q), f, l)
<1> DEFINE t == s \o q
           u == s \o Tail(q)
           n == Len(s)
           at1(j) == IF j <= n THEN j ELSE j + 1
<1> USE RelayAssumption
<1>1. /\ n \in Nat /\ DOMAIN u \subseteq Nat /\ DOMAIN t \subseteq Nat
      /\ \A j \in DOMAIN u : at1(j) \in DOMAIN t /\ u[j] = t[at1(j)]
      /\ \A j, k \in DOMAIN u : j < k => at1(j) < at1(k)
  OBVIOUS
<1>2. \A j \in DOMAIN t : j = n + 1 \/ \E k \in DOMAIN u : u[k] = t[j]
  <2>1. ASSUME NEW j \in DOMAIN t, j # n + 1
        PROVE  \E k \in DOMAIN u : u[k] = t[j]
    <3>1. CASE j <= n
      <4>1. j \in DOMAIN u /\ u[j] = t[j]
        BY <2>1, <3>1
      <4> QED
        BY <4>1
    <3>2. CASE ~(j <= n)
      <4>1. j - 1 \in DOMAIN u /\ u[j - 1] = t[j]
        BY <2>1, <3>2
      <4> QED
        BY <4>1
    <3> QED
      BY <3>1, <3>2
  <2> QED
    BY <2>1
<1>3. t[n + 1] = Relay!OldExit
  OBVIOUS
<1> HIDE DEF t, u, n, at1
<1>4. ASSUME NEW w \in LogWorkers, NEW k \in 1 .. Entries
      PROVE  (\E j \in DOMAIN u : u[j] = <<w, k>>) <=> (\E j \in DOMAIN t : t[j] = <<w, k>>)
  <2>1. Relay!OldExit # <<w, k>>
    BY DEF Relay!OldExit
  <2>2. ASSUME NEW j \in DOMAIN t, t[j] = <<w, k>>
        PROVE  \E i \in DOMAIN u : u[i] = <<w, k>>
    BY <1>2, <1>3, <2>1, <2>2
  <2>3. ASSUME NEW j \in DOMAIN u, u[j] = <<w, k>>
        PROVE  \E i \in DOMAIN t : t[i] = <<w, k>>
    BY <1>1, <2>3
  <2> QED
    BY <2>2, <2>3
<1>5. ASSUME NEW j \in DOMAIN u, NEW k \in DOMAIN u,
             j < k, u[j][1] = u[k][1], u[j][1] \in LogWorkers
      PROVE  u[j][2] < u[k][2]
  <2>1. /\ at1(j) \in DOMAIN t /\ at1(k) \in DOMAIN t /\ at1(j) < at1(k)
        /\ u[j] = t[at1(j)] /\ u[k] = t[at1(k)]
    BY <1>1, <1>5
  <2>2. \A a, b \in DOMAIN t :
          a < b /\ t[a][1] = t[b][1] /\ t[a][1] \in LogWorkers => t[a][2] < t[b][2]
    BY DEF Ordered, t
  <2> QED
    BY <1>5, <2>1, <2>2
<1>6. Ordered(t, f, l)
  BY DEF t
<1>7. Ordered(u, f, l)
  BY <1>4, <1>5, <1>6 DEF Ordered
<1> QED
  BY <1>7 DEF u

\* EXIT does not count.
LEMMA OrderedExit ==
    ASSUME NEW s \in Seq(Relay!Message), NEW f, NEW l
    PROVE  Ordered(Append(s, Relay!EXIT), f, l) <=> Ordered(s, f, l)
<1> DEFINE t == Append(s, Relay!EXIT)
           last == Len(s) + 1
<1> USE RelayAssumption
<1>1. Relay!EXIT \in Relay!Message /\ Relay!EXIT[1] \notin LogWorkers
  BY DEF Relay!Message, Relay!EXIT
<1>2. /\ DOMAIN s \subseteq Nat /\ last \in Nat /\ \A j \in DOMAIN s : j < last
      /\ DOMAIN t = DOMAIN s \cup {last} /\ t[last] = Relay!EXIT
      /\ \A j \in DOMAIN s : t[j] = s[j]
  BY <1>1, AppendElements
<1> HIDE DEF t, last
<1>3. ASSUME NEW u \in LogWorkers, NEW k \in 1 .. Entries
      PROVE  (\E j \in DOMAIN t : t[j] = <<u, k>>) <=> (\E j \in DOMAIN s : s[j] = <<u, k>>)
  <2>1. Relay!EXIT # <<u, k>>
    BY <1>1
  <2> QED
    BY <1>2, <2>1, Zenon
<1>4. ASSUME NEW j \in DOMAIN t, NEW k \in DOMAIN t,
             j < k, t[j][1] = t[k][1], t[j][1] \in LogWorkers
      PROVE  j \in DOMAIN s /\ k \in DOMAIN s
  BY <1>1, <1>2, <1>4
<1>5. (\A j, k \in DOMAIN t :
         j < k /\ t[j][1] = t[k][1] /\ t[j][1] \in LogWorkers => t[j][2] < t[k][2])
      <=> (\A j, k \in DOMAIN s :
             j < k /\ s[j][1] = s[k][1] /\ s[j][1] \in LogWorkers => s[j][2] < s[k][2])
  BY <1>2, <1>4
<1> QED
  BY <1>3, <1>5, Zenon DEF Ordered, t

\* RelayInv holds at the start, whatever an earlier run left in the queue.
LEMMA RelayInit == ASSUME AllInit PROVE RelayInv
<1>1. Relay!Init
  BY DEF AllInit
<1> USE RelayAssumption
<1> DEFINE earlier == {Relay!Old, Relay!OldExit}
<1>2. /\ earlier \subseteq Relay!Message /\ Relay!EXIT \notin earlier
      /\ \A m \in earlier : m[1] \notin LogWorkers
  BY DEF Relay!Message, Relay!Old, Relay!OldExit, Relay!EXIT
<1>3. mq \in Seq(earlier) /\ Len(mq) <= MQ_MAX_MESSAGES
  <2>1. /\ <<>> \in Seq(earlier) /\ <<Relay!Old>> \in Seq(earlier)
        /\ <<Relay!OldExit>> \in Seq(earlier) /\ <<Relay!Old, Relay!OldExit>> \in Seq(earlier)
    OBVIOUS
  <2> QED
    BY <1>1, <2>1 DEF Relay!Init
<1> HIDE DEF earlier
<1>4. /\ mq \in Seq(Relay!Message) /\ log_file \o mq = mq
      /\ \A k \in DOMAIN mq : mq[k] \in earlier
  <2>1. log_file = <<>>
    BY <1>1 DEF Relay!Init
  <2>2. mq \in Seq(Relay!Message) /\ \A k \in DOMAIN mq : mq[k] \in earlier
    BY <1>2, <1>3
  <2> QED
    BY <2>1, <2>2, ConcatEmptySeq
<1>5. linked \in BOOLEAN
  BY <1>1 DEF Relay!Init
<1>6. Relay!TypeOK
  BY <1>1, <1>3, <1>4, <1>5 DEF Relay!Init, Relay!TypeOK
<1>7. Ordered(mq, sent, lost)
  <2>1. ASSUME NEW w \in LogWorkers, NEW k \in 1 .. Entries
        PROVE  ~(k <= sent[w]) /\ ~\E j \in DOMAIN mq : mq[j] = <<w, k>>
    <3>1. sent[w] = 0
      BY <1>1 DEF Relay!Init
    <3> QED
      BY <1>2, <1>4, <3>1
  <2>2. \A j \in DOMAIN mq : mq[j][1] \notin LogWorkers
    BY <1>2, <1>4
  <2> QED
    BY <2>1, <2>2 DEF Ordered
<1>8. \A k \in DOMAIN mq : mq[k] # Relay!EXIT
  BY <1>2, <1>4
<1> QED
  BY <1>1, <1>4, <1>6, <1>7, <1>8 DEF RelayInv, Relay!Init

\* Every step of main, of the I/O thread and of a worker keeps RelayInv.
LEMMA RelayNext == ASSUME RelayInv, [AllNext]_allVars PROVE RelayInv'
<1> USE RelayAssumption
<1>1. CASE UNCHANGED relayVars
  BY <1>1 DEF relayVars, RelayInv, Relay!TypeOK
<1>2. CASE \/ Relay!OpenQueue \/ Relay!JoinLoggers \/ Relay!Reopen \/ Relay!SendExitFails
           \/ Relay!JoinIo \/ Relay!OpenLog
  <2>1. linked' \in BOOLEAN
    BY <1>2 DEF Relay!OpenQueue, Relay!JoinLoggers, Relay!Reopen, Relay!SendExitFails,
                Relay!JoinIo, Relay!OpenLog, RelayInv, Relay!TypeOK
  <2> QED
    BY <1>2, <2>1 DEF Relay!OpenQueue, Relay!JoinLoggers, Relay!Reopen, Relay!SendExitFails,
                      Relay!JoinIo, Relay!OpenLog, RelayInv, Relay!TypeOK
<1>3. CASE Relay!CreateThreads
  BY <1>3 DEF Relay!CreateThreads, RelayInv, Relay!TypeOK
<1>4. CASE Relay!SendExit
  <2>1. /\ mq \in Seq(Relay!Message) /\ log_file \in Seq(Relay!Message)
        /\ Relay!EXIT \in Relay!Message /\ boss = "tell" /\ boss' = "joinIo"
        /\ mq' = Append(mq, Relay!EXIT) /\ Len(mq) < MQ_MAX_MESSAGES
        /\ UNCHANGED <<linked, io, log_file, logger, sent, lost>>
    BY <1>4 DEF Relay!SendExit, Relay!mq_send, RelayInv, Relay!TypeOK, Relay!Message
  <2>2. log_file \o mq' = Append(log_file \o mq, Relay!EXIT)
    BY <2>1, AppendRight
  <2>3. Ordered(log_file \o mq', sent, lost)
    <3>1. log_file \o mq \in Seq(Relay!Message) /\ Ordered(log_file \o mq, sent, lost)
      BY <2>1 DEF RelayInv
    <3>2. Ordered(Append(log_file \o mq, Relay!EXIT), sent, lost)
      BY <3>1, OrderedExit
    <3> QED
      BY <2>2, <3>2
  <2>4. \A k \in DOMAIN mq' : mq'[k] = Relay!EXIT => k = Len(mq')
    BY <2>1 DEF RelayInv
  <2>5. mq' \in Seq(Relay!Message) /\ Len(mq') <= MQ_MAX_MESSAGES
    BY <2>1
  <2>6. io # "end"
    BY <2>1 DEF RelayInv
  <2> QED
    BY <2>1, <2>3, <2>4, <2>5, <2>6 DEF RelayInv, Relay!TypeOK
<1>5. CASE Relay!Receive
  <2>1. /\ mq \in Seq(Relay!Message) /\ mq # <<>> /\ mq' = Tail(mq) /\ io = "receive"
        /\ log_file \in Seq(Relay!Message \ {Relay!EXIT, Relay!OldExit})
        /\ log_file \in Seq(Relay!Message)
        /\ UNCHANGED <<logger, sent, lost, boss>>
    BY <1>5 DEF Relay!Receive, RelayInv, Relay!TypeOK
  <2>2. /\ mq' \in Seq(Relay!Message) /\ Len(mq') <= MQ_MAX_MESSAGES
        /\ \A k \in DOMAIN mq' : mq'[k] = Relay!EXIT => k = Len(mq') /\ boss \in {"joinIo", "done"}
    BY <2>1 DEF RelayInv, Relay!TypeOK
  <2>3. CASE Head(mq) = Relay!EXIT
    <3>1. io' = "end" /\ linked' = FALSE /\ log_file' = log_file
      BY <1>5, <2>3 DEF Relay!Receive
    <3>2. Len(mq) = 1 /\ boss \in {"joinIo", "done"}
      <4>1. mq[1] = Relay!EXIT /\ 1 \in DOMAIN mq
        BY <2>1, <2>3
      <4> QED
        BY <4>1 DEF RelayInv
    <3>3. mq' = <<>> /\ Append(log_file, Head(mq)) \o mq' = log_file \o mq
      BY <2>1, <3>2, MoveHead
    <3>4. Append(log_file, Relay!EXIT) = log_file \o mq /\ log_file' \o mq' = log_file
      <4>1. Append(log_file, Relay!EXIT) \in Seq(Relay!Message)
        BY <2>1 DEF Relay!Message
      <4>2. Append(log_file, Relay!EXIT) \o <<>> = Append(log_file, Relay!EXIT)
            /\ log_file \o <<>> = log_file
        BY <2>1, <4>1, ConcatEmptySeq
      <4> QED
        BY <2>3, <3>1, <3>3, <4>2
    <3>5. Ordered(log_file' \o mq', sent', lost')
      <4>1. Ordered(Append(log_file, Relay!EXIT), sent, lost)
        BY <3>4 DEF RelayInv
      <4>2. Ordered(log_file, sent, lost)
        BY <2>1, <4>1, OrderedExit
      <4> QED
        BY <2>1, <3>4, <4>2
    <3> QED
      BY <2>1, <2>2, <3>1, <3>2, <3>3, <3>5 DEF RelayInv, Relay!TypeOK
  <2>4. CASE Head(mq) = Relay!OldExit
    <3>1. io' = "endEarly" /\ linked' = FALSE /\ log_file' = log_file
      BY <1>5, <2>4 DEF Relay!Receive, Relay!EXIT, Relay!OldExit
    <3>2. Ordered(log_file' \o mq', sent', lost')
      <4>1. Ordered(log_file \o mq, sent, lost)
        BY DEF RelayInv
      <4> QED
        BY <2>1, <2>4, <3>1, <4>1, OrderedSkip
    <3> QED
      BY <2>1, <2>2, <3>1, <3>2 DEF RelayInv, Relay!TypeOK
  <2>5. CASE Head(mq) \notin {Relay!EXIT, Relay!OldExit}
    <3>1. log_file' = Append(log_file, Head(mq)) /\ UNCHANGED <<io, linked>>
      BY <1>5, <2>5 DEF Relay!Receive
    <3>2. log_file' \o mq' = log_file \o mq
      BY <2>1, <3>1, MoveHead
    <3>3. log_file' \in Seq(Relay!Message \ {Relay!EXIT, Relay!OldExit})
      BY <2>1, <2>5, <3>1
    <3> QED
      BY <2>1, <2>2, <3>1, <3>2, <3>3 DEF RelayInv, Relay!TypeOK
  <2> QED
    BY <2>3, <2>4, <2>5
<1>6. ASSUME NEW w \in LogWorkers, Relay!LoggerOpen(w) PROVE RelayInv'
  <2>1. /\ logger \in [LogWorkers -> {"none", "open", "send", "end", "gaveUp"}]
        /\ logger[w] = "open" /\ sent[w] = 0 /\ 0 < Entries
        /\ UNCHANGED <<mq, linked, io, log_file, sent, lost, boss>>
        /\ \/ logger' = [logger EXCEPT ![w] = "send"]
           \/ logger' = [logger EXCEPT ![w] = "gaveUp"]
    BY <1>6 DEF Relay!LoggerOpen, RelayInv, Relay!TypeOK
  <2>2. logger' \in [LogWorkers -> {"none", "open", "send", "end", "gaveUp"}]
    BY <2>1
  <2>3. boss \notin {"exit", "tell", "joinIo", "joinUntold", "done"}
    BY <2>1 DEF RelayInv
  <2>4. \A u \in LogWorkers :
          /\ logger'[u] \in {"none", "open"} => sent'[u] = 0
          /\ logger'[u] = "send" => sent'[u] < Entries
          /\ logger'[u] = "end" => sent'[u] = Entries
    BY <2>1 DEF RelayInv
  <2> QED
    BY <2>1, <2>2, <2>3, <2>4 DEF RelayInv, Relay!TypeOK
<1>7. ASSUME NEW w \in LogWorkers, logger[w] = "send", Relay!NextEntry(w), RelayInv
      PROVE  /\ \A u \in LogWorkers :
                  /\ logger'[u] \in {"none", "open"} => sent'[u] = 0
                  /\ logger'[u] = "send" => sent'[u] < Entries
                  /\ logger'[u] = "end" => sent'[u] = Entries
             /\ logger' \in [LogWorkers -> {"none", "open", "send", "end", "gaveUp"}]
             /\ sent \in [LogWorkers -> 0 .. Entries] /\ sent[w] < Entries
             /\ sent' \in [LogWorkers -> 0 .. Entries] /\ sent' = [sent EXCEPT ![w] = @ + 1]
             /\ UNCHANGED <<linked, io, log_file, boss>>
             /\ boss \notin {"exit", "tell", "joinIo", "joinUntold", "done"} /\ io # "end"
             /\ <<w, sent[w] + 1>> \in Relay!Entry /\ <<w, sent[w] + 1>> \notin lost
  <2>1. /\ sent \in [LogWorkers -> 0 .. Entries] /\ sent[w] < Entries
        /\ sent' = [sent EXCEPT ![w] = @ + 1] /\ UNCHANGED <<linked, io, log_file, boss>>
        /\ logger' = [logger EXCEPT ![w] = IF sent[w] + 1 = Entries THEN "end" ELSE "send"]
        /\ logger \in [LogWorkers -> {"none", "open", "send", "end", "gaveUp"}]
    BY <1>7 DEF Relay!NextEntry, RelayInv, Relay!TypeOK
  <2>2. boss \notin {"exit", "tell", "joinIo", "joinUntold", "done"} /\ io # "end"
    BY <1>7 DEF RelayInv
  <2>3. /\ <<w, sent[w] + 1>> \in Relay!Entry /\ sent[w] + 1 \in 1 .. Entries
        /\ ~(sent[w] + 1 <= sent[w])
    BY <2>1 DEF Relay!Entry
  <2>4. <<w, sent[w] + 1>> \notin lost
    BY <2>3 DEF RelayInv
  <2>5. \A u \in LogWorkers :
          /\ logger'[u] \in {"none", "open"} => sent'[u] = 0
          /\ logger'[u] = "send" => sent'[u] < Entries
          /\ logger'[u] = "end" => sent'[u] = Entries
    BY <1>7, <2>1 DEF RelayInv
  <2>6. /\ sent' \in [LogWorkers -> 0 .. Entries]
        /\ logger' \in [LogWorkers -> {"none", "open", "send", "end", "gaveUp"}]
    BY <2>1
  <2> QED
    BY <2>1, <2>2, <2>3, <2>4, <2>5, <2>6
<1>8. ASSUME NEW w \in LogWorkers, Relay!LoggerSend(w) PROVE RelayInv'
  <2> DEFINE e == <<w, sent[w] + 1>>
  <2>1. /\ mq \in Seq(Relay!Message) /\ log_file \in Seq(Relay!Message)
        /\ mq' = Append(mq, e) /\ Len(mq) < MQ_MAX_MESSAGES /\ lost' = lost
        /\ logger[w] = "send" /\ Relay!NextEntry(w)
    BY <1>8 DEF Relay!LoggerSend, Relay!mq_send, RelayInv, Relay!TypeOK
  <2>2. /\ \A u \in LogWorkers :
             /\ logger'[u] \in {"none", "open"} => sent'[u] = 0
             /\ logger'[u] = "send" => sent'[u] < Entries
             /\ logger'[u] = "end" => sent'[u] = Entries
        /\ logger' \in [LogWorkers -> {"none", "open", "send", "end", "gaveUp"}]
        /\ sent \in [LogWorkers -> 0 .. Entries] /\ sent[w] < Entries
        /\ sent' \in [LogWorkers -> 0 .. Entries] /\ sent' = [sent EXCEPT ![w] = @ + 1]
        /\ UNCHANGED <<linked, io, log_file, boss>>
        /\ boss \notin {"exit", "tell", "joinIo", "joinUntold", "done"} /\ io # "end"
        /\ e \in Relay!Entry /\ e \notin lost
    BY <1>7, <2>1
  <2>3. e \in Relay!Message /\ e # Relay!EXIT
    BY <2>2 DEF Relay!Message, Relay!EXIT
  <2>4. log_file' \o mq' = Append(log_file \o mq, e) /\ log_file \o mq \in Seq(Relay!Message)
    BY <2>1, <2>2, <2>3, AppendRight
  <2>5. Ordered(log_file' \o mq', sent', lost')
    <3>1. Ordered(log_file \o mq, sent, lost)
      BY DEF RelayInv
    <3>2. Ordered(Append(log_file \o mq, e), [sent EXCEPT ![w] = @ + 1], lost)
      BY <2>2, <2>4, <3>1, OrderedSend
    <3> QED
      BY <2>1, <2>2, <2>4, <3>2
  <2>6. \A k \in DOMAIN mq' : mq'[k] # Relay!EXIT
    BY <2>1, <2>2, <2>3 DEF RelayInv
  <2>7. mq' \in Seq(Relay!Message) /\ Len(mq') <= MQ_MAX_MESSAGES
    BY <2>1, <2>3
  <2>8. \A u \in LogWorkers, k \in 1 .. Entries : <<u, k>> \in lost' => k <= sent'[u]
    BY <2>1, <2>2 DEF RelayInv
  <2> QED
    BY <2>1, <2>2, <2>5, <2>6, <2>7, <2>8 DEF RelayInv, Relay!TypeOK
<1>9. ASSUME NEW w \in LogWorkers, Relay!LoggerFails(w) PROVE RelayInv'
  <2> DEFINE e == <<w, sent[w] + 1>>
  <2>1. /\ mq \in Seq(Relay!Message) /\ log_file \in Seq(Relay!Message)
        /\ mq' = mq /\ lost' = lost \cup {e}
        /\ logger[w] = "send" /\ Relay!NextEntry(w)
    BY <1>9 DEF Relay!LoggerFails, RelayInv, Relay!TypeOK
  <2>2. /\ \A u \in LogWorkers :
             /\ logger'[u] \in {"none", "open"} => sent'[u] = 0
             /\ logger'[u] = "send" => sent'[u] < Entries
             /\ logger'[u] = "end" => sent'[u] = Entries
        /\ logger' \in [LogWorkers -> {"none", "open", "send", "end", "gaveUp"}]
        /\ sent \in [LogWorkers -> 0 .. Entries] /\ sent[w] < Entries
        /\ sent' \in [LogWorkers -> 0 .. Entries] /\ sent' = [sent EXCEPT ![w] = @ + 1]
        /\ UNCHANGED <<linked, io, log_file, boss>>
        /\ boss \notin {"exit", "tell", "joinIo", "joinUntold", "done"} /\ io # "end"
        /\ e \in Relay!Entry /\ e \notin lost
    BY <1>7, <2>1
  <2>3. Ordered(log_file' \o mq', sent', lost')
    <3>1. Ordered(log_file \o mq, sent, lost) /\ log_file \o mq \in Seq(Relay!Message)
      BY <2>1 DEF RelayInv
    <3>2. Ordered(log_file \o mq, [sent EXCEPT ![w] = @ + 1], lost \cup {e})
      BY <2>2, <3>1, OrderedLoss
    <3> QED
      BY <2>1, <2>2, <3>2
  <2>4. \A u \in LogWorkers, k \in 1 .. Entries : <<u, k>> \in lost' => k <= sent'[u]
    <3>1. ASSUME NEW u \in LogWorkers, NEW k \in 1 .. Entries, <<u, k>> \in lost'
          PROVE  k <= sent'[u]
      <4>1. CASE <<u, k>> \in lost
        BY <2>2, <4>1 DEF RelayInv
      <4>2. CASE <<u, k>> = e
        BY <2>2, <4>2
      <4> QED
        BY <2>1, <3>1, <4>1, <4>2
    <3> QED
      BY <3>1
  <2>5. lost' \subseteq Relay!Entry
    BY <2>1, <2>2 DEF RelayInv, Relay!TypeOK
  <2> QED
    BY <2>1, <2>2, <2>3, <2>4, <2>5 DEF RelayInv, Relay!TypeOK
<1> QED
  BY <1>1, <1>2, <1>3, <1>4, <1>5, <1>6, <1>8, <1>9, OneProgramSteps
  DEF Relay!Next, Relay!BossStep, Relay!IoStep, Relay!LoggerStep

\* Log relay: for any workers, entries and capacity of the queue, and whatever an
\* earlier run left, every entry that mq_send accepted is in the file or in the
\* queue, once and in its worker's order; when main says that logging is
\* complete and the I/O thread was ended by main's EXIT, nothing is left in the
\* queue and every worker that opened it has been through its loop.
THEOREM EverythingIsLogged == AllSpec => []AllLogged
<1>1. RelayInv => AllLogged
  <2> SUFFICES ASSUME RelayInv PROVE Relay!AllLogged
    BY DEF AllLogged
  <2>1. Relay!AsSent(log_file \o mq)
    BY DEF RelayInv, Ordered, Relay!AsSent
  <2> QED
    BY <2>1 DEF RelayInv, Relay!AllLogged
<1> QED
  BY <1>1, RelayInit, RelayNext, PTL DEF AllSpec
=============================================================================
