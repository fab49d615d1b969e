--------------------------- MODULE WorkQueueProofs ---------------------------
(***************************************************************************)
(* What WorkQueue promises for every ring size, every set of producers and *)
(* consumers and every set of tasks.                                       *)
(***************************************************************************)
EXTENDS WorkQueue, SequenceTheorems, FiniteSetTheorems, TLAPS

\* Taking an index of the ring modulo its size: the index itself, or the
\* index less one turn.
LEMMA ModRing ==
    ASSUME NEW n \in Nat, n < 2 * MAX_QUEUE_SIZE
    PROVE  n % MAX_QUEUE_SIZE = IF n < MAX_QUEUE_SIZE THEN n ELSE n - MAX_QUEUE_SIZE
<1>1. MAX_QUEUE_SIZE \in Nat /\ MAX_QUEUE_SIZE > 0
  BY SizeAssumption
<1>2. CASE n < MAX_QUEUE_SIZE
  BY <1>1, <1>2, Z3
<1>3. CASE n >= MAX_QUEUE_SIZE
  BY <1>1, <1>3, Z3
<1>. QED
  BY <1>1, <1>2, <1>3

\* Stepping an index of the ring and then moving on by j is moving on by
\* j + 1.
LEMMA StepRing ==
    ASSUME NEW f \in Slots, NEW j \in 0 .. MAX_QUEUE_SIZE
    PROVE  /\ f % MAX_QUEUE_SIZE = f
           /\ (f + j) % MAX_QUEUE_SIZE \in Slots
           /\ (f + 1) % MAX_QUEUE_SIZE \in Slots
           /\ j < MAX_QUEUE_SIZE =>
                /\ (((f + 1) % MAX_QUEUE_SIZE) + j) % MAX_QUEUE_SIZE
                     = (f + (j + 1)) % MAX_QUEUE_SIZE
                /\ (((f + j) % MAX_QUEUE_SIZE) + 1) % MAX_QUEUE_SIZE
                     = (f + (j + 1)) % MAX_QUEUE_SIZE
<1> DEFINE N == MAX_QUEUE_SIZE
           Turn(n) == IF n < N THEN n ELSE n - N
<1> USE SizeAssumption DEF Slots
<1>1. \A n \in 0 .. 2 * N - 1 : n % N = Turn(n)
  BY ModRing
<1>. QED
  BY <1>1

\* Two offsets of less than a turn reach different slots.
LEMMA DistinctSlots ==
    ASSUME NEW f \in Slots, NEW i \in Nat, NEW j \in Nat, i < j, j < MAX_QUEUE_SIZE
    PROVE  (f + i) % MAX_QUEUE_SIZE # (f + j) % MAX_QUEUE_SIZE
<1> DEFINE Turn(n) == IF n < MAX_QUEUE_SIZE THEN n ELSE n - MAX_QUEUE_SIZE
<1> USE SizeAssumption DEF Slots
<1>1. (f + i) % MAX_QUEUE_SIZE = Turn(f + i) /\ (f + j) % MAX_QUEUE_SIZE = Turn(f + j)
  BY ModRing
<1>. QED
  BY <1>1

\* A signal wakes at most one sleeper and puts nobody to sleep.
LEMMA SignalShrinks ==
    ASSUME NEW S, NEW T \in Signal(S)
    PROVE  T \subseteq S
  BY DEF Signal

\* The task at front is the oldest one that was accepted and not taken.
LEMMA FrontTask ==
    ASSUME QTypeOK, RingInv, count # 0
    PROVE  /\ Len(taken) + 1 \in 1 .. Len(accepted)
           /\ tasks[front] = accepted[Len(taken) + 1]
           /\ tasks[front] \in Task
<1> USE SizeAssumption DEF QTypeOK, Slots
<1>1. 1 \in 1 .. count /\ front \in Nat /\ front < MAX_QUEUE_SIZE
  OBVIOUS
<1>2. front + 1 - 1 = front
  OBVIOUS
<1>3. SlotOf(1) = front
  BY <1>2, StepRing DEF SlotOf
<1>4. tasks[front] = accepted[Len(taken) + 1]
  BY <1>1, <1>3 DEF RingInv
<1>5. Len(taken) + 1 \in 1 .. Len(accepted)
  BY <1>1 DEF RingInv
<1>. QED
  BY <1>4, <1>5

\* One step keeps the types, given that the ring holds what it should.
LEMMA TypeStep ==
    ASSUME QTypeOK, RingInv, [QNext]_qvars
    PROVE  QTypeOK'
<1> USE SizeAssumption, NullAssumption DEF QTypeOK, Slots
<1>1. ASSUME NEW p \in Producers, NEW k \in Task, CallEnqueue(p, k)
      PROVE  QTypeOK'
  BY <1>1 DEF CallEnqueue, ring
<1>2. ASSUME NEW p \in Producers, EnqueueWait(p)
      PROVE  QTypeOK'
  BY <1>2 DEF EnqueueWait, ring
<1>3. ASSUME NEW p \in Producers, EnqueueRefused(p)
      PROVE  QTypeOK'
  BY <1>3 DEF EnqueueRefused, ring
<1>4. ASSUME NEW p \in Producers, EnqueueStore(p)
      PROVE  QTypeOK'
  <2>1. rear' \in Slots
    BY <1>4, ModRing DEF EnqueueStore
  <2>2. not_empty' \subseteq Consumers
    BY <1>4, SignalShrinks DEF EnqueueStore
  <2>3. arg[p] \in Task
    BY <1>4 DEF EnqueueStore, ReadyProducer
  <2>4. accepted' \in Seq(Task)
    BY <1>4, <2>3 DEF EnqueueStore
  <2>5. tasks' \in [Slots -> Task \cup {NULL}] /\ count' \in 0 .. MAX_QUEUE_SIZE
    BY <1>4, <2>1, <2>3 DEF EnqueueStore
  <2>6. arg' \in [Producers -> Task \cup {NULL}]
    BY <1>4 DEF EnqueueStore
  <2>. QED
    BY <1>4, <2>1, <2>2, <2>4, <2>5, <2>6 DEF EnqueueStore
<1>5. ASSUME NEW c \in Consumers, CallDequeue(c)
      PROVE  QTypeOK'
  BY <1>5 DEF CallDequeue, ring
<1>6. ASSUME NEW c \in Consumers, DequeueWait(c)
      PROVE  QTypeOK'
  BY <1>6 DEF DequeueWait, ring
<1>7. ASSUME NEW c \in Consumers, DequeueNull(c)
      PROVE  QTypeOK'
  BY <1>7 DEF DequeueNull, ring
<1>8. ASSUME NEW c \in Consumers, DequeueTake(c)
      PROVE  QTypeOK'
  <2>1. front' \in Slots /\ count' \in 0 .. MAX_QUEUE_SIZE
    BY <1>8, ModRing DEF DequeueTake
  <2>2. not_full' \subseteq Producers
    BY <1>8, SignalShrinks DEF DequeueTake
  <2>3. tasks[front] \in Task
    BY <1>8, FrontTask DEF DequeueTake
  <2>4. taken' \in Seq(Task)
    BY <1>8, <2>3 DEF DequeueTake
  <2>. QED
    BY <1>8, <2>1, <2>2, <2>4 DEF DequeueTake
<1>9. CASE ShutdownQueue
  BY <1>9 DEF ShutdownQueue, ring
<1>10. ASSUME NEW t \in not_empty \cup not_full, SpuriousWakeup(t)
       PROVE  QTypeOK'
  BY <1>10 DEF SpuriousWakeup, ring
<1>11. CASE UNCHANGED qvars
  BY <1>11 DEF qvars
<1>. QED
  BY <1>1, <1>2, <1>3, <1>4, <1>5, <1>6, <1>7, <1>8, <1>9, <1>10, <1>11
     DEF QNext, Enqueue, Dequeue

\* One step keeps the ring: the slot enqueue_task writes is not one of the
\* slots in use, and the one dequeue_task leaves behind is the oldest.
LEMMA RingStep ==
    ASSUME QTypeOK, RingInv, [QNext]_qvars
    PROVE  RingInv'
<1> USE SizeAssumption, NullAssumption DEF QTypeOK, Slots
<1>1. CASE UNCHANGED <<ring, accepted, taken>>
  BY <1>1 DEF RingInv, RingConsistent, SlotOf, ring
<1>2. ASSUME NEW p \in Producers, EnqueueStore(p)
      PROVE  RingInv'
  <2>1. /\ count < MAX_QUEUE_SIZE /\ count' = count + 1 /\ front' = front
        /\ taken' = taken
        /\ tasks' = [tasks EXCEPT ![rear'] = arg[p]]
        /\ accepted' = Append(accepted, arg[p])
        /\ arg[p] \in Task
    BY <1>2 DEF EnqueueStore, ReadyProducer
  <2>2. rear' = (front + count) % MAX_QUEUE_SIZE /\ rear' \in Slots
    BY <1>2, ModRing DEF EnqueueStore, RingInv, RingConsistent
  <2>3. RingConsistent'
    <3>1. (((front + count) % MAX_QUEUE_SIZE) + 1) % MAX_QUEUE_SIZE
            = (front + (count + 1)) % MAX_QUEUE_SIZE
      BY <2>1, StepRing
    <3>. QED
      BY <2>1, <2>2, <3>1 DEF RingConsistent
  <2>4. ASSUME NEW i \in 1 .. count
        PROVE  SlotOf(i) \in Slots /\ SlotOf(i) # rear'
    <3>1. /\ i - 1 \in Nat /\ count \in Nat /\ i - 1 < count
          /\ i - 1 \in 0 .. MAX_QUEUE_SIZE
      BY <2>1
    <3>2. (front + (i - 1)) % MAX_QUEUE_SIZE \in Slots
      BY <3>1, StepRing
    <3>3. (front + (i - 1)) % MAX_QUEUE_SIZE # (front + count) % MAX_QUEUE_SIZE
      BY <2>1, <3>1, DistinctSlots
    <3>4. front + i - 1 = front + (i - 1)
      OBVIOUS
    <3>. QED
      BY <2>2, <3>2, <3>3, <3>4 DEF SlotOf
  <2>5. \A i \in 1 .. count' : SlotOf(i)' = SlotOf(i)
    BY <2>1 DEF SlotOf
  <2>6. /\ Len(accepted') = Len(accepted) + 1
        /\ accepted'[Len(accepted) + 1] = arg[p]
        /\ \A i \in 1 .. Len(accepted) : accepted'[i] = accepted[i]
    BY <2>1
  <2>7. Len(accepted') = Len(taken') + count' /\ Len(accepted') = Len(taken) + (count + 1)
    BY <2>1, <2>6 DEF RingInv
  <2>8. \A i \in 1 .. Len(taken') : taken'[i] = accepted'[i]
    BY <2>1 DEF RingInv
  <2>9. \A i \in 1 .. count' : tasks'[SlotOf(i)'] = accepted'[Len(taken') + i]
    <3>1. ASSUME NEW i \in 1 .. count
          PROVE  tasks'[SlotOf(i)'] = accepted'[Len(taken') + i]
      BY <2>1, <2>2, <2>4, <2>5 DEF RingInv
    <3>2. ASSUME NEW i \in 1 .. count', i = count + 1
          PROVE  tasks'[SlotOf(i)'] = accepted'[Len(taken') + i]
      <4>1. tasks'[rear'] = arg[p]
        BY <2>1, <2>2
      <4>2. SlotOf(i)' = rear'
        BY <2>1, <2>2, <3>2 DEF SlotOf
      <4>3. Len(taken') + i = Len(accepted) + 1
        BY <2>1, <2>6, <2>7, <3>2
      <4>. QED
        BY <2>6, <4>1, <4>2, <4>3
    <3>. QED
      <4>1. \A i \in 1 .. count' : i \in 1 .. count \/ i = count + 1
        BY <2>1
      <4>. QED
        BY <3>1, <3>2, <4>1
  <2>. QED
    BY <2>3, <2>7, <2>8, <2>9 DEF RingInv
<1>3. ASSUME NEW c \in Consumers, DequeueTake(c)
      PROVE  RingInv'
  <2>1. /\ count > 0 /\ count' = count - 1
        /\ front' = (front + 1) % MAX_QUEUE_SIZE /\ front' \in Slots
        /\ taken' = Append(taken, tasks[front])
        /\ tasks' = tasks /\ accepted' = accepted /\ rear' = rear
    BY <1>3, ModRing DEF DequeueTake
  <2>2. RingConsistent'
    <3>1. (((front + 1) % MAX_QUEUE_SIZE) + (count - 1)) % MAX_QUEUE_SIZE
            = (front + (count - 1 + 1)) % MAX_QUEUE_SIZE
      <4>1. count - 1 \in 0 .. MAX_QUEUE_SIZE /\ count - 1 < MAX_QUEUE_SIZE
        BY <2>1
      <4>. QED
        BY <4>1, StepRing
    <3>2. count - 1 + 1 = count
      OBVIOUS
    <3>. QED
      BY <2>1, <3>1, <3>2 DEF RingConsistent, RingInv
  <2>3. ASSUME NEW i \in 1 .. count'
        PROVE  SlotOf(i)' = SlotOf(i + 1)
    <3>1. i - 1 \in 0 .. MAX_QUEUE_SIZE /\ i - 1 < MAX_QUEUE_SIZE
      BY <2>1
    <3>2. (((front + 1) % MAX_QUEUE_SIZE) + (i - 1)) % MAX_QUEUE_SIZE
            = (front + (i - 1 + 1)) % MAX_QUEUE_SIZE
      BY <3>1, StepRing
    <3>3. /\ front' + i - 1 = ((front + 1) % MAX_QUEUE_SIZE) + (i - 1)
          /\ front + (i + 1) - 1 = front + (i - 1 + 1)
      BY <2>1
    <3>. QED
      BY <3>2, <3>3 DEF SlotOf
  <2>4. tasks[front] = accepted[Len(taken) + 1] /\ tasks[front] \in Task
    BY <2>1, FrontTask
  <2>5. Len(taken') = Len(taken) + 1
    BY <2>1, <2>4
  <2>6. Len(accepted') = Len(taken') + count'
    BY <2>1, <2>5 DEF RingInv
  <2>7. \A i \in 1 .. Len(taken') : taken'[i] = accepted'[i]
    BY <2>1, <2>4, <2>5 DEF RingInv
  <2>8. \A i \in 1 .. count' : tasks'[SlotOf(i)'] = accepted'[Len(taken') + i]
    BY <2>1, <2>3, <2>5 DEF RingInv
  <2>. QED
    BY <2>2, <2>6, <2>7, <2>8 DEF RingInv
<1>4. ASSUME NEW p \in Producers,
             EnqueueWait(p) \/ EnqueueRefused(p) \/ \E k \in Task : CallEnqueue(p, k)
      PROVE  UNCHANGED <<ring, accepted, taken>>
  BY <1>4 DEF EnqueueWait, EnqueueRefused, CallEnqueue
<1>5. ASSUME NEW c \in Consumers, CallDequeue(c) \/ DequeueWait(c) \/ DequeueNull(c)
      PROVE  UNCHANGED <<ring, accepted, taken>>
  BY <1>5 DEF CallDequeue, DequeueWait, DequeueNull
<1>6. ASSUME \/ ShutdownQueue \/ UNCHANGED qvars
             \/ \E t \in not_empty \cup not_full : SpuriousWakeup(t)
      PROVE  UNCHANGED <<ring, accepted, taken>>
  BY <1>6 DEF ShutdownQueue, qvars, SpuriousWakeup, ring
<1>. QED
  BY <1>1, <1>2, <1>3, <1>4, <1>5, <1>6 DEF QNext, Enqueue, Dequeue

\* The types and the ring invariant hold in every reachable state: front
\* stays in the ring, rear in the ring or at -1, count between 0 and
\* MAX_QUEUE_SIZE, and every slot in use holds the task it was given.
THEOREM RingCorrect == QSpec => [](QTypeOK /\ RingInv)
<1>1. QInit => QTypeOK /\ RingInv
  BY SizeAssumption DEF QInit, QTypeOK, RingInv, RingConsistent, Slots
<1>2. QTypeOK /\ RingInv /\ [QNext]_qvars => (QTypeOK /\ RingInv)'
  BY TypeStep, RingStep
<1>. QED
  BY <1>1, <1>2, PTL DEF QSpec

\* Type correctness of the queue, for every ring size: no enqueue_task or
\* dequeue_task indexes outside tasks[].
THEOREM TypeCorrect == QSpec => []QTypeOK
  BY RingCorrect, PTL
-----------------------------------------------------------------------------
\* What the ring holds is a sequence of tasks.
LEMMA ContentsType ==
    ASSUME QTypeOK, RingInv
    PROVE  /\ Contents \in Seq(Task) /\ Len(Contents) = count
           /\ \A i \in 1 .. count : Contents[i] = accepted[Len(taken) + i]
<1>1. Contents = [i \in 1 .. count |-> accepted[Len(taken) + i]]
  BY DEF Contents, RingInv
<1>2. \A i \in 1 .. count : accepted[Len(taken) + i] \in Task
  BY SizeAssumption DEF RingInv, QTypeOK
<1>3. count \in Nat
  BY SizeAssumption DEF QTypeOK
<1>4. Contents \in [1 .. count -> Task]
  BY <1>1, <1>2
<1>5. Contents \in Seq(Task) /\ Len(Contents) = count
  BY <1>3, <1>4
<1>. QED
  BY <1>1, <1>5

\* Tasks come out in the order in which they went in, none lost, none
\* duplicated, none overwritten, for every ring size and any number of
\* threads calling enqueue_task and dequeue_task.
THEOREM FirstInFirstOut == QSpec => []FIFO
<1>1. QTypeOK /\ RingInv => FIFO
  <2> SUFFICES ASSUME QTypeOK, RingInv
               PROVE  accepted = taken \o Contents
    BY DEF FIFO
  <2>1. /\ taken \in Seq(Task) /\ accepted \in Seq(Task) /\ Contents \in Seq(Task)
        /\ Len(Contents) = count
        /\ Len(accepted) = Len(taken) + count
    BY ContentsType DEF QTypeOK, RingInv
  <2>2. taken \o Contents \in Seq(Task) /\ Len(taken \o Contents) = Len(accepted)
    BY <2>1
  <2>3. ASSUME NEW i \in 1 .. Len(accepted)
        PROVE  accepted[i] = (taken \o Contents)[i]
    <3>1. CASE i <= Len(taken)
      BY <2>1, <3>1 DEF RingInv
    <3>2. CASE i > Len(taken)
      <4>1. i - Len(taken) \in 1 .. count
        BY <2>1, <3>2
      <4>2. Contents[i - Len(taken)] = accepted[Len(taken) + (i - Len(taken))]
        BY <4>1, ContentsType
      <4>3. Len(taken) + (i - Len(taken)) = i
        BY <2>1
      <4>4. (taken \o Contents)[i] = Contents[i - Len(taken)]
        BY <2>1, <3>2
      <4>. QED
        BY <4>2, <4>3, <4>4
    <3>. QED
      BY <2>1, <3>1, <3>2
  <2>. QED
    BY <2>1, <2>2, <2>3, SeqEqual
<1>. QED
  BY <1>1, RingCorrect, PTL

-----------------------------------------------------------------------------
\* The wake-up bookkeeping, made inductive: only threads inside a call sleep,
\* and nobody sleeps after shutdown_work_queue.
WakeInv == /\ NoLostWakeup
           /\ not_empty \subseteq inside
           /\ \A p \in not_full : arg[p] # NULL
           /\ shutdown => not_empty = {} /\ not_full = {}

AwakeConsumers == {c \in Consumers : ReadyConsumer(c)}
AwakeProducers == {p \in Producers : ReadyProducer(p)}

\* The sets of awake threads counted by NoLostWakeup are finite.
LEMMA AwakeFinite ==
    /\ IsFiniteSet(AwakeConsumers) /\ Cardinality(AwakeConsumers) \in Nat
    /\ IsFiniteSet(AwakeProducers) /\ Cardinality(AwakeProducers) \in Nat
<1>1. AwakeConsumers \subseteq Consumers /\ AwakeProducers \subseteq Producers
  BY DEF AwakeConsumers, AwakeProducers
<1>2. IsFiniteSet(AwakeConsumers) /\ IsFiniteSet(AwakeProducers)
  BY <1>1, FS_Subset, FiniteAssumption
<1>. QED
  BY <1>2, FS_CardinalityType

\* Adding to and removing from a finite set, for the two sets of awake threads.
LEMMA CardSteps ==
    ASSUME NEW S, NEW T, IsFiniteSet(S), IsFiniteSet(T)
    PROVE  /\ Cardinality(S) \in Nat /\ Cardinality(T) \in Nat
           /\ S \subseteq T => Cardinality(S) <= Cardinality(T)
           /\ \A x : x \notin S /\ S \cup {x} \subseteq T
                       => Cardinality(S) + 1 <= Cardinality(T)
           /\ \A x : S \ {x} \subseteq T => Cardinality(S) - 1 <= Cardinality(T)
<1>1. Cardinality(S) \in Nat /\ Cardinality(T) \in Nat
  BY FS_CardinalityType
<1>2. S \subseteq T => Cardinality(S) <= Cardinality(T)
  BY FS_Subset
<1>3. ASSUME NEW x, x \notin S, S \cup {x} \subseteq T
      PROVE  Cardinality(S) + 1 <= Cardinality(T)
  <2>1. IsFiniteSet(S \cup {x}) /\ Cardinality(S \cup {x}) = Cardinality(S) + 1
    BY <1>3, FS_AddElement
  <2>. QED
    BY <1>3, <2>1, FS_Subset
<1>4. ASSUME NEW x, S \ {x} \subseteq T
      PROVE  Cardinality(S) - 1 <= Cardinality(T)
  <2>1. CASE x \in S
    <3>1. IsFiniteSet(S \ {x}) /\ Cardinality(S \ {x}) = Cardinality(S) - 1
      BY <2>1, FS_RemoveElement
    <3>. QED
      BY <1>4, <3>1, FS_Subset
  <2>2. CASE x \notin S
    <3>1. S \subseteq T
      BY <1>4, <2>2
    <3>. QED
      BY <1>1, <1>2, <3>1
  <2>. QED
    BY <2>1, <2>2
<1>. QED
  BY <1>1, <1>2, <1>3, <1>4
\* One step keeps WakeInv: a stored task wakes a sleeping consumer, a freed
\* slot a sleeping producer, and a thread falls asleep only when there is
\* nothing for it to do.
LEMMA WakeStep ==
    ASSUME QTypeOK, QTypeOK', WakeInv, [QNext]_qvars
    PROVE  WakeInv'
<1> DEFINE C == AwakeConsumers
           P == AwakeProducers
<1>1. /\ IsFiniteSet(C) /\ IsFiniteSet(C') /\ Cardinality(C) \in Nat
      /\ IsFiniteSet(P) /\ IsFiniteSet(P') /\ Cardinality(P) \in Nat
      /\ Cardinality(C') \in Nat /\ Cardinality(P') \in Nat
  <2>1. (IsFiniteSet(C) /\ Cardinality(C) \in Nat /\ IsFiniteSet(P) /\ Cardinality(P) \in Nat)'
    BY AwakeFinite, PTL
  <2>. QED
    BY <2>1, AwakeFinite
<1>2. WakeInv <=> /\ not_empty # {} => count <= Cardinality(C)
                  /\ not_full # {} => MAX_QUEUE_SIZE - count <= Cardinality(P)
                  /\ not_empty \subseteq inside
                  /\ \A p \in not_full : arg[p] # NULL
                  /\ shutdown => not_empty = {} /\ not_full = {}
  BY DEF WakeInv, NoLostWakeup, AwakeConsumers, AwakeProducers
<1>3. WakeInv' <=> /\ not_empty' # {} => count' <= Cardinality(C')
                   /\ not_full' # {} => MAX_QUEUE_SIZE - count' <= Cardinality(P')
                   /\ not_empty' \subseteq inside'
                   /\ \A p \in not_full' : arg'[p] # NULL
                   /\ shutdown' => not_empty' = {} /\ not_full' = {}
  BY DEF WakeInv, NoLostWakeup, AwakeConsumers, AwakeProducers
<1>4. MAX_QUEUE_SIZE \in Nat /\ count \in Nat /\ count' \in Nat
  BY SizeAssumption DEF QTypeOK
<1>5. ASSUME UNCHANGED <<count, shutdown, arg, inside>>,
             not_empty' \subseteq not_empty, not_full' \subseteq not_full
      PROVE  WakeInv'
  <2>1. C \subseteq C' /\ P \subseteq P'
    BY <1>5 DEF AwakeConsumers, AwakeProducers, ReadyConsumer, ReadyProducer
  <2>2. Cardinality(C) <= Cardinality(C') /\ Cardinality(P) <= Cardinality(P')
    BY <2>1, <1>1, CardSteps
  <2>. QED
    BY <1>1, <1>2, <1>3, <1>4, <1>5, <2>2
<1>6. ASSUME NEW p \in Producers, NEW k \in Task, CallEnqueue(p, k)
      PROVE  WakeInv'
  <2>1. C \subseteq C' /\ P \subseteq P'
    BY <1>6, NullAssumption DEF CallEnqueue, AwakeConsumers, AwakeProducers,
                                ReadyConsumer, ReadyProducer, QTypeOK
  <2>2. Cardinality(C) <= Cardinality(C') /\ Cardinality(P) <= Cardinality(P')
    BY <2>1, <1>1, CardSteps
  <2>. QED
    BY <1>1, <1>2, <1>3, <1>4, <1>6, <2>2, NullAssumption
       DEF CallEnqueue, ring, QTypeOK
<1>7. ASSUME NEW p \in Producers, EnqueueWait(p)
      PROVE  WakeInv'
  <2>1. C' = C
    BY <1>7 DEF EnqueueWait, AwakeConsumers, ReadyConsumer
  <2>. QED
    BY <1>1, <1>2, <1>3, <1>4, <1>7, <2>1 DEF EnqueueWait, ReadyProducer, ring
<1>8. ASSUME NEW p \in Producers, EnqueueRefused(p)
      PROVE  WakeInv'
  BY <1>2, <1>3, <1>8 DEF EnqueueRefused
<1>9. ASSUME NEW p \in Producers, EnqueueStore(p)
      PROVE  WakeInv'
  <2>1. /\ count' = count + 1 /\ not_full' = not_full /\ inside' = inside
        /\ shutdown' = shutdown /\ ~shutdown /\ arg' = [arg EXCEPT ![p] = NULL]
        /\ p \notin not_full /\ not_empty' \in Signal(not_empty)
    BY <1>9 DEF EnqueueStore, ReadyProducer
  <2>2. P \ {p} \subseteq P'
    BY <2>1 DEF AwakeProducers, ReadyProducer, QTypeOK
  <2>3. Cardinality(P) - 1 <= Cardinality(P')
    BY <2>2, <1>1, CardSteps
  <2>4. not_empty' # {} => count' <= Cardinality(C')
    <3>1. SUFFICES ASSUME not_empty' # {}
                   PROVE  count' <= Cardinality(C')
      OBVIOUS
    <3>2. PICK t \in not_empty : not_empty' = not_empty \ {t}
      BY <2>1, <3>1 DEF Signal
    <3>3. t \notin C /\ C \cup {t} \subseteq C'
      BY <3>2, <2>1, <1>2 DEF AwakeConsumers, ReadyConsumer, QTypeOK
    <3>4. Cardinality(C) + 1 <= Cardinality(C')
      BY <3>3, <1>1, CardSteps
    <3>. QED
      BY <1>1, <1>2, <1>4, <2>1, <3>2, <3>4
  <2>5. not_empty' \subseteq inside'
    BY <2>1, <1>2, SignalShrinks
  <2>6. \A q \in not_full' : arg'[q] # NULL
    BY <2>1, <1>2 DEF QTypeOK
  <2>7. not_full' # {} => MAX_QUEUE_SIZE - count' <= Cardinality(P')
    BY <1>1, <1>2, <1>4, <2>1, <2>3
  <2>. QED
    BY <1>3, <2>1, <2>4, <2>5, <2>6, <2>7
<1>10. ASSUME NEW c \in Consumers, CallDequeue(c)
       PROVE  WakeInv'
  <2>1. C \subseteq C' /\ P \subseteq P'
    BY <1>10 DEF CallDequeue, AwakeConsumers, AwakeProducers, ReadyConsumer, ReadyProducer
  <2>2. Cardinality(C) <= Cardinality(C') /\ Cardinality(P) <= Cardinality(P')
    BY <2>1, <1>1, CardSteps
  <2>. QED
    BY <1>1, <1>2, <1>3, <1>4, <1>10, <2>2 DEF CallDequeue, ring
<1>11. ASSUME NEW c \in Consumers, DequeueWait(c)
       PROVE  WakeInv'
  <2>1. P' = P
    BY <1>11 DEF DequeueWait, AwakeProducers, ReadyProducer
  <2>. QED
    BY <1>1, <1>2, <1>3, <1>4, <1>11, <2>1 DEF DequeueWait, ReadyConsumer, ring
<1>12. ASSUME NEW c \in Consumers, DequeueNull(c)
       PROVE  WakeInv'
  BY <1>2, <1>3, <1>12 DEF DequeueNull
<1>13. ASSUME NEW c \in Consumers, DequeueTake(c)
       PROVE  WakeInv'
  <2>1. /\ count' = count - 1 /\ not_empty' = not_empty /\ inside' = inside \ {c}
        /\ shutdown' = shutdown /\ arg' = arg
        /\ c \notin not_empty /\ not_full' \in Signal(not_full)
    BY <1>13 DEF DequeueTake, ReadyConsumer
  <2>2. C \ {c} \subseteq C'
    BY <2>1 DEF AwakeConsumers, ReadyConsumer
  <2>3. Cardinality(C) - 1 <= Cardinality(C')
    BY <2>2, <1>1, CardSteps
  <2>4. not_full' # {} => MAX_QUEUE_SIZE - count' <= Cardinality(P')
    <3>1. SUFFICES ASSUME not_full' # {}
                   PROVE  MAX_QUEUE_SIZE - count' <= Cardinality(P')
      OBVIOUS
    <3>2. PICK t \in not_full : not_full' = not_full \ {t}
      BY <2>1, <3>1 DEF Signal
    <3>3. t \notin P /\ P \cup {t} \subseteq P'
      BY <3>2, <2>1, <1>2 DEF AwakeProducers, ReadyProducer, QTypeOK
    <3>4. Cardinality(P) + 1 <= Cardinality(P')
      BY <3>3, <1>1, CardSteps
    <3>. QED
      BY <1>1, <1>2, <1>4, <2>1, <3>2, <3>4
  <2>5. not_empty' \subseteq inside'
    BY <2>1, <1>2
  <2>6. not_full' \subseteq not_full
    BY <2>1, SignalShrinks
  <2>7. not_empty' # {} => count' <= Cardinality(C')
    BY <1>1, <1>2, <1>4, <2>1, <2>3
  <2>. QED
    BY <1>2, <1>3, <2>1, <2>4, <2>5, <2>6, <2>7
<1>14. CASE ShutdownQueue
  BY <1>3, <1>14 DEF ShutdownQueue
<1>15. ASSUME NEW t \in not_empty \cup not_full, SpuriousWakeup(t)
       PROVE  WakeInv'
  BY <1>5, <1>15 DEF SpuriousWakeup, ring
<1>16. CASE UNCHANGED qvars
  BY <1>5, <1>16 DEF qvars
<1>. QED
  BY <1>6, <1>7, <1>8, <1>9, <1>10, <1>11, <1>12, <1>13, <1>14, <1>15, <1>16
     DEF QNext, Enqueue, Dequeue

\* No signal is lost, for any number of threads and any ring size: as long
\* as a thread sleeps, the tasks (or free slots) it could use are all spoken
\* for by threads that are awake and on their way to the mutex.
THEOREM WakeupsSuffice == QSpec => []NoLostWakeup
<1>1. QInit => WakeInv
  BY DEF QInit, WakeInv, NoLostWakeup
<1>2. QTypeOK /\ QTypeOK' /\ WakeInv /\ [QNext]_qvars => WakeInv'
  BY WakeStep
<1>3. WakeInv => NoLostWakeup
  BY DEF WakeInv
<1>. QED
  BY <1>1, <1>2, <1>3, TypeCorrect, PTL DEF QSpec
-----------------------------------------------------------------------------
\* The ring buffer, with its indices, condition variables and sleeping
\* threads, is a first-in first-out channel of capacity MAX_QUEUE_SIZE that
\* can be closed: every step of a thread is one step of the channel or none.
THEOREM QueueIsChannel == QSpec => ImplementsChannel
<1>1. QInit => Channel!Init
  <2> SUFFICES ASSUME QInit PROVE Contents = << >> /\ shutdown = FALSE
    BY DEF Channel!Init
  <2>. QED
    BY DEF QInit, Contents
<1>2. ASSUME QTypeOK, QTypeOK', RingInv, RingInv', [QNext]_qvars
      PROVE  Channel!Next \/ UNCHANGED <<Contents, shutdown>>
  <2>1. /\ Contents \in Seq(Task) /\ Len(Contents) = count
        /\ \A i \in 1 .. count : Contents[i] = accepted[Len(taken) + i]
    BY <1>2, ContentsType
  <2>2. /\ Contents' \in Seq(Task) /\ Len(Contents') = count'
        /\ \A i \in 1 .. count' : Contents'[i] = accepted'[Len(taken') + i]
    <3>1. QTypeOK' /\ RingInv' => (/\ Contents \in Seq(Task) /\ Len(Contents) = count
                                   /\ \A i \in 1 .. count : Contents[i] = accepted[Len(taken) + i])'
      BY ContentsType, PTL
    <3>. QED
      BY <1>2, <3>1
  <2>3. ASSUME NEW p \in Producers, EnqueueStore(p)
        PROVE  Channel!Next
    <3>1. /\ count' = count + 1 /\ count < MAX_QUEUE_SIZE /\ ~shutdown
          /\ shutdown' = shutdown /\ taken' = taken /\ arg[p] \in Task
          /\ accepted' = Append(accepted, arg[p])
      BY <1>2, <2>3, SizeAssumption DEF EnqueueStore, ReadyProducer, QTypeOK
    <3>2. Contents' = Append(Contents, arg[p])
      <4>1. Len(Contents') = Len(Append(Contents, arg[p])) /\ Append(Contents, arg[p]) \in Seq(Task)
        BY <2>1, <2>2, <3>1
      <4>2. ASSUME NEW i \in 1 .. Len(Contents')
            PROVE  Contents'[i] = Append(Contents, arg[p])[i]
        <5>1. Contents'[i] = accepted'[Len(taken) + i]
          BY <2>2, <3>1
        <5>2. Len(accepted) = Len(taken) + count /\ accepted \in Seq(Task) /\ taken \in Seq(Task)
          BY <1>2 DEF RingInv, QTypeOK
        <5>3. CASE i <= count
          BY <2>1, <2>2, <3>1, <5>1, <5>2, <5>3
        <5>4. CASE i = count + 1
          BY <2>1, <2>2, <3>1, <5>1, <5>2, <5>4
        <5>. QED
          BY <2>1, <2>2, <3>1, <5>3, <5>4
      <4>. QED
        BY <2>2, <4>1, <4>2, SeqEqual
    <3>. QED
      BY <2>1, <3>1, <3>2 DEF Channel!Next, Channel!Send
  <2>4. ASSUME NEW c \in Consumers, DequeueTake(c)
        PROVE  Channel!Next
    <3>1. /\ count' = count - 1 /\ count > 0 /\ shutdown' = shutdown
          /\ accepted' = accepted /\ Len(taken') = Len(taken) + 1
      BY <1>2, <2>4, FrontTask, SizeAssumption DEF DequeueTake, QTypeOK
    <3>2. Contents' = Tail(Contents)
      <4>1. Tail(Contents) \in Seq(Task) /\ Len(Tail(Contents)) = count'
        BY <2>1, <3>1
      <4>2. ASSUME NEW i \in 1 .. count'
            PROVE  Contents'[i] = Tail(Contents)[i]
        <5>1. Tail(Contents)[i] = Contents[i + 1]
          BY <2>1, <3>1
        <5>2. Contents[i + 1] = accepted[Len(taken) + (i + 1)]
          BY <2>1, <3>1
        <5>3. Contents'[i] = accepted[Len(taken) + 1 + i]
          BY <2>2, <3>1
        <5>4. Len(taken) + 1 + i = Len(taken) + (i + 1)
          BY <1>2 DEF QTypeOK
        <5>. QED
          BY <5>1, <5>2, <5>3, <5>4
      <4>. QED
        BY <2>2, <4>1, <4>2, SeqEqual
    <3>. QED
      BY <2>1, <3>1, <3>2 DEF Channel!Next, Channel!Receive
  <2>5. CASE ShutdownQueue
    <3>1. Contents' = Contents
      BY <2>5 DEF ShutdownQueue, ring, Contents, SlotOf
    <3>. QED
      BY <2>5, <3>1 DEF ShutdownQueue, Channel!Next, Channel!Close
  <2>6. CASE UNCHANGED <<ring, shutdown>>
    BY <2>6 DEF ring, Contents, SlotOf
  <2>7. ASSUME NEW p \in Producers,
               EnqueueWait(p) \/ EnqueueRefused(p) \/ \E k \in Task : CallEnqueue(p, k)
        PROVE  UNCHANGED <<ring, shutdown>>
    BY <2>7 DEF EnqueueWait, EnqueueRefused, CallEnqueue
  <2>8. ASSUME NEW c \in Consumers, CallDequeue(c) \/ DequeueWait(c) \/ DequeueNull(c)
        PROVE  UNCHANGED <<ring, shutdown>>
    BY <2>8 DEF CallDequeue, DequeueWait, DequeueNull
  <2>9. ASSUME UNCHANGED qvars \/ \E t \in not_empty \cup not_full : SpuriousWakeup(t)
        PROVE  UNCHANGED <<ring, shutdown>>
    BY <2>9 DEF qvars, SpuriousWakeup, ring
  <2>. QED
    BY <1>2, <2>3, <2>4, <2>5, <2>6, <2>7, <2>8, <2>9 DEF QNext, Enqueue, Dequeue
<1>. QED
  BY <1>1, <1>2, RingCorrect, PTL DEF QSpec, ImplementsChannel, Channel!Spec
=============================================================================
