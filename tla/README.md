# Verification of the embedded Linux course programs

The repository is a course: some sixty C programs under `lesson_*/code_examples`,
most of them a page of system calls, and a Yocto layer that builds a few of them for
a board. They do not call each other. The ones worth a model are those whose
correctness depends on an order of steps nobody controls: threads on a shared
queue, an edge-triggered server, signal handlers over mutexes, processes that talk
through FIFOs, read-modify-write on shared words. This directory models eighteen of
them in TLA+, checks them with TLC, and proves with TLAPS every invariant that the
runs check, for every size and every number of threads, clients, receivers or children.

Line numbers below are those of the C file named at the head of each section.

## 1. Inventory

| part | state | operations | what makes it correct |
|---|---|---|---|
| work queue (lesson_9/04) | ring of task pointers, `front`, `rear`, `count`, `shutdown`, sleepers on two condition variables | `enqueue_task`, `dequeue_task`, `shutdown_work_queue`, `destroy_work_queue` | FIFO, no lost wake-up, every accepted task runs once, nothing is freed while used |
| event-driven server (lesson_9/05) | client table, epoll interest and ready list, write buffers, descriptors, `running` | accept loop, read and write events, `close_client`, clients, signal | every edge is used, table = open sockets, one echo per request, termination |
| deadlock demonstrations (lesson_9/07) | two mutexes, pending cancellations | two threads in three variants, cancel, join | ordering and timeouts exclude the circular wait |
| daemon threads (lesson_9/10) | `active_threads`, `running`, sleeping main | register, unregister, wait, signal | the count is exact, the last signal is not missed |
| eventfd broadcast (lesson_5/04) | message, `receivers_mask`, `ack_mask` in shared memory, eventfd counters | broadcast by T1, answer by a receiver, teardown | a reported broadcast was read by all its receivers |
| timer callbacks (lesson_12/01) | timer slots, `timers_mutex` and a mutex per slot, queued signals | create, delete, cleanup, handler, callback thread | no POSIX timer without its slot, lock order |
| CPU affinity benchmark (lesson_8/06) | result arrays and `test_running` in one block of shared memory | worker loop, periodic report, stop, join, display | a stop is final and prompt |
| process yielding (lesson_8/03) | a `running` flag per process, shared `yielding` and `active_pid` | fork, handlers, keys, SIGTERM to the children, waitpid | no child survives the parent's end |
| FIFOs with epoll (lesson_5/03) | four FIFOs, who has opened which end, messages in them | opens, `writev` to both, epoll with timeout, log and echo | the opens meet, what was sent is logged |
| log relay (lesson_5/01) | POSIX message queue, log file | workers' sends, I/O thread, EXIT | every entry that the queue accepted is written once and in order before "complete" |
| race demonstration (lesson_9/06) | two counters, a mutex | unlocked and locked increments, joins | no increment is missing under the mutex; without it at least two are left |
| zombie reaping (lesson_7/02) | children, pending SIGCHLD, `errno` | fork, exit of a child, handler | no ended child is overlooked, the handler is invisible to `main` |
| FIFO reader (lesson_3/02) | bytes in a FIFO, two buffers | typed lines, merged reads, stop word | the stop word ends both processes |
| select loop (lesson_4/03) | `keep_running`, `eof_reached`, what is readable | `select` with timeout, two reads, SIGINT | CTRL+C ends it wherever it is |
| memory alignment (lesson_11/02) | heap blocks, the address kept in front of the data | two allocations, three tests, two releases | every access lies in its block |
| LED command (lesson_10/00, copied into the Yocto layer) | a sysfs pin shared by all invocations | export, direction, on, off, toggle, blink | the LED is dark unless somebody lit it; toggle inverts it (it does not) |
| pin configuration (lesson_10/01) | registers of a GPIO bank with other users | multiplexer, direction, set and clear | the other pins are left alone |
| cyclic test (lesson_8/07, copied into the Yocto layer) | times, minimum, maximum, sum, `keep_running` | target time, wake-up, statistics, signal | what is printed is true |
| coroutines, event loop (lesson_9/01, 03), write loop (lesson_3/01) | a few integers | sequential and deterministic loops | one run of the program shows it |
| everything else | none of its own | straight-line system calls, printing, shell scripts, recipes | nothing a model would decide |

Components interact only inside a program: threads through mutexes, condition
variables and shared memory, processes through signals, FIFOs and queues, the server
and its clients through sockets. What is hard to test in them is listed, line by
line, under `hazards` in `PROJECT.json`; the properties below are aimed at that list.

## 2. Modules and their code

State variables keep the names of the C variables where there is one. A critical
section under one mutex is one action; so is a stretch of code that touches nothing
shared. Text, printing and durations are left out. A call that the code tests for
failure may fail, at any time and whatever else happens, with these exceptions:

- `malloc` in the work queue's program, `mmap`, `eventfd` and `calloc` at the start of
  the broadcast, `mmap` in the yielding processes, `sigaction` in the timers and the
  zombie example: the program ends before it has started anything;
- `msync`, `read` and `write` on the open eventfds, `write` (other than SIGPIPE) and
  `unlink` in the FIFO reader, `nanosleep` in the pin configuration: the code prints a
  message, or nothing, and goes on.

Operators marked "Mutant"
are not part of the models: they are plausible mistakes, each kept beside the
definition it would replace, and each is known to break the property `PROJECT.json`
names for it.

**`WorkQueue`**, **`BoundedChannel`**, **`WorkQueueProofs`**
(`lesson_9/.../04_work_queue_pattern.c`, 8-144). Any number of producers and
consumers. `EnqueueWait/Refused/Store` and `DequeueWait/Null/Take` are the ways one
turn of the loops of `enqueue_task` and `dequeue_task` can end; `ShutdownQueue` is
`shutdown_work_queue`. `pthread_cond_signal` wakes any one sleeper; a woken thread
has to get the mutex again and others may come first; `SpuriousWakeup` may happen at
any time. `accepted` and `taken` are history. `BoundedChannel` is what the queue
promises (a bounded FIFO that can be closed); `WorkQueue` implements it with the
mapping `chan <- Contents`, `closed <- shutdown`.

**`WorkQueuePattern`** (same file, 56-77 and 147-248) composes the queue with `main`
and the workers of the program and keeps the state of every heap block. `malloc` is
taken to succeed.

**`EventServer`** (`lesson_9/.../05_event_driven_server.c`). `ready` is epoll's ready
list: an item enters it when something arrives and when `EPOLL_CTL_ADD`/`MOD` finds
it ready, and `epoll_wait` empties it, so a lost edge stays lost. `batch` is what is
left of `events[]`; a descriptor is the lowest free number, shared by both sides as
in the program, so that numbers are reused within a batch. `faults` chooses per
behaviour whether calls may fail and signals come; `ClientsServed` is about the
behaviours without. Under `faults` every accept may fail (`AcceptFails`), whether or not
descriptors are left; `missed` then says that the connections behind it are reported by
nobody until another one comes. A client whose `recv` fails (`RecvFails`) leaves while its
reply is on the way, so that the server meets a connection with EPOLLIN and EPOLLOUT at
once, a reset one (EPOLLERR and EPOLLHUP, the flag "err"), and a failing write.
`Release` is a `close_client` after which the same event has branches left: they use the
freed Client (`freedUse`). The branch for an unknown descriptor (330-335) is not modelled
as a step because it is never taken, which is a conjunct of `TableMatchesSockets`. Requests
are short and travel on the loopback: they arrive whole.

**`DeadLock`** (`lesson_9/.../07_dead_lock.c`). A thread function is the list of its
calls on mutexes. `Cancelled` happens only at cancellation points (`sleep`, possibly
`printf`), never in `pthread_mutex_lock`, and leaves its mutexes locked.

**`DaemonThread`** (`lesson_9/.../10_deamon_thread.c`). Returning from main ends every
thread. The signal handler may run at any time.

**`EventfdBroadcast`** (`lesson_5/.../04_eventfd.c`). Masks are sets of receivers.
`ack_mask |= mask` is a load (`RxLoad`) and a store (`RxStore`). The user may type any
mask, also one out of range, whose message is stored before the test. `RxWait` lets a
receiver that is already blocked in its read return when T1 closes the eventfd, which
Linux does not do: the model allows more than the code, never less.

**`TimerCallback`**, **`TimerConstants`** (`lesson_12/.../01_timer_callback.c`). `h` is the
handler on top of main: it may start at any point of main, also with a mutex held, and
main goes on only after it. The callback threads are created in the handler and inherit
its mask with SIGRTMIN blocked, so that no signal is delivered to them. `timer1_callback`
may read its id before main has stored it; it is then any value. Each mutex operation that
can block is a step.

**`AffinityAdvance`** (`lesson_8/.../06_affinity_advance.c`). `shared_data_t` is laid
out in words of four bytes, so that an index beyond an array names a word of a later
field, as it does in memory. The four stores of a report are four steps. A value is
abstracted to zero, one, or "a number that worker w stored".

**`ProcessYielding`** (`lesson_8/.../03_process_yielding.c`). Each process has its own
flag; a signal kills a process that has not yet installed its handler. The counters
of the children are left out: they are only printed.

**`EpollFifos`** (`lesson_5/.../epoll_multi_buffer_fds.c`). Each process makes its four
opens in the order of the code; opening for writing blocks until somebody reads.
`made` is any set of FIFOs, since `main` ignores the result of `create_fifos`. A FIFO
whose reader has gone kills its writer by SIGPIPE; `writev` may also fail for one of the
two FIFOs, and `epoll_wait` may fail in either process.

**`LogRelay`** (`lesson_5/.../01_multithreaded_relegated.c`). The queue is bounded,
outlives the program, and may hold an entry of an earlier run, the EXIT that nobody took
then (`OldExit`), or both. `mq_send` may fail for a worker, whose entry then joins `lost`,
and for main, which goes on to join an I/O thread that nobody told.

**`RaceCounter`** (`lesson_9/.../06_race.c`). An increment of a volatile variable is a
load and a store. `main` does not test `pthread_create`: a thread may be missing, and
joining its id, which was never set or was joined before, fails or crashes.

**`ChildReaper`** (`lesson_7/.../02_zombies.c`). SIGCHLD is one pending bit, blocked
while its handler runs; each `waitpid` of the handler's loop is a step, and children
may end between them. `errno` is modelled because the handler can run between a failed
`fork` and its `perror`.

**`MemAlign`** (`lesson_11/.../02_mem_align.c`). Addresses are byte numbers; `malloc`
returns any free multiple of `Granule`. The contents of the arrays are left out; the
elements each test touches (`Touched`) are not.

**`PinConfig`** (`lesson_10/.../01_pin_config.c`). A register is the set of its bits that
are set. Loads and stores of `GPIO_OE` and of the multiplexer are separate steps, writes
to the set and clear registers are one. Other users of the bank are external actions;
`wishOE`, `wishOUT` and `raced` are history. The four patterns are 27 on-off cycles.

**`GpioLed`** (`lesson_10/.../00_led.c`). Several invocations work on one pin. External is
what sysfs does: writing `out` to `direction` also drives the pin low, and the value of
an input cannot be written. Every open, read and write may fail. `lit` and `was_lit` are
history.

**`CyclicTest`** (`lesson_8/.../07_cyclic_test.c`). A second has `NS` fractions instead of
10^9, and the difference of two times is computed modulo the width of a `long`
(`Wrap`). How late each wake-up is, is an input.

**`FifoReader`** (`lesson_3/.../read.c`). The FIFO is a byte stream: the newline is not
sent, and one read takes what several writes left. Text is made of pieces, two of which
are the stop word, so that words can be joined and split. The parent's buffer is not
initialised and keeps what it had at end of file or when the read fails (`NothingRead`).

**`SelectLoop`** (`lesson_4/.../poll-vs-select.c`). SIGINT may come between the test of
`keep_running` and the sleep in `select`, where nothing interrupts it.

**`SmallPrograms`** puts `DaemonThread`, `DeadLock`, `LogRelay`, `ProcessYielding`,
`EpollFifos`, `FifoReader` and `SelectLoop` side by side: `program` names the one a
behaviour is about, the others stand still. Nothing is shared between them; each keeps
the fairness of its own `Spec`. It exists so that the small state spaces are explored
by one run. **`MorePrograms`** does the same, without fairness, for `AffinityAdvance`,
`RaceCounter`, `ChildReaper`, `MemAlign`, `PinConfig`, `GpioLed` and `CyclicTest`, and
**`EventPrograms`**, with the fairness of both, for `EventfdBroadcast` and `TimerCallback`.

Every module has a `TypeOK`, which documents the ranges of its variables. The runs list
none of them, since they spend their properties on the hazards; what of them an argument
needs is part of its inductive invariant and proved with it (section 4).

The theorems are in modules of their own:

| proofs | about | theorems |
|---|---|---|
| `WorkQueueProofs` | `WorkQueue` | `TypeCorrect`, `RingCorrect`, `FirstInFirstOut`, `WakeupsSuffice`, `QueueIsChannel` |
| `WorkQueuePatternProofs` | `WorkQueuePattern` | `EachTaskOnce`, `QueueFreedUnused`, `AllTasksRun` |
| `EventServerProofs` | `EventServer` | `TableIsRight`, `FreedClientUnused`, `RepliesAreEchoes`, `BacklogIsReported`, `ErrorsComeLast` |
| `EventfdProofs` | `EventfdBroadcast` | `ReportsAreTrue`, `BufferIsFree` |
| `TimerProofs` | `TimerCallback` | `TimersKeepTheirSlots` |
| `SmallProofs` | `DaemonThread`, `DeadLock`, `LogRelay` | `CountStaysExact`, `NoWakeupIsLost`, `NoCycleAfterPart1`, `EverythingIsLogged` |
| `MoreProofs` | `ChildReaper`, `MemAlign`, `PinConfig`, `GpioLed` | `ZombiesAreAlwaysSeen`, `ForkErrorIsReported`, `UnalignedStaysInside`, `OtherPinsAreKept`, `LedStaysDark` |
| `MeasureProofs` | `AffinityAdvance`, `RaceCounter`, `CyclicTest` | `StopIsPrompt`, `CountsAreRight`, `StatisticsTrue` |

## 3. Runs

| run | instance | shows |
|---|---|---|
| `work_queue` | 2 producers, 2 consumers, 2 slots, 4 tasks | `RingInv` (indices, counter and contents agree), `FIFO`, `NoLostWakeup`, the refinement `ImplementsChannel`, and `CallsReturn` after a shutdown. |
| `work_queue_program` | 3 workers, 2 slots, 4 tasks | `AcceptedOnce` (each accepted task is queued, held or has run, exactly one of these), `FreedOnlyWhenUnused`, `AllRunAtExit`, `Terminates`. |
| `event_server` | 2 clients of 2 requests, 2 slots, 4 descriptors | `TableMatchesSockets` (also: no event is for an unknown descriptor), `NoUseAfterFree` (unless the client left before its reply), `EchoIsRequest`, `NoStuckBacklog` (unless an accept failed), `ClientsServed` (without failures, every client that connects gets all its replies), `ProgramEnds` (unless a connection waits behind a failed accept). |
| `event_programs` | broadcast: 3 receivers, every mask, 2 commands; timers: 2 slots, 2 timers, 3 callback threads, 3 expiries | `ReportIsTrue`, `NoOverwriteUnderReader`; `BroadcastCompletes` for commands to one receiver (for several it is false, see below). `NoOrphanTimer` (unless a callback deleted another timer's slot), and `EndsOrHandlerOverLock`: the lock order is kept everywhere, so that the only deadlock is a handler over main with a lock held. |
| `small_programs` | 3 background threads with 2 rounds; the two threads of the deadlock demonstrations; 2 log workers with 2 entries, queue of 2; parent and 2 children; 2 lines on the FIFOs; 4 typed lines for the reader; 2 reads of file and input for the select loop | See the comments in `SmallPrograms`: the count and the end of the daemon threads, lock ordering and timeouts, logs that hold every entry the queue accepted (`AllLogged`, `RelayEnds`), no child left behind, opens that meet, lines that are logged, a stop word that ends the reader unless it was joined to other text (`StopEndsReader`), and `CtrlCEnds`. |
| `more_programs` | benchmark: 3 workers, arrays of 3; race: 2 threads of 3 increments; 3 children; arrays of 7 doubles on a heap of 320 bytes; a bank of 3 pins; 2 LED commands; 3 iterations of the latency test | `StopsPromptly`; `CountsAtEnd`; `ZombiesAreSeen`, `ForkErrorReported`; `UnalignedInside` (except for the address in front of a block that came aligned); `OtherPinsKept` (except for a direction written between load and store); `DarkUnlessLit` (once an invocation has set the direction, the LED is dark unless somebody lit it since); `StatisticsAreTrue` (unless a wake-up is too late for a `long`). |

Six runs show a disagreement between a comment or a message of the code and what
the code does; TLC's trace is the evidence, and `findings` in `PROJECT.json` quotes
the line.

| run | violated | in short |
|---|---|---|
| `deadlock_cancel` | `Part2Reached` | cancelling a thread that is blocked in `pthread_mutex_lock` has no effect; main hangs in its join (240-244) |
| `eventfd_lost_ack` | `AckTracksResponses` | two receivers in `ack_mask |= mask` at once lose a bit (139) |
| `timer_one_thread` | `OneThreadPerTimer` | an expiry during a callback starts a second thread in spite of the test (101-105) |
| `daemon_all_terminated` | `AllTerminated` | main reports all threads terminated before one has registered (117-123) |
| `affinity_stops` | `StopIsFinal` | 3 workers per CPU on arrays of `MAX_CPUS` entries: a report overwrites `test_running` (169-178) |
| `led_toggle` | `ToggleFindsState` | "Toggle the LED state" (108): setting the direction drives the pin low (139) before toggle reads it (153), so that it finds 0 and lights the LED, lit or not |

`Part2Reached` is checked under `Spec` with its fairness, so that the trace is a real
hang and not a scheduler that stops.

### Bounds

- Ring: two slots and four tasks wrap both indices while the ring is full and while
  it is empty; with two threads on each side a woken thread can lose the mutex to
  another. The proofs remove the bound.
- Program: four tasks on two slots make `main` sleep in `enqueue_task`; three workers
  sleep together, so that a signal for one and a broadcast for all differ.
- Server: two clients compete for descriptors and slots, two requests re-register a
  socket. Four descriptors are just enough for both ends of both connections, which
  `ClientsServed` needs; an accept that fails, for want of descriptors or otherwise, is in
  the behaviours with `faults`. Two clients are enough for its edge to be lost, and for a
  second connection to bring the first one back.
- Eventfd: three receivers and two commands; late signals of the first command meet
  the second. One command is enough for the lost bit.
- Timers: two slots let one timer take over the other's slot; the third expiry falls
  into a running callback, and each of the three can have its thread. `StopAfter` is 2
  instead of 5.
- Daemon threads: three threads, so that the count goes up again after it went down.
- Log relay: with two workers on a queue of two, `mq_send` blocks, and EXIT meets a
  full queue. What an earlier run left fills the queue by itself.
- FIFOs: two lines, so that one `readv` can take one or both. LED: `led_toggle` has one
  invocation, so that nobody else lights the pin.
- Affinity: `online_cpus = 1` gives three workers. With `MAX_CPUS = 3` no index leaves
  its array; with 1 it does, as in the code from four CPUs on (8 entries, 12 workers).
- Race: with three increments a thread can carry a stale value past a whole loop of the
  other, which is what brings the sum down to two.
- Zombies: three children, so that two end while the handler is at work on the first.
- Alignment: 64 and granules of 16, so that blocks come at every residue, aligned ones
  included; seven doubles are not a multiple of the unrolled loop's four.
- Pins and LED: two other pins, two invocations, two blinks instead of five.
- Latency test: `NS = 100`, intervals of 40: the target carries into the seconds from
  two of the three starting times. Lateness 110 is more than a second, 220 is more
  than `LongHalf`. `MinStart = 10` lies between two latencies.
- FIFO reader: reads of three pieces split and join words of two. Select loop: input and
  file both run dry, so that `select` really sleeps.
- Every `Max...` constant bounds how often the user types, a timer expires or a thread
  works; the guards name it.

`CHECK_DEADLOCK FALSE` stands in the configurations of programs that end (a process
that has exited takes no step) or, for `DeadLock`, block. `WorkQueuePattern` has a
stuttering step after its end instead. TLC's deadlock check does not decide whether the
queue can get stuck: in `WorkQueue` a `ShutdownQueue` is always possible, and in both
modules a sleeping thread may wake spuriously. That nobody is stuck is `NoLostWakeup`
before a shutdown, `CallsReturn` after it and `Terminates` for the program; none of these
counts on spurious wake-ups, which have no fairness.

### Fairness

Weak fairness is given to the steps of each thread or process, never to one of its
branches: the scheduler runs every thread that can run, and a free pthread mutex is
given to somebody who waits. No critical section of the queue blocks inside, so a
thread that wants the mutex is enabled until it has it. In `LogRelay` a worker in
`mq_send` has strong fairness: the queue may fill again before the worker has run, but
the kernel serves blocked senders in turn. There is no fairness on signals, keys,
lines, expiries of timers and spurious wake-ups: none of them need come. The failure of a
call that blocks (`recv`, `mq_send`, `epoll_wait` without timeout) has no fairness either,
so that no property holds because a blocked call must fail some time; where a call
returns in any case, its failing is one way in which it returns.
In `FifoReader` nobody has to type; in `SelectLoop` the timeout makes `select` return.
The modules of `MorePrograms` state no fairness, since their properties are invariants.

## 4. Proofs

Each theorem has the form `Spec => []P` for a property `P` that a run checks (two of
`WorkQueueProofs` and one each of `SmallProofs` and `EventServerProofs` excepted, see
below), holds for every value of the constants that the named assumptions allow, and rests
on an inductive invariant: true at the start, kept by every step, and stronger than `P`. Every inductive invariant
was checked by TLC on the instance of its run before it was proved. In `SmallPrograms`,
`MorePrograms` and, for the timers, `EventPrograms` the theorems are about the composition
(`AllSpec`), where the steps of the other programs leave the variables of this one alone.

The assumptions are in the modules that declare the constants, and TLC evaluates them.
They say that sizes are natural numbers, positive where the code has a positive number,
and:

- `NullAssumption`: `NULL` is no task. `FiniteAssumption`: the threads are finitely many.
- `MainAssumption`, `TaskAssumption`: main is the only producer, and the tasks are
  `1 .. NUM_TASKS`, as `main` numbers them.
- `RelayAssumption`: no worker of the log relay is called EXIT or old, so that the
  entries can be told apart from the other messages.
- `AlignAssumption`: addresses that `malloc` returns are multiples of `Granule`, which
  holds a pointer and divides `alignment`; an array has at least the four elements that
  the unrolled loop takes at once.
- `CyclicAssumption`: an interval is shorter than a second, and a `long` holds more than
  a second of nanoseconds.

One theorem has a hypothesis besides: `StopIsPrompt` takes
`num_workers <= MAX_CPUS + 1`: one worker more reports its cache misses into `test_running`, as `affinity_stops` shows. The code meets it up to three
CPUs (8 entries, nine workers).

### The work queue

`WorkQueueProofs` proves about `QSpec`, without fairness:

- `TypeCorrect` and `RingCorrect`: `QSpec => [](QTypeOK /\ RingInv)`.
- `FirstInFirstOut`: `QSpec => []FIFO`.
- `WakeupsSuffice`: `QSpec => []NoLostWakeup`.
- `QueueIsChannel`: `QSpec => ImplementsChannel`.

*The ring.* `FIFO` (`accepted = taken \o Contents`) is not inductive: nothing in it
says where `rear` is, and the next store could overwrite a slot. `RingInv` adds that
`rear + 1` and `front + count` name the same slot modulo the size (which also covers
`rear = -1`), that `accepted` is as long as `taken` and the ring together, and slot by
slot which accepted task lies where. A store writes the slot `front + count`; the
lemmas `ModRing`, `StepRing` and `DistinctSlots` do the arithmetic of one turn, and
`DistinctSlots` is why a store into a ring that is not full overwrites none of the
others. `FIFO` then follows element by element.

*Wake-ups.* `NoLostWakeup` bounds the queued tasks by the consumers that are awake
inside `dequeue_task` as long as one sleeps. `WakeInv` adds that sleepers are inside
their calls, so that a woken one counts as awake. A store raises `count` by one and
its signal turns one sleeper into an awake thread; a take lowers both; the only steps
that put a thread to sleep do so at `count = 0` (or, for producers, at a full ring).
`CardSteps` is the counting.

*Refinement.* `Contents` grows at its end by a store, loses its head by a take and is
unchanged by every other step; `shutdown` only rises.

### The program of the queue

`ProgramStepsQueue` shows that every step of `main` and of the workers is a step of
the queue or leaves it alone, so that `RingInv` and `WakeInv` hold in the program too;
`destroy_work_queue` is one because it finds the queue empty (`NothingLeft`). `ProgInv`
adds what the queue cannot know: `main` enqueues in the order of its numbers, so the
i-th accepted task is task i and what was taken is an initial piece of the numbers
(`Numbered`); a worker holds one of the taken tasks, no two hold the same, and one that
has exited saw an empty queue after the shutdown (`WorkerInv`); a task has run if it was
taken and nobody holds it (`TaskInv`). Without `Numbered` one cannot tell the queued from
the running tasks; without `WorkerInv` nothing says that the queue is empty at the end.

### The event-driven server

`ServerInv` has types and five more parts. `Lifecycle`: a connection goes from its client
to the backlog, once, then into the table or away, and does not come back. `TableInv`: the
table slot by slot, each descriptor with one owner. `EventInv`: EPOLLOUT is registered only
while a reply waits to be written, so that only the event of a client that left before its
reply carries both flags; this is why the second branch of an event meets a client that the
first one freed in that case alone (`FreedClientUnused`). It also says that a reset is
reported together with EPOLLIN and when nothing is left to read, which is `ErrorsComeLast`:
the branch for EPOLLERR and EPOLLHUP (347-350) is never the first to free a Client, and
always works on a freed one. `BatchInv`: every event of the batch is for a socket in the
table, and there is one per socket, so that the branch for an unknown descriptor is not
taken. `EchoInv`: a request is on its way in, in the buffer or on its way back.
`TableIsRight` also needs that the search for the lowest free slot finds one (`LowestIn`,
from the well-foundedness of the numbers) and what `close_client` does to a table where the
client stands once (`CloseClears`, `CloseKeeps`). `BacklogIsReported` has `ListenInv`: a
connection in the backlog has its edge in the ready list or in the batch, or the accept loop
is running, or the last one was ended by an error of accept (`missed`). It holds for every
number of descriptors.

### Broadcast and timers

`BroadcastInv`: between two commands no receiver is at work (`Between`); during a command
a bit in `ack_mask`, *and in every copy of it that a receiver has loaded and will store*,
belongs to a receiver that has read the message and answered (`During`). The race on
`ack_mask` may drop a bit but can never show one that was not earned, so that a report,
when it comes, is true; that it may not come is `eventfd_lost_ack`.

`TimerInv`: between claiming a slot and arming its timer main holds no lock for a moment;
`ClaimKept` says that the slot stays active and is not armed meanwhile, and `NothingFired`
that during the first creation there is neither handler nor callback that could free it.

### The programs with one hard point

- Daemon threads (`DaemonInv`): the count is the number of registered threads and main
  sleeps only on a count above zero. `NoWakeupIsLost` draws two consequences that are not
  among the runs' properties: main sleeps only while a thread that will unregister is
  registered, and leaves only when none is.
- Deadlock (`LockInv`): what a thread owns follows from the call it is at, also when it
  was cancelled there. In parts 2 and 3 the calls exclude a circle.
- Log relay (`RelayInv`): log and queue together are what `mq_send` accepted, in each
  worker's order; only entries of past turns are lost, and EXIT is sent when every worker
  has ended, so that nothing is behind it. An I/O thread that the EXIT of an earlier run
  ended is at another place ("endEarly") and leaves the queue as it is. `AllLogged` is stated with
  positions (`AsSent`), for which the provers need no induction over sequences.
- Zombies (`ReapInv`): the error of `fork` is in `errno` or in the handler's copy.
- Alignment (`AlignInv`): where the block, the data and the stored pointer lie. The rest
  is arithmetic: `OffsetFits` for the offset, and a bound for each test's last element.
- Pins (`PinInv`): the copy that main holds between load and store is still right for
  the other pins, or `raced` is set. LED (`LedInv`): with the types, `DarkUnlessLit` is
  inductive; the step that needs an argument is one invocation's write while another one
  is between two of its own.
- Benchmark (`StopInv`): no index of a report is the word of the flag, so that the flag
  stays zero and a worker in an operation has done none since the stop.
- Race (`RaceInv`): with the mutex its holder is the one thread inside a round and holds
  the counter as it is. Without it, the counter and every value about to be stored are at
  most the increments so far; and a thread past its first round has loaded at least 1,
  so that a counter below 2 can only come from a thread's first store; every later one
  stores at least 2.
- Latency test (`CyclicInv`): the statistics hold at every turn as long as no latency has
  overflowed; the carry of the target into the seconds is `NextTarget`'s arithmetic.

### Only model-checked

Liveness, since fairness and ENABLED are outside the prover's reach: `CallsReturn`,
`Terminates`, `ClientsServed`, `ProgramEnds`, `BroadcastCompletes`,
`EndsOrHandlerOverLock`, `DaemonMainEnds`, `OrderingAndTimeoutsEnd`,
`Part1EndsOrDeadlocks`, `RelayEnds`, `NoRunawayChild`, `OpensMeet`, `LinesAreLogged`,
`StopEndsReader`, `CtrlCEnds`. No theorem is about `ProcessYielding`, `EpollFifos`,
`FifoReader` and `SelectLoop`, whose properties are all of this kind.

## 5. Observations

What follows was met while modelling. It is certain from the code, or outside the
abstraction, so that no run decides it.

- Work queue: a worker frees the task and not `task->data` (184); `destroy_work_queue`
  frees both (66). Every task that runs leaks its data.
- Deadlock, part 3: "Both threads completed successfully" is printed also when one or
  both gave up their second lock.
- Eventfd: an empty mask leaves T1 in its wait for ever (254-257); `1 << N` overflows
  for large N (202); receivers that come to their read after the teardown go on to memory
  that is unmapped (112, 282-289).
- Timers: the handler takes mutexes that main, which it interrupts, may hold (97), and
  `sleep(15)` is cut short by the first signal (280); `timer2_message` is freed while
  a callback thread may still hold its copy (288); `timer1_callback` may read its id
  before it is stored, and may delete a slot that another timer took over.
- Server: an accept that fails leaves the connections behind it in the backlog until
  another one arrives (262-269). If none does, their clients wait in `recv` and `main` in
  `pthread_join`, for ever. When a client leaves before its reply, the event that reports
  it has EPOLLIN with EPOLLOUT, EPOLLERR or EPOLLHUP: the read branch frees the Client, and
  the next branch uses it and frees it again (337-350). `main` joins client threads whose
  creation failed.
- Affinity: the same join of ids that were never set (486). With more workers than
  `MAX_CPUS` their results overwrite each other's (169-179).
- Race: the joins of threads whose creation failed are of the same kind (60-65).
- Alignment: when `malloc` returns a multiple of 64 the offset is 1 and the address is
  stored seven bytes before the block (53-61), over malloc's own record; `free` may
  then abort. If one allocation fails the other is not freed (188); the indices of the
  third test are not tested (124). Its checksums are of different random elements, so
  the note that their difference is very small (259) does not hold for it.
- Pin configuration: a direction that another program writes between 128 and 138 is
  lost. The comment on line 116 speaks of disabling the pull resistor; the bit that is
  set selects its direction on the AM335x.
- LED: a write by `on`, `off` or `toggle` that fails goes unnoticed (145, 149, 159).
- Latency test: a signal during the first sleep leaves `i` at zero, and line 107 divides
  by it. On the 32-bit board a wake-up 2.2 s late overflows the `long` of line 85. If no
  latency is below 9999999 ns the printed minimum is that number.
- FIFO reader: the stop word typed soon after another line is read joined to it; the
  child then ends and the parent reads end-of-file for ever (121-133). The buffer that
  is compared after a first read of nothing is uninitialised (129). `make_fifo` failing
  is reported, an open that fails leaves the other process in its own open.
- Select loop: after the end of stdin `select` returns at once in every round (86-93).
- Process yielding: the counter is an `int` and overflows after some 215 cycles (60);
  SIGTERM that reaches the parent before its handler leaves the children running.
- FIFOs: a FIFO without writer reports EPOLLHUP alone, which the loop ignores, so that
  it spins and `wait(NULL)` is not reached (288); a late echo kills the receiver by
  SIGPIPE (319); the buffers are not terminated at what was read, so log and echo
  carry bytes of earlier messages (302); a FIFO that could not be created can leave
  the other process in its open; a writer that ends early leaves the receiver there.
- Log relay: if the I/O thread gives up, workers block on the full queue and main in
  its join (70). The EXIT of that run stays in the queue, which is not unlinked: the next
  run's I/O thread takes it first and ends, and the entries of that run stay in the queue
  or find none. An entry whose `mq_send` fails is only reported (71); main does not test
  its second `mq_open` (114); a message of the full size is terminated one byte behind its buffer.

## 6. Not modelled

Time and real-time behaviour (sleeps order nothing in the models); the weak memory
order of the machine, except where it shows as a lost update; the contents of
messages; partial reads and writes on sockets and FIFOs; the programs listed in the
last rows of the inventory: straight-line sequences of system calls, and three loops
(coroutines, event loop, partial writes) that are sequential and deterministic, so that
running them shows what a model would. `components` in `PROJECT.json` names every program, its
status and the reason.

## 7. Order of work

The models were written in the order of what a mistake would cost: queue, program of
the queue, server, then the programs with one hard point each. The proofs followed the
same order, and every invariant of a run now has its theorem. What could still be added
is proofs of the safety half of what is only model-checked, each to be tried on a run
first:

1. Lock order in `TimerCallback`: a thread that waits for `timers_mutex` holds no slot's
   mutex unless a handler interrupted it.
2. `EpollFifos`: what is logged of a FIFO is in the order it was sent.
3. `FifoReader`: nothing typed is lost between the two processes before the stop word.
4. `ProcessYielding`: when the parent has left its last `waitpid`, no child that had
   installed its handler is alive.
