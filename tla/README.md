# A TLA+ model of ns-3 with Global Synchronization Protection

The repository is ns-3, a discrete-event network simulator, extended with a queue
disc that implements Global Synchronization Protection (GSP). Of its 3363 files
most are protocol models, generated bindings and documentation. This project models
the parts whose correctness is a matter of order and concurrency: the GSP queue disc
the repository was made for, with what stands between the upper layers of a node and
the wire; the four engines that run a simulation (single-threaded, real-time, and two
that are distributed over processes); and the two concurrent Python programs around
them, the test runner and the visualizer.

## Inventory

| Component | State | Operations | Interacts through |
|---|---|---|---|
| GSP queue disc (`traffic-control/model/gsp-queue-disc.cc`) | `m_timeout`, `m_interval`, `m_tiq`, times above and below the threshold, `m_state`, `m_cumTime` | `DoEnqueue`, `DoDequeue`, `DoPeek`, `InitializeParams` | its internal queue; the accounting of the base class |
| Queue disc base class (`queue-disc.cc`) | packet and byte counters, statistics, `m_requeued`, `m_running`, quota | `Enqueue`, `Dequeue`, `PeekDequeued`, `DequeuePeeked`, `Run`, `Restart`, `Transmit`, `Requeue`, trace callbacks | internal queues, child queue discs, device queues, the device |
| Packet queue (`network/utils/queue.h`) | list of items, counters | `DoEnqueue`, `DoDequeue`, `DoRemove` | traces that fire callbacks of its owner |
| Transmission queue (`net-device-queue-interface.*`) | two reasons to be stopped, wake callback | `Stop`, `Wake`, `NotifyQueuedBytes`, `NotifyTransmittedBytes`, three trace callbacks | events of its own that run the queue disc |
| Dynamic queue limits (`dynamic-queue-limits.cc`) | 32 bit counters and limits | `Queued`, `Completed`, `Available`, `Reset` | called by the transmission queue |
| Point-to-point device | its packet queue, the current packet | `Send`, `TransmitStart`, `TransmitComplete` | the packet queue, the channel, the simulator |
| Traffic control layer | root queue disc and queue discs to wake, per device | `Send`, `Receive`, install and delete root queue discs | queue discs, devices, protocols |
| Simulator core (`core/model/default-simulator-impl.cc`) | event list, current time and uid, count of pending events, queue and flag of the events of other threads | `Schedule*`, `Run`, `Stop`, `Cancel`, `Remove`, `IsExpired`, `Destroy` | handlers of events in every component; threads that call `ScheduleWithContext` |
| Real-time simulator (`core/model/realtime-simulator-impl.cc`, `wall-clock-synchronizer.cc`, `unix-system-condition.cc`) | event list, `m_running`, wall clock since the origin, condition variable | as above, and `ScheduleRealtime*`; `ProcessOneEvent` waits for the wall clock | threads that insert events during a wait and signal its condition |
| Distributed simulator with granted windows (`mpi/model/distributed-simulator-impl.cc`, `granted-time-window-mpi-interface.cc`) | per rank: event list, granted time, look-ahead, counts of messages | `CalculateLookAhead`, `Run`, `ReceiveMessages` | messages of MPI, a collective operation of all ranks |
| Distributed simulator with null messages (`null-message-simulator-impl.cc`, `null-message-mpi-interface.cc`, `remote-channel-bundle.cc`) | per rank: event list, safe time; per neighbour: guarantee time, null event | `Run`, `HandleArrivingMessagesNonBlocking`, `NullMessageEventHandler`, `SendPacket` | messages between neighbours |
| Test runner (`test.py`) | input and output queue, jobs, `thread_exit`, counters, `results.xml` | `run_tests`, `worker_thread.run`, `sigint_hook` | processes, threads, Control-C |
| Visualizer (`visualizer/visualizer/core.py`) | `go`, `quit`, `target_time`, `lock`, messages of a pause, timer of the view | `SimulationThread.run`, `update_view_timeout`, `_quit`, buttons | the simulation thread, the event loop of GTK, the user |
| Schedulers, other queue discs and devices, the protocols above | listed in `PROJECT.json` | | |

What is hard here is rarely in one call. A queue disc keeps its own counters in step
with its queue by callbacks. A transmission queue is stopped for two independent
reasons, and its wake-up is a separate event, run after others have changed the
queue. A requeued packet blocks the queue disc until its own queue restarts. The GSP
variants decide about arrivals with values left by earlier dequeues and compute with
times that wrap around. Nothing restarts a queue disc whose quota ran out. The
simulator decides from a key alone whether an event has expired, and reads a flag of
other threads without their mutex. The real-time simulator chooses what to wait for in
one critical section and waits outside it. Ranks must agree on how far each may run
while packets are in flight that nobody's clock accounts for. The test runner counts
results that crash, come back unrun after Control-C, or never come because a thread
died; the visualizer handles clicks inside a handler that waits for a lock. The list
`hazards` of `PROJECT.json` names each of these at its line, with the properties
that cover it.

Every component must satisfy its own properties: a packet queue is first-in
first-out and its counters match its content; a queue disc counts every packet once;
GSP sheds at most one packet per no-drop interval; a stopped transmission queue
restarts; a packet accepted is transmitted, once and in order; events run once, in
time order, and whether one is pending is known exactly; in real time no event runs
early and none that is due waits for the clock; no rank receives a packet from its
past, and all ranks come to an end; the test runner reports success only if every test
succeeded; the visualizer does not stand still while it plays, nor when it is closed.

## Modules

| Module | Models |
|---|---|
| `Queue` | a packet queue as a record of items and counters: size test, storing, taking |
| `QueueDisc` | variables and accounting that every queue disc inherits |
| `GspQueueDisc` | the GSP queue disc: `EXTENDS QueueDisc`, one action per call and outcome |
| `SingleDropQueue` | abstract: a first-in first-out queue that sheds an arrival at most once per gap |
| `MCGsp` | `GspQueueDisc` with bounds, for TLC |
| `DynamicQueueLimits` | the queue limits as a record and operators that return the record after a call |
| `NetDeviceQueue` | a transmission queue: the two stop flags, the callbacks of its traces, pending wake events |
| `FlowControl` | composes `QueueDisc` (as a FIFO queue disc), `NetDeviceQueue` and the device |
| `Simulator` | the main thread of `DefaultSimulatorImpl` and the threads that schedule into it |
| `RealtimeSimulator` | the main thread of `RealtimeSimulatorImpl`, its wait, and threads that insert events |
| `DistributedSimulator` | the ranks of `DistributedSimulatorImpl` and the messages between them |
| `MCDistributed` | `DistributedSimulator` with three ranks in a row, for TLC |
| `NullMessageSimulator` | the ranks of `NullMessageSimulatorImpl` and the channels between neighbours |
| `MCNullMessage` | `NullMessageSimulator` with three ranks in a row, for TLC |
| `TestRunner` | the main thread and the worker threads of `test.py` |
| `Visualizer` | the simulation thread and the main thread of the visualizer |
| `GspQueueDisc_proofs` | type correctness, accounting and buffer limit of the GSP queue disc, spacing of forced drops, refinement of `SingleDropQueue`, statistics of sent packets |
| `FlowControl_proofs` | queue limits that wrap around, the two reasons to be stopped, order of packets, what a backlog waits for |
| `Simulator_proofs` | order of events, `IsExpired`, count of pending events, the flag of the other threads, each event in one place |
| `RealtimeSimulator_proofs` | nothing in the past, nothing early, no signal lost before a wait |
| `DistributedSimulator_proofs` | sums over finite sets, counts of bags; totals that tell when nothing is in flight, nothing in the past, the bound of the look-ahead |
| `NullMessageSimulator_proofs` | one null event per neighbour, guarantees that are kept, nothing in the past |
| `TestRunner_proofs` | no test behind a job with `is_break`, the summary, the exit status and that the report agrees with them |
| `Visualizer_proofs` | how far the simulation is ahead of the view, the timer of a pressed button, the messages of pauses |

### GspQueueDisc

Variables carry the names of the members they model (`timeout` is `m_timeout`).
`queue` is the internal queue, `now` the simulation time in ticks, `sent` and
`lastForced` are history variables for properties. A call of `Enqueue` is one
action: it first adapts the interval (`Adapt`, the whole head of the ADAPTIVE_GSP
branch, executed also for packets that are not dropped), and then drops the packet
by force, lets the internal queue drop it, or stores it. The three outcomes exclude
each other by `DropsNow` and `Overfull`.

- `Seconds(t)` models `Seconds (t)` of a `Time`: the implicit conversion gives
  ticks, and `Time::From` multiplies them by the ticks of a second. The result is
  reduced to a signed word (`Int64`); when its magnitude needs more than the full
  word, `int64x64_t::Umul` aborts and the step is `DequeueEndsProgram`.
- `m_a` is a `double` that `operator* (int64_t, Time)` takes, so that it is an
  integer in the model; `Time / Time` is an integer division.
- `m_state` starts as any value, because nothing initialises it.
- `PeekDequeued` and `DequeueRequeued` are the calls a parent queue disc makes.
- `Tick` is the simulator running a later event. Calls are atomic because the
  simulator runs events one at a time.
- A sum of 64 bit times that overflows is undefined in C++; the builds in use
  (no trapping) wrap around, and so does the model.

### FlowControl

One action per event (`Send`, `WakeCallback`, `TransmitComplete`) and, while
`running`, one per iteration of the loop of `QueueDisc::Run`, split by what
`DequeuePacket` and `Transmit` find: `RestartRequeued`, `RestartHead`,
`RestartRequeues`, `RestartNothing`. No event interleaves with a running loop, as in
the simulator. `tx[q].wakes` counts the scheduled wake events. `TransmitComplete(q)`
waits for those of `q`, which were scheduled for an earlier time; wake events and
completions of different queues, and sends of the upper layers, interleave freely.
`accepted`, `delivered` and `discarded` are history variables. The end of `Run` (its
quota, an empty queue disc, a stopped queue) is `NextIteration`.

A transmission queue and its limits are records, and the operators return the
records a call may leave: a set where the hold time of the queue limits may or may
not have passed. The value that `Reset` does not write (`adjLimit`) is chosen from
`AdjLimits` at the start.

### Simulator

`events` is the event list as a set, from which `ProcessOneEvent` removes the least
key: what `MapScheduler` does. An event is its time stamp, its uid and its
`EventImpl`, which is numbered at its creation; contexts and handlers' code are left
out. `pc` is where the main thread is: in the program before and after `Run`
(`program`), in the loop, in a handler, or in one of the steps of
`ProcessEventsWithContext` and `Destroy`. Whenever the program has control (in
`program`, `handler` and `destroyHandler`), it may schedule, cancel, remove and stop
in any number and order; `ScheduleNow` is a delay of zero, and `Stop (delay)` an event
whose handler calls `Stop`. `Cancel` or `Remove` of an expired event changes nothing
and is no step.

A thread's critical section in `ScheduleWithContext` is two steps, `Post` (lock and
append) and `Posted` (clear the flag and unlock), since the main thread reads the
flag without the mutex. The read is a data race: what the main thread wrote last may
be seen instead of a newer value (`SeesNoContext` is always possible). The critical
section of the main thread is one step, because nothing it writes is read outside the
mutex by other threads. Threads do not post after `Destroy`, when the program has
joined them. `impls`, `issued` and `finished` are history variables.

### RealtimeSimulator

`realtime` is the wall clock since `SetOrigin`, in units of time; `Origin` is what the
clock showed beyond a whole second at that moment, which decides which deadlines fall on
a whole second. A critical section of the main thread is one step. A thread that
schedules takes three: `Post` (the clock is read, the event inserted, `m_mutex` held),
and the two halves of `DoSignal` (set the condition, then signal and release), because
the main thread reads the condition without `m_mutex`. Threads exist once the first
event has run: a program starts them from a handler.

The wait is modelled step by step. `StartSleep` computes the sleep in jiffies, less three
for the spin; `Sleep` tests the condition and begins to wait in one step, under the mutex
of the condition; a wake-up goes back to the test; `SpuriousWake` happens only before the
deadline. The spin alternates between the clock (`spin`) and the condition
(`spinCondition`). `EndOfSleep` gives `NoDeadline` when the nanoseconds of the deadline
come to exactly one second, which the code does not carry: the call then fails at once
for ever, until the condition is set.

`Run` is called once. A second call sets the origin of the clock anew while
`m_currentTs` keeps its value, because `DoSetOrigin` ignores its argument
(`wall-clock-synchronizer.cc:122`): threads then insert events into the past of the
simulation. Nor does a thread call `ScheduleRealtime` before `Run`, when the clock has
no origin.

### DistributedSimulator

The event list of a rank is the bag of the times of its events: nothing the ranks
promise each other depends on more. The model begins when the first collective operation
has given every rank its look-ahead, which `LookAhead` computes from the links.
`ProcessOneEvent` runs the next event, whose handler may schedule an event, send a packet
and stop. A packet is `inFlight` until MPI has delivered it to a receive buffer
(`Deliver`), and is an event when the rank receives it in `Synchronize`, where the rank
also enters `MPI_Allgather`. `Allgather` is one step of all ranks: each computes the same
of the same data. Granted times are 64 bit numbers and wrap around when a rank without
events contributes the largest time; that happens only when all have finished, and the
value is then not used. The counters of messages are modulo `TwoTo32`, and so are their
totals; `SumFunction` adds over the ranks, and the number of messages in a bag is the sum
of its counts.

### NullMessageSimulator

The event list is a sequence in the order of the keys, because the order among
simultaneous events matters: a null event and the reception of a packet at the same time
give different guarantees. Channels are first-in first-out, as MPI guarantees between two
processes. The set-up and the first null messages, which depend on nothing another rank
does, are the initial state: `Agendas` are the orders in which the list may then be, with
the null events behind the events of the same time that the program scheduled before
`Run`. A handler is entered by `RunHandler` and left by
`HandlerReturns`; in between it may schedule events and send packets on devices that are
not transmitting. After an event the rank receives any number of the messages that are
there (`ReceiveMessagesNonBlocking`, `EndPolling`); with nothing safe to run it waits for
one (`ReceiveMessagesBlocking`).

Every rank calls `Stop` for the same time. In the code, a rank that stops earlier stops
answering and leaves its neighbours in `MPI_Waitany` for ever; a rank that runs out of
events without a call of `Stop` reads the head of an empty list when it computes a
guarantee; and a link without delay gives null messages that do not advance the clock.
The documentation of the parallel simulator asks for none of these to be avoided, but its
examples do avoid them, and the model follows the examples.

### TestRunner

One worker is a thread of `worker_thread`; `worker[w]` is where it is, `job[w]` what it
holds. The main thread puts a job per suite and per example, then one job with `is_break`
per worker, and then collects as many results as it put tests. A result goes through
`output_queue`. `Finish` chooses how the process ends (`Endings`): the exit status, and
for a suite the state of its temporary results file; output that cannot be decoded turns
the status into 1 (`test.py:776`). The program creates the file, empty, before it finds that
no test matches and before it runs the suite (`test.cc:1051`, `1061`, `1095`), and prints the
whole report afterwards (`test.cc:1096`): a suite that crashes leaves an empty file as a rule,
one that is cut off or whole when it crashes later, and none only if the program never got
that far, as when its libraries cannot be loaded. Status 0 means a whole file that says PASS,
provided that the disk takes what is written and that no test ends the program itself with
status 0. `Written` is what the copy of such a file adds to the report: an entry, the
beginning of one (`result` is then `"partial"`), or nothing. `ReportAgrees` therefore does
not say that every suite has an entry, but whose entries may be missing or cut off.

`Status` is the chain of comparisons of the collecting loop, in which a job that never ran compares as `False == 0`; what keeps it from passing
is that `ReturnUnrun` sets `is_break`. An exception ends the thread it happens in
(`WorkerRaises`, `ConditionRaises`, the missing results file in `Collect`), as Python
does, and the others go on. `sigint_hook` may run once, at any time.

### Visualizer

`sim` is the program counter of `SimulationThread.run`. The main thread is GTK's loop:
it dispatches clicks, the timer of the view, and the idle calls of `update_model`, with
GTK's priorities (idle calls of the default priority come before clicks, which come before
timers). `update_view_timeout` tries the lock and, as long as it fails, handles events
itself, so another timer may fire inside it: `stack` holds the executions, innermost
last, each with its timer and the messages it took. Timers are numbered with the least
number not in use, as only their identity matters. Times are relative to the last update
of the view, which keeps them bounded by one period. `AcquireSucceeds` is everything up
to the release of the lock; `Finish` is the rest: the dialog of a pause, which also stops
playing, and the signal for the next period.

`RunUntil` may add several pause messages, since the event that calls `PyViz::Pause` may do
so more than once before `m_stop` is tested; `MaxPauses` bounds them all together.

### Slips

The operators introduced by the comment "A slip" are plausible mistakes in the
code. No action uses one: they stand in for the definition they precede when the
properties are tested for whether they would notice.

## Runs

All bounds are constants of the configurations. Deadlock is not checked anywhere:
simulations and programs end, and runs have a horizon or a number of packets or events,
after which the system may stop. The liveness properties say where it must not.

| Run | Checks | Why the bounds suffice |
|---|---|---|
| `gsp_queue` | `TypeOK`, `Accounting`, `SentIsWhatWasGiven`, `ForcedDropRate`, `WithinMaxSize`, `IsSingleDropQueue` | ADAPTIVE_GSP, which adapts the interval and decides by size; two sizes of packets, four arrivals within ten ticks: forced drop, drop by the internal queue, storing and peeking mix in every order. A word of 4000 and 25 ticks per second: stays of three to five ticks raise the accumulated time, longer ones wrap around or end the program; the interval shrinks to its minimum |
| `fc_queues` | `TypeOK`, `DeviceNeverDiscards`, `NothingLostOrReordered`, `BacklogWaitsForStopped`, `StoppedIsTransmitting`, `OutstandingIsQueued`, `AcceptedIsTransmitted` | two transmission queues in bytes, five packets of one or three bytes and one of header, and an MTU of four, which leaves room for the header (`HeaderFits`): a requeued packet with packets of both queues behind it. Queue limits with counters modulo 14 that wrap around, three initial values of `m_adjLimit` on both sides of the limit |
| `sim_events` | `RunsInOrder`, `ExpiredIsGone`, `UnscheduledIsPending`, `EachEventOnce`, `PostedIsFlagged` | four events with delays 0 and 1 and two threads: simultaneous events, removal and cancellation of a pending one, an event appended in every step of the main thread, a second `Run` after `Stop` |
| `realtime` | `NoneInThePast`, `RunsWhenDue`, `NoSleepPastFirst`, `DueIsRun` | two threads, three events with delays 0 and 5, where five jiffies are two of sleep and three of spin: an event inserted before, during and after either, while the other thread is in its critical section. `Second` is beyond the horizon, so that no deadline is at a whole second |
| `dist_windows` | `NoneInThePast`, `WithinLookAhead`, `NoTransients`, `RunReturns` | a rank between two others, with links of delay 1 and 3, and one rank with a maximum look-ahead of 2; three events or packets created by handlers: a packet that causes a packet, in flight over several collective operations, and a rank that sends three; counters modulo 3, so that they and their totals wrap around |
| `null_messages` | `GuaranteeKept`, `NoneInThePast`, `OneNullEvent`, `AllReturn` | a rank between two others, links of delay 1 and 2, `Stop` at 4, two events or packets created by handlers: packets put off null messages in both directions, and every rank waits for a neighbour that waits |
| `test_runner` | `NoTestBehindPill`, `SummaryAddsUp`, `SuccessIsReal`, `ReportAgrees`, `RunnerEnds` | two workers, three suites of which one is skipped and an example: both workers busy with a job left, every status with every state of the results file it may come with, Control-C and an exception in every step |
| `visualizer` | `AheadAtMostOnePeriod`, `MessagesOnceInOrder`, `PlayingHasTimer`, `PlayingSimulates`, `QuitEnds` | four clicks on play and speed in any order, periods of 1 and 2, two pauses: three timer handlers in one another, a second pause while the first one's dialog is open, closing in every step |

Where properties and runs meet:

- `Accounting` is what `QueueDisc::Enqueue` and `Dequeue` assert, extended to the
  content of the internal queue.
- `ForcedDropRate` bounds the number of forced drops by elapsed time: it counts over
  a whole behaviour, where a test sees one interval.
- `IsSingleDropQueue` is the refinement of `SingleDropQueue` with `waiting` the
  content of the internal queue, `lastShed` the last forced drop and the gap the
  shortest interval the mode can compute.
- `BacklogWaitsForStopped` and `StoppedIsTransmitting` split the reason why no
  packet waits for ever: a backlog is always waiting for some stopped queue, and a
  stopped queue always has a transmission in progress. `AcceptedIsTransmitted` is the
  liveness they serve.
- `ExpiredIsGone` ties the comparison that `IsExpired` makes to the content of the
  lists; `Cancel`, `Remove` and `GetDelayLeft` rely on it. `RunsInOrder` is the
  assertion of `ProcessOneEvent` and the order among simultaneous events.
- `PostedIsFlagged` does not say that an event of another thread is run: `Run` may
  return, on an empty list, while one is waiting. The model shows this behaviour, and
  no document excludes it.
- `NoSleepPastFirst` is the safety and `DueIsRun` the liveness of the same promise: a
  signal between the choice of a target and the wait for it is not lost.
- `NoTransients` is what the totals exchanged are for, and the reason of the other two
  invariants of `DistributedSimulator`: the counters are read at the ranks at different
  moments, have 32 bits each and are added modulo 2^32.
- The two modules of the distributed simulators state `NoneInThePast` for messages that
  are still on their way, before any assertion of the code would see them.
  `WithinLookAhead` and `GuaranteeKept` are the reasons it holds.
- `AllReturn` includes that no cycle of ranks waits for each other: deadlock of the null
  messages would violate it.
- `SuccessIsReal`, `SummaryAddsUp` and `ReportAgrees` are about the same jobs seen
  through the exit status, the summary and the report; Control-C and crashes bring them
  apart when a step is missing.

Fairness:

- `FlowControl`: weak fairness of the loop of `Run`, of wake callbacks and of
  transmission completions. A loop runs to its end, and the simulator runs every event
  it has scheduled as long as the simulation is not stopped. Sends are not fair.
- `RealtimeSimulator`: the main thread, a thread in its critical section, and the wall
  clock. A thread need not schedule anything.
- `DistributedSimulator`: every rank, the delivery of messages and the collective
  operation, that is, MPI's guarantee of progress.
- `NullMessageSimulator`: the loop of every rank. Sending is not fair; a message is in
  its channel at once, and only polling may miss it.
- `TestRunner`: every thread; test programs end. The exceptions and Control-C are not
  fair, and `RunnerEnds` says which exceptions excuse a hang.
- `Visualizer`: both threads and the dispatch of some timer. The user need not click.

### Disagreements found

Four runs check what a comment or an attribute's description says, and TLC finds it
violated by what the code does. `findings` in `PROJECT.json` quotes each.

| Run | Statement | The code |
|---|---|---|
| `gsp_threshold_unit` | the threshold limits the queue size | adds the bytes of a packet to a number of packets (`gsp-queue-disc.cc:152`) |
| `realtime_whole_second` | a wait that nobody interrupts times out | `TimedWait` carries nanoseconds with `>` instead of `>=` (`unix-system-condition.cc:185`): a deadline at a whole second is refused, and the loop around it does not end |
| `dist_inflight` | no events are lost when `Run` ends | all ranks may have finished while a packet is in flight; the test for messages in transit guards only the granted time (`distributed-simulator-impl.cc:417`) |
| `null_guarantee` | no packet arrives earlier than the guarantee of its channel bundle | a guarantee given with a packet on a slow device ignores what the same handler sends next on a fast one (`null-message-simulator-impl.cc:583`) |

Met on the way, without a run of their own:

- A run of a queue disc that uses up its quota is not resumed
  (`queue-disc.cc:921`, marked as to do): with a quota below the backlog,
  `AcceptedIsTransmitted` fails. `fc_queues` has a quota of all its packets.
- The test for room in a device queue does not count the header the device adds
  (`net-device-queue-interface.h:376`): with packets as large as the MTU,
  `DeviceNeverDiscards` fails. In `fc_queues` the MTU leaves room for the header, and
  the theorem about `DeviceNeverDiscards` has that for a hypothesis, `HeaderFits`.
- The time below the threshold is subtracted from the accumulated time in one of three
  states only (`gsp-queue-disc.cc:178`), where the README of the repository says at
  every arrival; and delay-based GSP drops at an empty queue for the delay of a packet
  that left long ago.
- `condition` stays set when the event it was set for is removed: an idle real-time
  simulator then passes its wait at once, and its loop does not sleep until the next
  event resets it.
- A worker of the test runner that ends with an exception leaves the main thread waiting
  for its result (`test.py:1649`), and an exception in the main thread leaves the
  workers waiting for jobs: the program hangs. `RunnerEnds` excludes these two.
- `simulation-periodic-update` is announced for every period of the simulation
  (`core.py:683`), but it is emitted from an idle call (`core.py:650`): a handler may see
  the state after a later period, or the same state twice. `autoscale_view` reads the
  positions of the nodes without the lock.
- A return code of 0, 1 or 2 does not mean that a suite has left a valid results file, as
  the comment says (`test.py:1749`). A suite that crashes with output that cannot be decoded
  has the return code 1 (`test.py:776`), and the file that `test.cc:1051` has created is
  empty or cut off; a suite of which no test matches returns 1 with an empty file
  (`test.cc:1064`). The file is copied without an error (`test.py:1769`), and the closed
  report has no entry for the suite, or an element that is not closed; the summary counts it
  as failed. Only a file that was never created makes `open` raise an exception, which ends
  the main thread in the middle of the report. A suite that succeeds with output that cannot
  be decoded has a file that says PASS, while the summary counts it as failed. Nor does
  a suite that fails under valgrind get the second entry the comment promises (`test.py:1753-1755`).

## Proofs

The theorems hold for every value of the constants that the assumptions of each module
admit; where one needs more, it says so in a hypothesis. They are invariants, a
refinement and no liveness. `PROJECT.json` lists the results; what follows is why they
hold.

### GspQueueDisc

`GspAssumption` admits any mode, unit, sizes, threshold of at least one, adaptation speed
of at least one, any bit rate, clock resolution and word width. A threshold or an
adaptation speed of zero divides by zero in the code.

`TypeCorrect` and `AccountingHolds` follow from the inductive invariant
`IInv == TypeOK /\ Accounting`. Neither half is inductive alone: that counters stay
natural numbers when a packet leaves needs the length of the queue, and the queue
being non-empty when its counter is not zero needs the agreement of both. The proof
has a lemma per outcome of `Enqueue` and one for `Dequeued`, on lemmas about the
record operators (`PutQueue`, `TakeQueue`, `StoreStats`, `DropStats`,
`DequeueStats`) and about the arithmetic (`ClampType`, `SecondsType`,
`AdaptedIntervalBounds`, which needs that division is monotone).

`WithinMaxSizeHolds` rests on `IInv`: `DoEnqueue` of the GSP never compares a packet with
`MaxSize`, the internal queue does, by counters of its own, and only `Accounting` makes
them those of the queue disc.

`RateHolds` needs more than `ForcedDropRate`, which says nothing of the next drop.
`RInv` adds that `timeout` is at least the time the forced drops so far account for,
plus the current minimum interval, and that the last forced drop is a whole gap
behind it. `Refinement` uses the same invariant for the guard of `Shed`; every other
step maps to `Accept`, `Depart`, `Pass` or a stutter. `SentHolds` strengthens its
property with what the queue disc has dequeued and a parent has not yet been given.

### FlowControl

The theorems hold for any number of transmission queues, any sizes and units, with and
without queue limits, and for counters of any even modulus with a half larger than the
largest limit.

`TypeInv` is inductive: the transmission queues keep their types and `TxCounts`, that is,
`numQueued - numCompleted` is the bytes in the packet queue of the device, modulo the
width. `OutstandingHolds` is this, and the assertion of `Completed` follows. The lemmas
before it are about numbers that wrap around: a difference of two counters is what it
would be without wrapping as long as it is in range. `Queued` and `Completed` are then
treated as operators on a record, once for all callers.

`StopInv` says what the two flags mean (`StopsMean`: the device's is set exactly when the
packet queue has no room for another MTU, the limits' only when `Available` is negative),
that a device that transmits nothing has an empty queue and is not stopped, and that the
limit of a busy one is `Settled`, as `Completed` leaves it. Neither `DeviceNeverDiscards`
nor `StoppedIsTransmitting` is inductive alone. Both need `HeaderFits`: the test for room
counts the MTU without the header that the device adds
(`net-device-queue-interface.h:376`), and a packet that is discarded for the header never
causes the completion that would restart its queue.

`OrderInv` (`NothingLostHolds`) says that what waits, in `m_requeued` and the internal
queue, is a suffix of what was accepted, and that for each transmission queue the ids given
to the device are those of the remaining prefix. `BacklogInv` (`BacklogWaits`) adds the
quota: during `Run` at least as much quota is left as there are packets. This needs
`QuotaSuffices`, since a run that uses its quota up is not resumed (`queue-disc.cc:921`).

### Simulator

The theorems of `Simulator_proofs` hold for any set of threads, any set of delays and
any number of events, as long as `m_uid` does not wrap around. The invariant `Inv` is
made of `Ahead` (every event of the list comes after the current key, every uid is
below the next), `Kept` (an issued event that is not expired is in the list) and
`Counted`. `ExpiredIsGone` needs the first two: what is behind the current key is gone
because the list is ahead of it, and what has left the list was cancelled or is the
current key or behind it. `Counted` needs `Kept`: `Remove` decrements the count for an
event that it only knows not to be expired. `KeptStays` says once what a step may do
so that `Kept` is preserved, `InsertAhead` what an insertion preserves.
`PostedIsFlaggedHolds` is inductive by itself.

`EachEventOnceHolds` rests on `Placed`: the event list, the list of destroy events, the
events of other threads (posted, and in the batch the main thread works on) and those that
are finished share the numbers issued so far, no list has an event twice, and the batch is
empty outside its loop. Counting alone is not inductive: that a removed event is not in
another list is what keeps the sum. Every step moves at most one event between two of the
five, or the whole of one list to another.

### RealtimeSimulator

The theorems of `RealtimeSimulator_proofs` hold for any threads, delays, jiffy, origin and
number of events. The invariant `Inv` is made of `Types`, `Paced` and `Signalled`.
`Paced` says that the event that was waited for, or an earlier one, is still in the list
when the wait is over; nobody but the main thread removes events, and it does not while
it waits. `RunsWhenDue` follows, since what runs is the first event and not later than
that one. `Signalled` says how an insertion under way will be seen by a main thread that
waits for something later: the condition is set, or about to be by the thread that holds
`m_mutex`, or the signal has been given. `NoSleepPastFirst` alone is not inductive: it
says nothing while a thread is in its critical section.

### DistributedSimulator

The theorems of `DistributedSimulator_proofs` hold for any finite number of ranks, any
links, delays and initial events. The module begins with the induction that the library
states only for operators: a set of subsets that contains `{}`, and a subset with every
subset made by taking out one element of it, contains all (`FiniteInduction`, from the
well-founded order of finite subsets). From it follow what the model's sums do: that
`SumFunction` satisfies its recursive equation whatever elements are chosen (`SumTable`,
`SumWithout`), and how a sum changes with one value (`SumUpdate`), hence the number of
messages in a bag when one is added or taken out (`OneIn`, `OneOut`).

The invariant `IInv` has four parts beyond types. `CountInv` says that the sums of the two
counters differ by the messages that are not received and a multiple of 2^32, for each
counter and each sum may have wrapped; `NonePending` concludes that there are none when the
totals agree, because there are fewer than 2^32. That is a bound of the model
(`ProcessOneEvent`), and the code has the same limit. `GatherInv` says that
the time a rank has contributed is no later than its events, `WindowInv` that what a rank
has run or may run is within its look-ahead of everything that is still to be run or
received, and `FutureInv` that what a rank is still to receive is no earlier than what it
may run. The last two need each other: a new granted time keeps `WindowInv` because of
`GatherInv` and `NonePending`, and a packet that is sent keeps `FutureInv` because of
`WindowInv` and of `LookAheadType`, that no link to a rank is faster than its look-ahead.
TLC has checked the invariant on the instance of `dist_windows`.

### NullMessageSimulator

The theorems hold for any finite neighbourhoods, any links, delays and transmission times,
any `SchedulerTune` from 1 to 100, and any number of packets. `TypeInv` includes `Lists`:
a rank that goes on has its stop event in the list, and the list has one null event for
each neighbour and none for others, which is `OneNullEventHolds`.

`GuaranteeKeptHolds` and `NoneInThePastHolds` follow from `OrderInv`, which adds three parts.
`Clocks`: the list of a rank is ordered and not behind its clock, which is not beyond its
safe time, which is not beyond any guarantee; and a null event is never further away than
when it was scheduled. `Rising`: the guarantees of a channel do not decrease, and a packet
is received no earlier than the guarantee it carries. `Promises` is the heart of it: why a
rank, whatever it runs next, will not send anything to a neighbour that breaks a guarantee
`g` given to it. There are three reasons (`IsKept`). Its clock has come within the delay of
`g`; or the device is still transmitting and neither the end of that transmission nor the
null event is before `g` less the delay; or the rank is between two events, and neither its
safe time nor any event other than the null event for this neighbour is before `g` less the
delay. The third reason is what `CalculateGuaranteeTime` computes. Taking an event turns
the other two into the first, receiving a packet preserves the third because its receive
time is not before the safe time, and the second is why a guarantee that goes with a
packet may look at a list in which a handler has not yet put all its events.

The second reason is about one device, so both theorems have the hypothesis
`OneDevicePerNeighbour`. `null_guarantee` shows that it is needed: with two devices,
`GuaranteeKept` is violated.

That a set of natural numbers has a least element, which the guarantees and safe times
are computed with, is `LeastNatural`; it needs no induction of its own, since the library
proves that `<` is well founded.

### TestRunner

The theorems of `TestRunner_proofs` hold for any finite sets of suites, examples and
workers. The invariant `IInv` is made of three parts. `Placed` says that every test is in
one place only (not yet dispatched, in `input_queue`, held by a worker, in `output_queue`
or collected) and that nothing but further jobs with `is_break` is behind one. From it
follows that a step moves at most one test, and that only the collecting loop enlarges
`Collected`. `Dealt` says that `jobs` and `collected` count the tests dispatched and
collected, and that what came back without being marked or skipped has run. `Tallied`
says that each count of the summary is the number of collected tests of that status, and
that the report agrees with what has been collected (`Reported`); for the latter `Truthful`
is needed beside `IInv`: a suite whose status is 0 has written a whole report of success.
`ReportAgreesHolds` does not follow from the statuses alone, since what stands in the report
for a suite is what its file holds. `SuccessIsReal` follows: exit status 0 means that the
counts of passed and skipped tests add up to `jobs`, hence that every test is collected
with one of these statuses, and by `Dealt` no unrun job is among them.

### Visualizer

The theorems hold for any sample periods and any number of clicks and pauses.
`AheadAtMostOnePeriodHolds` needs to know that `target_time` is a period or zero, as long
as the view has not set it; `PlayingHasTimerHolds` is inductive by itself, with the nested
executions of the timer handler among what may hold the timer. For
`MessagesOnceInOrderHolds` the invariant says that of the executions in `stack` all but the
last are waiting inside their loop of events, so that only the last has messages, and that
what was shown, what it took and what waits are together the messages issued, in order.

### What is only model-checked

- All liveness: `AcceptedIsTransmitted`, `DueIsRun`, `RunReturns`, `AllReturn`, `RunnerEnds`,
  `PlayingSimulates`, `QuitEnds`. Fairness is out of the prover's reach.

## Not modelled

- In the queue disc: marking, drops after dequeue, statistics of requeued packets,
  child queue discs; changing attributes while packets flow.
- In the flow control: devices without a root queue disc, replacing a root queue
  disc during a simulation, child queue discs woken individually, links that are
  down, `ResetQueueLimits`.
- In the simulator core: the wrap-around of `m_uid`, `SetScheduler`, the disposal of
  the list at the end, contexts. `Remove` of a destroy event is modelled as the code
  does it, although the comment of `Simulator::Remove` calls it a program error
  (`simulator.h:1208`; the tests use it).
- In the real-time simulator: a second `Run`, `Destroy`, `Cancel` (it leaves the list
  alone), and the wall clock set back.
- In the distributed simulators: serialisation of packets, the buffers of MPI, ranks
  that crash (MPI ends all of them), schedulers.
- In the test runner: reading the configuration, building, printing, the text output
  formats. In the visualizer: drawing, plug-ins, topology, the shell.
- Generated code: the files `modulegen__*.py` and `modulegen_customizations.py` under
  `src/*/bindings` are nearly all of the Python of the repository. They are lists of
  declarations that tell the generator of the bindings which classes exist; they have no
  state that changes, no order that matters and nothing to check beyond what they say.
- The other queue discs and the schedulers; these are planned.
- Protocols, wireless models, mobility, statistics, helpers, the build system: systems of
  their own, or without a state machine.

## Plan

Done: `Queue`, `QueueDisc`, `GspQueueDisc`, `SingleDropQueue`, `DynamicQueueLimits`,
`NetDeviceQueue`, `FlowControl`, `Simulator`, `RealtimeSimulator`, `NullMessageSimulator`,
`DistributedSimulator`, `TestRunner` and `Visualizer` with their proofs.

Next, in this order:

1. `TrafficControlLayer`: installing and deleting root queue discs, the queue discs
   to wake and the wake callbacks, devices without a root queue disc.
2. `PfifoFast`, `MqQueueDisc` with `WAKE_CHILD`, `TbfQueueDisc` with its watchdog.
3. An abstract event list, the heap and the calendar queue as refinements.
