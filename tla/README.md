# A TLA+ model of this FreeRTOS fork

The repository is a fork of FreeRTOS-Kernel being rewritten in C++ (its README: "personal
experiment. DO NOT USE"). It has no tests, and almost no comments outside `portable/`. This
directory models its kernel: the code is the reference, the modules are translated from it line
by line (`PROJECT.json` maps each definition to its lines), TLC checks them on small instances and
TLAPS proves the most important facts for every instance.

## 1. The system

### Components

| Component | Source | State | Operations |
|---|---|---|---|
| Scheduler | `tasks.cpp`, `include/task.hpp` | TCBs; ready lists per priority and the bit map `TopReadyPriority`; two delayed lists, `PendingReady`, `SuspendedTasks`, `TasksWaitingTermination`; `TickCount`, `NextTaskUnblockTime`, `PendedTicks`, `NOverflows`; `SchedulerSuspended`, `YieldPendings`, `CurrentTCB` | create, delete, suspend, resume, delay, delay-until, abort, priority set/inherit/disinherit, notify, wait, event list placement and removal, tick, context switch, suspend-all, resume-all, catch-up |
| Lists | `include/list.hpp` | circular doubly linked lists, `Container` of each item | append, insert (sorted), remove, head, advance |
| Queues, semaphores, mutexes, sets | `queue.cpp`, `semphr.h` | ring buffer, `nWaiting`, two event lists, `rxLock`, `txLock`, mutex holder | send, receive, peek (task and ISR forms), lock, unlock, give/take mutex |
| Software timers | `timers.cpp` | two timer lists, command queue, last sampled time | commands, the daemon's loop, list switch on wrap |
| Event groups | `event_groups.cpp` | bits, one unordered event list | wait, sync, set, clear, delete |
| Stream and message buffers | `stream_buffer.cpp` | ring buffer, head, tail, one waiting sender, one waiting receiver | send, receive (task and ISR), reset, trigger level |
| Heaps | `portable/MemMang/heap_1..5.c` | free list sorted by address, bytes remaining | `pvPortMalloc`, `pvPortCalloc`, `vPortFree`, statistics, reset |
| Windows port | `portable/MSVC-MingW/port.c` | a thread per task, the interrupt event mutex, pending interrupts, critical nesting, yield events | critical sections, simulated interrupts, tick timer, yield |

### How they interact

- Every API function of the other components calls the scheduler. There are two kinds of
  mutual exclusion: a *critical section* masks interrupts; *scheduler suspension*
  (`TaskSuspendAll` .. `ResumeAll`) only keeps other tasks from running, while the tick and other
  ISRs go on. What an ISR may not do to a suspended scheduler it defers: ticks count into
  `PendedTicks`, woken tasks go to `PendingReady`, a switch is recorded in `YieldPendings`, and
  `ResumeAll` makes up for all three.
- A queue, an event group or a timer makes its caller wait by linking the TCB's `EventListItem`
  into its own list and the `StateListItem` into a delayed list; the tick, a signal, an abort, a
  suspension or a deletion must each take *both* off.
- Stream buffers block with direct-to-task notifications, queues with event lists.
- The port delivers interrupts by suspending the thread of the running task; a yield is the
  interrupt `portINTERRUPT_YIELD`, taken when the critical nesting count returns to zero.
- Mutexes change priorities of tasks that sit in ready lists and event lists.

### What is hard

Interleavings of suspended sections with ISRs; the windows `AbortDelay`, `TaskSuspend`,
`TaskCreate` and the notification calls leave between two critical sections; the tick count's
wrap; caches (`TopReadyPriority`, `NextTaskUnblockTime`) that a dozen paths must refresh; deferred
work that must be made up for exactly once; counters kept by two actors (deleted tasks, locked
queues); and the unfinished refactoring itself, which left some functions wrong. `PROJECT.json`
lists each hazard at its line.

### What makes each component correct

- *Scheduler*: lists are never corrupted; the bit map and the ready lists agree; suspended
  sections exclude one another; no task, wake-up, notification or deferred tick is lost; a sleep
  lasts as long as asked; the highest ready priority runs; counters are exact; delays expire.
- *Queue*: a waiter is woken whenever an item it waits for is there; the locked queue's counts wake as
  many as they counted; a wait ends by its time-out, neither before nor after it; items come out in
  order, once; one holder per mutex.
- *Timers*: a running timer fires once per period, not early, across a wrap.
- *Event groups*: exactly the waiters whose condition is met are released.
- *Stream buffers*: bytes come out as sent; a blocked end is notified when it can go on.
- *heap_4*: blocks partition the heap, free neighbours are merged, `xFreeBytesRemaining` is exact.
- *Port*: the threads together are one processor: critical sections exclude interrupts, a task does not
  run past a yield before it was switched out and back; no thread waits for ever for an event or the mutex.

## 2. The modules

| Module | What it is |
|---|---|
| `Scheduler` | the model of `tasks.cpp` on one core, with what it uses of `list.hpp` and of the port, and one event list used as `queue.cpp` uses its own |
| `DelayClock` | the abstract specification of delays: what each call asks for, a countdown per sleeping task, and the causes that may end one early |
| `MCScheduler` + `MCScheduler_*.cfg` | instances for TLC: two application tasks and Idle, a choice of API calls per run |
| `Scheduler_proofs` | theorems of `Scheduler`, checked by TLAPS: types and suspended sections |
| `SchedulerLists_proofs` | theorems of its lists, its counters, its choice of the running task and its notifications |
| `SchedulerTime_proofs` | theorems of its delayed lists, and that it implements `DelayClock` |
| `StreamBuffer` | one stream, batching or message buffer of `stream_buffer.cpp`, its sender and its receiver |
| `ByteStream` | the abstract specification of such a buffer: a FIFO of bytes or of messages |
| `MCStreamBuffer` + `MCStreamBuffer_*.cfg` | instances: each kind of buffer, between two tasks or a task and an ISR |
| `StreamBuffer_proofs` | theorems of `StreamBuffer`, and that a stream implements `ByteStream`, checked by TLAPS |
| `Queue` | one queue or counting semaphore of `queue.cpp`: its lock, its event lists, the calls that wait with the time-outs of `tasks.cpp`, and the calls from ISRs |
| `MCQueue` + `MCQueue_waits.cfg` | an instance with two tasks and a choice of calls for each |
| `Queue_proofs` | theorems of `Queue`, checked by TLAPS |
| `Port` | the Windows threads of `port.c`, their mutex and their events |
| `Processor` | the abstract specification of a port: one processor with maskable interrupts |
| `MCPort` + `MCPort_*.cfg` | an instance with two tasks and an application thread that pends interrupts |
| `Port_proofs` | theorems of `Port`, and that it implements `Processor`, checked by TLAPS |
| `Timers` | the daemon of `timers.cpp`, its two lists and the commands sent to it |
| `MCTimers` + `MCTimers_daemon.cfg` | an instance with a fast reloading timer and a slow one |
| `Timers_proofs` | theorems of `Timers`, checked by TLAPS |
| `Heap4` | the allocator of `portable/MemMang/heap_4.c`, called by several tasks |
| `Allocator` | the abstract specification of a heap: pieces in use share no byte |
| `MCHeap4` + `MCHeap4_*.cfg` | an instance with a small, unaligned heap and a narrow `size_t` |
| `Heap4_proofs` | theorems of `Heap4`, and that it implements `Allocator`, checked by TLAPS |

### How `Scheduler` corresponds to the code

- **State.** `CurrentTCB`, `SchedulerRunning`, `SchedulerSuspended`, `TickCount`, `PendedTicks`,
  `NextTaskUnblockTime`, `TopReadyPriority`, `CurrentNumberOfTasks` and
  `DeletedTasksWaitingCleanUp` are the globals of `tasks.cpp` (96-137); `YieldPending` is
  `YieldPendings`. Of a TCB: `Priority`, `NotifyState`, `NotifiedValue`, `DelayAborted`,
  `WakeTime` (`StateListItem.Value`). `yieldReq` is the port's pending yield interrupt. `pc`, `op`,
  `arg`, `target`, `ShouldBlock` say where in an API call each task is and hold its locals.
- **Lists.** An item is in at most one list, so lists are represented by the items' `Container`:
  `StateList[t]` (the number `p` for `ReadyTasks[p]`, negative numbers for the others) and
  `EventList[t]`. Positions are left out: any task of the highest ready list may be chosen (a
  superset of round robin), and the head of a sorted list is an item of least value. `append` of a
  linked item and `remove` of an unlinked one, which corrupt the links in the code, set the
  container to `Corrupt`; `ListsIntact` says it never happens. `append`'s self-initialised local
  (`list.hpp:92`) is undefined behaviour at every call; the model takes `append` as the end of the
  list, which its other lines and all callers assume.
- **Grain.** A critical section is one action. `ResumeAll`'s replay of pended ticks is one action
  per tick with interrupts disabled (`pc` = "replay"). A section that only suspends the scheduler
  has a step between each two of its accesses an ISR can race: this is where `AbortDelay`,
  `GenericNotifyTake/Wait`, `Delay` and the event list placement are split. `TaskSuspend` and
  `TaskCreate` are split where the code leaves its critical section. In `TaskSuspendFinish` the
  second critical section and the yield after it are one action. Before `TaskStartScheduler` only the creation of tasks is
  modelled: the branches of `TaskSuspend` and `TaskDelete` for a scheduler that does not run yet are left out.
- **Interrupts.** `TickISR`, `NotifyFromISR`, `TaskResumeFromISR`, `SignalFromISR` and
  `SwitchContext` may run between any two steps outside "replay". The port runs a task only when
  no yield is pending (`Runs`).
- **Calls.** `Calls` says which API functions an instance's application uses. The application does
  not nest `TaskSuspendAll` (the code's bool does not count: see the hazards), does not suspend,
  delete or notify Idle, and makes calls that may not be made with the scheduler suspended only
  outside its own suspension.
- **Abstractions.** A notification value is a count up to `MaxNotified`; bits cleared on entry or
  exit are none or all; `eSetBits` acts as an overwrite with any value. A task keeps its created
  priority as `BasePriority` (no mutexes here). `NOverflows` and mutex inheritance are not in this
  module. Idle only cleans up and yields.

### How `StreamBuffer` corresponds to the code

- **State.** `xHead`, `xTail`, `Buffer` and `xTriggerLevelBytes` are the fields of `StreamBufferDef_t`;
  `Waiting` is the set of ends whose handle is in `TaskWaitingToSend` / `TaskWaitingToReceive`. `pc`, `ticks`,
  `size`, `xSpace`, `xBytesAvailable`, `store` and `rxData` are where each call is and its locals.
- **Bytes.** A byte is its number in all that was sent, modulo `ByteValues`, so a byte lost, repeated or
  read too late has the wrong number. A message's length is `HeaderBytes` cells before its bytes.
- **Grain.** The sender owns the head, the receiver the tail; each step reads what the other end
  writes at most once. The loop of `xStreamBufferSpacesAvailable` re-reads the tail until two reads agree, which is
  one read of it. Copying and moving the index are separate steps. The notification macros are
  three steps (test, notify, forget) in which the other task does not run but an ISR may.
- **Notifications.** What `Scheduler` shows of them is used here: `GenericNotifyWait` blocks exactly if no
  notification came since `TaskGenericNotifyStateClear`. The two tasks interleave at any step, which covers
  every choice of priorities. Notification 0 is shared: `NotifyFromElsewhere` may come at any time.
- **The application** uses one sender and one receiver, resets only when no end is between its look at the
  buffer and its return, and does not call `...CompletedFromISR` for a task that the other end is just notifying.
- `nextByte` and `delivered` are history variables. `Contents`, the messages or bytes between tail and head, is
  the refinement mapping to `ByteStream`.

### How `Heap4` corresponds to the code

- **Where it stands.** `FreeRTOSConfig.h:45` maps `pvPortMalloc` to `malloc`; `heap_4.c` is the repository's own
  allocator for ports without one, and no other module of this project calls it.
- **State.** `xStart`, `End`, `xFreeBytesRemaining` and `xMinimumEverFreeBytesRemaining` are the file's statics. Memory
  is the headers: `NextFreeBlock`, `xBlockSize` and the top bit of the latter, `Allocated`, are functions of an address
  in the heap and keep what was last written there, so a stale header can be read. `Previous` and `Block` are the locals
  of the one walk that can be under way (`Previous` is the `Iterator` of `InsertBlockIntoFreeList`), `found` those of
  `vPortGetHeapStats`.
- **History.** `blocks` (the addresses whose header is a block's), `held` (the pointers the application holds, with the
  bytes it asked for) and `asked` are not in the code; no guard reads the first, and an application frees only what it holds.
- **Numbers.** `SizeMax` is the largest `size_t`: the overflow tests, the product of `pvPortCalloc` and the allocated bit
  are those of its width. `HeapAddress` need not be aligned.
- **Grain.** What `TaskSuspendAll` protects is split at each iteration of a walk, so that properties can speak of a walk half
  done; other tasks wait meanwhile (`Runs`). `vPortFree` clears the allocated bit before it suspends the scheduler, so
  `FreeStart` and `FreeSuspend` are separate and other tasks come between them.
- **Left out.** The two counters of successful calls, the zeroing of `pvPortCalloc`, the heap protector and the
  clearing of freed memory (both configured out).

### How `Timers` corresponds to the code

- **State.** `Current` and `Overflow` are the two lists, in order; `Value`, `Period`, `Active` and `Autoreload` are the
  fields and status bits of each timer; `xLastTime` is the static of `SampleTimeNow`. `pc` says where the daemon is, `msg`
  is the command it works on, and `Timer`, `Expired`, `UpTo`, `back` are the arguments of `ReloadTimer` and its caller.
  `time` counts the ticks without a wrap; the code only sees `TickCount`, which is `time` modulo `TickMod`.
- **Grain.** A step goes from one iteration of a loop to the next: of the daemon, of `ReloadTimer`, of
  `SwitchTimerLists`, of `ProcessReceivedCommands`. Ticks, commands and `vTimerSetReloadMode` come between any two; a
  callback is the step that reports the expiry, and takes the ticks before the next. Only the switch of lists from the
  daemon's own loop runs with the scheduler suspended, and so without ticks. A task that starts a timer looks at the
  clock (`TimerStart`) before its message gets into the queue (`SendStart`), by any number of ticks.
- **The queue** is a FIFO of `QueueLength` that may refuse, which is what `timers.cpp` expects of it. `queue.cpp` as it is now
  does not deliver that (`Send` does not count the item, a created queue has an uninitialised length: see the hazards), so the model's
  behaviours are more than those of the code: the code's are those in which no command is received.
- **The wait** ends with the next command, or at its time-out. As coded (`ListWasEmpty |=`, line 282) it has a time-out
  only when both lists hold a timer.
- **History.** `due` (when each timer expires next, without a wrap), `early`, `sampled`, and `overslept` are read by no
  guard. `overslept` says that two samples were a whole wrap apart, or that a start was that old when it was processed:
  the code cannot tell this from no time at all.
- **The application** asks for periods of at least one tick (nothing in the code refuses 0, and a reloading timer of
  period 0 keeps the daemon in `ReloadTimer`), and does not use a timer any more after it has sent its deletion. The
  daemon's read-modify-write of the status bits is taken as atomic.

### How `Queue` corresponds to the code

- **State.** `nWaiting`, `length`, `rxLock`, `txLock`, `PendingRX` and `PendingTX` are the fields of `Queue_t` (the lists as
  sets of tasks). `op`, `ticks`, `TimeOnEntering` and `OverflowCount` are the call a task is in, its argument and its local
  `TimeOut_t`; `outcome` stands for the branch the locked part of the call took. Of the kernel: `suspender`,
  `PendingReady`, `wake` (the ticks until the tick readies a task), `DelayAborted`, `TickCount`, `NOverflows`.
- **Grain.** A critical section is one step. Between `TaskSuspendAll` and `ResumeAll` there is a step for `Lock`, the
  time-out check, the look at the queue, the placement, each critical section of `Unlock` and `ResumeAll`; ISRs come
  between any two, other tasks and ticks do not. Which ready task runs is left open. `AbortDelay` and the tick are one
  step here: their own windows are `Scheduler`'s.
- **The same body** is written out five times in the code (`Send`, `Recv`, `QueueSemaphoreTake`, `QueuePeek`, and the
  daemon's `vQueueWaitForMessageRestricted`); here it is one set of actions with the differences as conditions on `op`:
  a send that times out returns at once, the others look again; a restricted wait has no time-out check. A wait of no ticks is delayed until the next tick.
- **As coded.** `copyFrom` counts a sent item in a local that hides the member (`queue.cpp:179`), so `Send` and
  `SendFromISR` leave `nWaiting` alone and only `GiveFromISR` and a semaphore's initial count make items;
  `InitAsQueue` assigns its parameter to itself (148), so `length` may be anything; a reset wakes one sender.
- **Which waiter** of a list is woken is left open: the order of event lists is by priority, which is not modelled here.
- **History.** `left` counts down what a call may still wait; `aborted` are the tasks whose delay was aborted in this
  call, or in an earlier one that left the flag `DelayAborted` set. No guard reads either.
- **Bounds.** `MaxAge` bounds the ticks since a waiting call last looked at the clock. Ticks while no call with a finite
  time-out waits change nothing and are left out.

### How `Port` corresponds to the code

- **Threads.** `pc` says where each thread is: a task's, the one in `ProcessSimulatedInterrupts`, the tick thread and
  application threads that pend interrupts. `Suspended` are the threads after `SuspendThread`, `Closing` the tasks whose
  `pvThread` is NULL. `toDelete` is the argument of a `TaskDelete` up to its critical section, `victim` the one of a `TaskDelete` that
  has left it.
- **Windows** is external: `Scheduled` (of the threads pinned to one core one of the highest priority runs; application
  threads are not pinned), the mutex with its owner, its count and its queue (`WaitForMutex`, `ReleaseMutex`), auto-reset
  events. A mutex that is released goes to the first thread that can have it: for the interrupt thread, which waits for the
  mutex and the event at once, that is when both are there. A thread suspended while it waits leaves the queue and waits
  again when it is resumed.
- **Grain.** What a thread does with the mutex held between two waits is one step, since every other thread that looks at the
  same data takes the mutex first. The exceptions are steps of their own: the first tick is pended without it
  (`SetFirstTickRacing`), and the nesting is read once more after it is released (`Recheck`).
- **The kernel** is what it asks of the port: the critical sections, the yields, `PendYield`, and `TaskSwitchContext`, which may
  select any task on the lists (`Selectable`). A handler may have a critical section of its own.
- **Refinement.** `Processor` is mapped to by `current` (`CurrentTCB`), `holder` (the owner of the mutex while the nesting is not
  0) and `request`, which is made while a task waits for its yield event and served once the event is set for it.

## 3. The runs

Each run asks one kind of question; the properties that need the same instance share a run. `VIEW MCView`
hides fields whose value cannot matter (the wake time of a task that is not delayed, the TCB of a task that does not
exist, the time-out of a call that waits for ever, a local that its call does not read any more); it is not used for liveness. The scheduler's instances have
priorities 0..2, Idle at 0, one task at 1 and one at 2.

| Run | Bounds | What it shows |
|---|---|---|
| `sched_time` | 2 tasks, 3-value tick, 1 pended tick and 1 caught up, fairness | delays, delay-until, abort, catch-up, suspensions: types, `WakeUpsCovered`, that the model implements `DelayClock` (`SleepsExactly`: a sleep lasts exactly the ticks its call asked for; only a cause other than a tick ends it sooner), that delays end (`DelayExpires`), and that what a suspension held back is served: the pended ticks, the remembered yield, the call under way (`PendingServed`) |
| `sched_wait` | 2 tasks, 3-value tick | notifications and an event list with time-outs, raced by tasks, ISRs and `AbortDelay`: `NoLostNotification`, `SuspendedSectionsExclusive`, `ListsIntact` (no item in two lists, no task in none), `EventWaitersBlocked`, `HighestPriorityRuns` |
| `sched_life` | 2 tasks, 3-value tick, 2 pended ticks | creation, deletion, suspension, priorities, aborts: `CountsExact`, `ReadyListsExact` |
| `queue_waits` | 2 tasks, 4-value tick, lengths 1 and 2, every call | `WakeUpsOwed` (an item and a sleeping receiver only while a wake-up is on its way), `NeverEarly`, `NeverLate` (a wait ends with its time-out) |
| `port_threads` | 2 tasks, 1 application thread, nesting 2, fairness | `MutexSound`, `ImplementsProcessor` (the threads are one processor), `RequestsServed`, `SchedulerStops` |
| `sb_stream` | 3 bytes, two tasks, waits with and without a time-out, foreign notifications, trigger level 1, fairness | `BytesInOrder` (the buffer implements `ByteStream`), `SenderWoken`, `WaitersAreWaiting`, `NeverBothBlocked`, `EndsProceed` |
| `sb_batch` | batching, 4 bytes, trigger level 2, an ISR sends, resets | an ISR between any two steps of the receiver: `ReceiverWoken` |
| `sb_reader` | messages with 2-byte headers in 7 bytes, an ISR receives with too little room, resets | `BytesInOrder` (messages come out whole) |
| `heap4_heap` | 2 tasks, 18 bytes of heap, 6-bit `size_t` | `BlocksTile`, `FreeListSorted`, `FreeBlocksMerged`, `HeldAreAllocated`, `FreeSpaceHonest` (counter, refusals and statistics agree with the blocks), `ImplementsAllocator` |
| `timers_daemon` | 2 timers, periods 1 and 3, 4-value tick, ticks 2 to 8, 3 calls, a queue of 2 | `NeverEarly`, `ListsMatchEpochs` (each running timer in the right list, once, in order), `NothingOverdue` |
| `heap4_reset` | the same as `heap4_heap` | a disagreement with a comment, see Findings |
| `port_leak` | the same as `port_threads`, nesting 1 | a disagreement with a comment, see Findings |

**Bounds.** The scheduler's tick count wraps after 3 values (`MaxDelay` 2), the fewest in which three times can be
in any order, so a run goes through any number of wraps with sleeps on both sides; the comparisons of the code only depend on order and
on the wrap. `MaxPendedTicks` 1 or 2 is enough for a replay that wakes a task in its first and in
its second tick. Three priorities are the fewest with a task above, at and below another.

A stream buffer of 3 or 4 bytes is at every fill, and its head and tail at every pair of indices, with
sends and receives that fit, fit exactly and do not fit; the message buffers hold two
messages, or one with a header that wraps. Numbers of bytes modulo 2 to 4 tell a byte from its
neighbours and from what was in its cell one round before, because the length of the buffer is not a
multiple of it. With a trigger level above 1 the two
ends of a buffer can wait for each other (a hazard of the code, listed): `EndsProceed` and `NeverBothBlocked` are checked
at level 1, and deadlock in all three runs.

The heap holds up to four blocks. Free blocks are freed in every order, so a block is merged with none, either or both of
its neighbours, is put first, last and between others, and fits exactly or with a rest too small to
split. A request of 5 bytes can fail although enough bytes are free in two pieces; the others overflow in each
way the code tests.

`queue_waits` has a task that receives with a time-out of two ticks or for ever, or sends with one, and one that sends,
overwrites, peeks or waits as the daemon does, without a time-out, so every pair of waits on one queue occurs, with a wake-up
that comes at, before and after the time-out, and up to two items counted while the queue is locked. Between two looks at the
clock up to `MaxAge` = 4 ticks go by, the whole width of the tick count: at 5, `NeverLate` fails, because
`CheckForTimeOut` forgets a whole wrap (a hazard, listed). Two calls that wait for ever may wait for each other, so deadlock
is not checked there.

`port_threads` has a task for each role: one to delete itself and one to be switched to, deleted and created again. A
nesting of 2 tells the outermost exit from the others. One application thread and the tick thread are enough for two
writers of the pending interrupts.

`timers_daemon` goes through two wraps of the tick count, with the daemon late by anything from nothing to all of
them, so that a reload catches up over a wrap, and with starts that are processed in the wrap after the one they were
sent in, or past their expiry. Three calls allow start, change and stop of one timer, or a start of both between
which the daemon does anything. Its `VIEW` hides the expiry of a timer that is in no list. Ticks and calls are
bounded, so its behaviours end and deadlock is not checked there.

**Fairness** (`FairSpec`). Strong fairness of the tick, because it is masked during the replay of
pended ticks and taken at its end: the port's timer thread sets the interrupt pending and it stays
pending (`port.c` 302-400). Weak fairness of the context switch (a pending yield is served) and of a
task's own steps inside a kernel call while it runs. Nothing is assumed of the application: it
need not call anything. In `StreamBuffer`, weak fairness of the steps inside a call: when one end waits the
other does not compete with it, and two ends that both run share the processor by time slices. In `Port`, weak fairness of
the core (some thread pinned to it makes a step while one can), of the steps of each application thread once it has begun to pend an
interrupt, and of the end of the tick thread's `Sleep`: Windows runs the threads that it schedules. Nothing is assumed of which of two
pinned threads of one priority it prefers, and an application thread need not pend anything. That the wait of the interrupt thread times out only when no generator can
run is a bound: a second is long beside a `Sleep` of a tick.

**Findings.** `heap4_reset`: a comment in `vPortGetHeapStats` (`heap_4.c:433`) says "Block will be NULL if the heap has
not been initialised". After `vPortHeapResetState` the heap is not initialised, but `xStart` still links the old free
blocks: until the next allocation the statistics count them and, `End` being null, the old end marker as a block of
size 0.

`port_leak`: a comment in `vPortCloseRunningThread` (`port.c:440`) says that the priority of a thread that deletes itself is raised
"to ensure the FreeRTOS scheduler does not run and swap it out before it is closed. If that were to happen the thread
would never run again and effectively be a thread handle and memory leak". The function leaves its critical section first
(455). Nothing pends an interrupt inside that section, which is `TaskDelete`'s own, but one may be pending since before it was
entered: the tick thread or an application thread gets the mutex while the interrupt thread is about to wait again, `TaskDelete` queues
for it (`port.c:554`), the interrupt thread queues behind the task, and the thread that has the mutex pends its interrupt and releases
it to the task, the first in the queue. Leaving the section, the thread waits for its yield event while the
interrupt thread runs, selects another task and sets that one's event: the thread is never closed. The raised priority does not help
a thread that waits. In the model as in the code `TaskDelete` of the task itself is called outside of other critical sections, enters its
own and leaves it in `vPortCloseRunningThread`, with no step of the task in between.

Every property has a mutant in `PROJECT.json`: a plausible bug in one definition for which TLC finds the
property violated.

## 4. What is proved

Each theorem is proved for every value of the constants that the named assumption of its module allows. Every safety
invariant of the passing runs is proved, and so are the four refinements (that of `ByteStream` for streams only). An invariant is
proved by a stronger one that is inductive: the initial state satisfies it, one lemma per action (or per kind of action)
shows that the steps keep it, and a temporal step concludes. What each invariant adds, and why it is needed, follows.

### The scheduler (`SchedulerAssumption`: a finite set of tasks, Idle one of priority 0, the initial tick a tick, the bounds numbers)

`Scheduler_proofs`:

- `TypeCorrect`: `TypeOK` is not inductive, because `AbortReady` reads the priority of the target, which must be a task; the
  invariant is `TypeOK /\ AbortTargets`. The wrap of the tick count is lemma `ModTick`.
- `SectionsExclude` (`SuspendedSectionsExclusive`), by `SectionInv`, which adds that the replay of pended ticks is done by the
  running task with the scheduler resumed (`ReplayExclusive`: `ResumeAll` ends the section before its call ends), and that
  nothing is suspended before the scheduler starts.

`SchedulerLists_proofs` has one invariant for the structure of the lists, `ListInv`, from which `ReadyListsAreExact`,
`LinksStayIntact` and `WaitersAreBlocked` follow. Besides these three properties it says:

- `RunnerReady`: the running task is in a ready list at every step from which it can link itself elsewhere, so its item is never
  appended twice;
- `AbortHolds`: what `AbortDelay` knows of its target between its halves stays true although ISRs run;
- `NoticeInCall`: a task waits for a notification only inside the call that does, and for nothing else meanwhile;
- `WaitersLive`: what waits or pends is alive, so a deleted task is in no list of anybody;
- `Booted`: the running task exists, and before the scheduler starts every task there is is ready.

On top of it:

- `HighestRuns` (`HighestPriorityRuns`) by `RankInv`: no ready task outranks the running one unless a yield is asked for, or it is
  the task that the running one has just created and is about to compare itself with;
- `NotificationsArrive` (`NoLostNotification`) by `LostInv`: a task that sleeps in, or is about to block in, a notification call is
  still marked as waiting or already taken off its list;
- `CountersExact` (`CountsExact`) by `CountInv`: each counter is the cardinality of a set of tasks. This needs finitely many tasks.

`SchedulerTime_proofs`:

- `WakeUpsStayCovered` (`WakeUpsCovered`) by `TimeInv`: the delayed lists are on their sides of the tick count, also through
  the switch at the wrap, and no wake time is below `NextTaskUnblockTime`; `ArgInv` bounds what a call waits for.
- `SleepsImplementClock`: `Spec => SleepsExactly`. `DelayClock` remembers what a call asks for when it gets to where it blocks
  (`Ask`): a number of ticks, or a wake time. A step puts a task to sleep for exactly that (`Sleep`; `BlockStepTimes` shows
  that the list, the wake time and the wrap are those the call asked for), finds that the call need not sleep (`Forgo`), counts
  one tick for all sleepers (`Elapse`), ends sleeps early (`Cancel`), or changes neither. `Cancel` needs a cause for every task
  it wakes: the signal or notification comes in that step or has made the task pending-ready, its delay is being aborted,
  or it is suspended or deleted. `StepKept` shows, action by action, that no other step ends a sleep before its ticks are counted,
  and `StepRouses` that only a task whose event comes is made pending-ready while it sleeps, so a tick is never a cause.
  `TimeInv` adds for this that before the scheduler starts the tick is the initial one and nobody sleeps (`BootTick`).

### Queues (`QueueAssumption`)

`Queue_proofs`: `TypeCorrect`, `WakeUpsAreOwed`, `WaitsEndInTime` and `WaitsDoNotOutlast`. `Inv` adds to the types where the locks are set
(`LockInv`), what the outcome of a call tells of its place (`OutcomeInv`), and that the lists hold tasks that wait for what the
list is for (`ListInv`).

- `WakeUpsOwed` by `WakeInv`: between two steps of `Unlock` the count in `txLock`, which saturates at the number of tasks, covers the
  items that came since the sleepers found the queue empty, or all of the sleepers.
- `NeverEarly` and `NeverLate` by what the clock of the task and its two locals say of the ticks that are left, for every width of
  the tick count. `WaitsDoNotOutlast` assumes `MaxAge <= TickValues`: no waiting call is kept from looking at the clock for more
  than a wrap. At `MaxAge = TickValues + 1` TLC finds it false.

### The port (`PortAssumption`)

`Port_proofs`: `TypeCorrect`, `MutexIsSound` and `PortImplementsProcessor`. `Inv` says which labels a thread can be at (`LabelInv`), how
often the mutex is taken at each (`CountInv`: once for each critical section, once more inside the port's functions), who has it
(`OwnerInv`), that a thread queues for it once and only while it waits (`QueueInv`), and that all tasks but the current one and those that
end their own thread are suspended (`ThreadInv`; each task that is deleted is deleted by one).

The refinement maps an `Entered` to `Enter`, `ExitCritical` to `Leave`, `SetPending` to `Request`, the handlers that switch no task and
`SwitchContext` to `Interrupt`, setting the yield event to `Return`, deleting a thread to `Forget`, and every other step to nothing.
`Recheck`, which reads the nesting without the mutex, is right because the nesting it reads is the task's own.

### Timers (`TimersAssumption`)

`Timers_proofs`: `TypeCorrect`, `NoExpiryIsEarly`, `ListsAreRight` and `WaitsForTheFirst`, from one invariant, `Inv`:

- `MessageInv`, `DaemonInv`: a message carries a time that has been, and the daemon's sample is not in the future;
- `MemoryInv`: the deletion of a timer that is not static is the last command about it, so no command finds freed memory;
- `LinkInv`: the timer that the daemon works on is in no list, every other one is in one list exactly if it is active;
- `DueInv`: no timer is due later than its list says, with the base of the list's epoch taken from the last sample;
- `EpochInv`: nor is it due in another epoch, unless the daemon or a command was a whole wrap late (`overslept`).

`Advance`, `Passed` and `LastTick` are the arithmetic of ticks and epochs; `RemovedAny`, `RemovedHead` and `InsertedSorted` what
happens to a sorted list.

### Stream buffers (`StreamBufferAssumption`: the length is at least 2, the trigger level fits)

`StreamBuffer_proofs`, for every length, header size, kind of buffer, choice of ISRs and calls:

- `TypeCorrect`: the head and the tail stay in the buffer because each copy fits in the space or the fill it was checked
  against (`CopiesFit`), whatever the header in the buffer says.
- `SenderIsWoken`, `ReceiverIsWoken`, `HandlesAreForgotten`: no lost wake-up. `WakeInv` adds that an end which has committed itself
  to wait is registered and is not about to be forgotten unnotified (`Registered`), and that an end that is an ISR never waits.
  `ReceiverIsWoken` assumes that the trigger level is not changed.
- `EndsNeverBothBlock`: with trigger level 1 the ends of a stream buffer never wait for each other; it follows from the two
  wake-up invariants and from fill and space adding up to the capacity (`FillAndSpace`).
- `StreamsInOrder`: `Spec => BytesInOrder` for stream and batching buffers. `StreamInv` says that what each end has looked at and
  copied stays true while the other goes on: the space that the sender saw is there (`SpaceThere`), what it has copied is ahead
  of the head (`CopiedAhead`), the fill that the receiver saw is there (`FillThere`), and the bytes between tail and head
  are those sent and not yet received, in order (`DataThere`). Moving the head is `Write`, moving the tail `ReadBytes`, a reset
  `Clear`; copying into free space changes nothing.

### heap_4 (`Heap4Assumption`: the heap has room for two headers and is smaller than the allocated bit; requests fit in a `size_t`)

`Heap4_proofs`, for every set of tasks, alignment, header size, place and size of the heap, width of `size_t` and choice of requests:

- `TypeCorrect`, `HeapIsTiled`, `ListIsSorted`, `NeighboursAreMerged`, `HeldIsAllocated`. None is inductive alone: where a block is
  inserted is right because the list is sorted, the list stays sorted because blocks do not overlap, and a block may be
  cut because what the walk has found is free and large enough. They are proved together as `Shape`, inside `HeapInv`, which adds
  who has the scheduler suspended (`SectionInv`), that the blocks tasks are freeing are theirs alone (`LinkInv`), and
  what the walks have seen so far (`WalkInv`: `Previous` is in the list, `Block` is next to it, every block passed was too small).
  One lemma per kind of step shows that `Shape` is kept: `WholeShape`, `SplitShape`, `FreeStartShape`, `InsertShape` (the four ways to
  merge), `SuspendShape` and `PassiveShape`. `WantedSizeFits` and `ProductFits` are the arithmetic of requests.
- `HeapImplementsAllocator`: handing out a block is `Alloc` because distinct blocks do not overlap; `FreeStart` is `Free`,
  `HeapResetState` is `Restart`, every other step changes nothing that is held.
- `FreeSpaceIsHonest` (`FreeSpaceHonest`) by `FreeInv`, which adds that the counter is the number of free bytes (`FreeCountExact`) and
  that the figures of `vPortGetHeapStats` are those of the blocks it has passed (`Tally`). The counter is stated as the cardinality of the
  set of free bytes, not as a sum over blocks, so that no induction is needed: a block that comes or goes adds or takes
  away an interval that no other block covers (`PieceAdded`, `CoversOne`), and merging keeps the set (`CountInsert`).

### What is only model-checked

- Liveness under fairness: `DelayExpires`, `PendingServed`, `EndsProceed`, `RequestsServed`, `SchedulerStops`. The prover has no `ENABLED`.
- `BytesInOrder` of message buffers: where each message starts is a recursive function of the bytes, so what it
  returns needs induction over data, which the installed provers cannot do.


## 5. Not modelled, and the plan

- **Event groups** (`event_groups.cpp`). As coded, `xEventGroupSetBits` releases the waiters whose condition is *not* met
  (233), `xEventGroupWaitBits` never leaves the critical section it enters after a time-out (168), and `xEventGroupSync`
  nests scheduler suspension on a bool, which leaves the scheduler suspended (`tasks.cpp:714`). A faithful model
  has no property worth the name, and no comment or test says what was meant.
- **Mutexes** (`tasks.cpp` 1045-1102, and their part of `queue.cpp`). A mutex is given once when it is created, by a `Send` that
  does not count (`queue.cpp:179`): no task ever takes one (an ISR may not give a mutex), so
  inheritance and disinheritance are not reached.
- **Queue sets**, the bytes of items (as coded no sent item is ever counted), deletion of queues.
- **Stream buffers**: deletion, static creation, the queries, the completion callbacks (configured out).
- **heap_1, heap_2, heap_3, heap_5**: variants of `heap_4` that the build does not select either.
- Positions in the scheduler's lists and round robin among equals; task stacks, names, allocation failure; failures of
  Windows calls; trace macros and kernel statistics; `stripcmt.cpp`, the build files and the headers that only declare.

What is left of the plan, most important first:

1. A proof that messages come out whole and in order, with the boundaries of the messages as a history variable in the
   place of the recursive `MessagesFrom`.
2. `heap_5` as a variant of `Heap4` with several regions.
3. Mutexes, queue sets and event groups once their code is repaired.
