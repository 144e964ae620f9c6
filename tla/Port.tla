-------------------------------- MODULE Port --------------------------------
(***************************************************************************)
(* The Windows port, port.c: each task is a Windows thread, the thread     *)
(* that started the scheduler runs the simulated interrupts, one thread    *)
(* makes the ticks, and application threads may pend interrupts too.       *)
(*                                                                         *)
(* All but the application's threads are pinned to one core, so of them    *)
(* one with the highest Windows priority runs.  pvInterruptEventMutex is   *)
(* handed, when it is released, to the first thread in its queue that can  *)
(* have it: the interrupt thread waits for the mutex and pvInterruptEvent  *)
(* at once.  A thread that is suspended while it waits leaves the queue,   *)
(* and waits again when it is resumed.  What a thread does between two     *)
(* waits with the mutex held is one step: no other thread looks at it.     *)
(*                                                                         *)
(* The kernel is seen through what it asks of the port: a context switch   *)
(* selects any task that is on its lists.                                  *)
(***************************************************************************)
EXTENDS Naturals, Sequences

CONSTANTS
  Tasks,
  First,            \* the task that CurrentTCB points to when the scheduler starts
  WindowsThreads,   \* application threads that pend interrupts
  Isr, Timer,       \* the interrupt thread and the tick thread
  Nobody,
  MaxNesting,       \* how deep critical sections nest
  Calls             \* "create", "remove", "deleteSelf", "end": what tasks do besides

Yield == "yield"    \* portINTERRUPT_YIELD
Tick == "tick"      \* portINTERRUPT_TICK
App == "app"        \* an application's interrupt
Interrupts == {Yield, Tick, App}
Threads == Tasks \cup WindowsThreads \cup {Isr, Timer}
Pinned == Tasks \cup {Isr, Timer}
Generators == WindowsThreads \cup {Timer}
GeneratedBy(g) == IF g = Timer THEN Tick ELSE App

ASSUME PortAssumption ==
  /\ First \in Tasks
  /\ Isr \notin Tasks \cup WindowsThreads
  /\ Timer \notin Tasks \cup WindowsThreads \cup {Isr}
  /\ Tasks \cap WindowsThreads = {}
  /\ Nobody \notin Threads
  /\ MaxNesting \in Nat \ {0}

\* Where a thread waits for the mutex, and where it is once it has it.
Holding == [enter |-> "entered", pend |-> "pending", delete |-> "deleting",
            close |-> "closing", generate |-> "generating", wait |-> "interrupted"]

TaskLabel == {"none", "run", "enter", "entered", "pend", "pending", "recheck", "await",
              "delete", "deleting", "leave", "close", "closing", "exit"}
IsrLabel == {"start", "loop", "wait", "interrupted", "handlers", "nested", "handled",
             "switch", "signal", "done"}
GeneratorLabel == {"idle", "generate", "generating", "done"}

VARIABLES
  pc,                    \* where each thread is; a task at "none" has no thread
  Suspended,             \* tasks whose thread is suspended
  Closing,               \* tasks whose pvThread is NULL: they deleted themselves
  Removed,               \* tasks off the kernel's lists whose thread is to be terminated
  toDelete,              \* the task each task is about to delete, until its section has
  victim,                \* the task whose thread each task is to terminate after it; or Nobody
  CurrentTCB,
  PendYield,             \* YieldPendings[0]
  mutexOwner, mutexCount, mutexQueue,    \* pvInterruptEventMutex
  pvInterruptEvent,
  pvYieldEvent,          \* of each task
  ulPendingInterrupts, ulCriticalNesting, xInsideInterrupt, xPortRunning

threadVars == <<Suspended, Closing, Removed, toDelete, victim>>
kernelVars == <<CurrentTCB, PendYield>>
mutexVars  == <<mutexOwner, mutexCount, mutexQueue>>
eventVars  == <<pvInterruptEvent, pvYieldEvent>>
portVars   == <<ulPendingInterrupts, ulCriticalNesting, xInsideInterrupt, xPortRunning>>
vars == <<pc, threadVars, kernelVars, mutexVars, eventVars, portVars>>

\* xPortStartScheduler has resumed the first task and calls ProcessSimulatedInterrupts.
Init ==
  /\ pc = [th \in Threads |-> CASE th = Isr -> "start"
                                [] th \in Tasks -> IF th = First THEN "run" ELSE "none"
                                [] OTHER -> "idle"]
  /\ Suspended = {} /\ Closing = {} /\ Removed = {}
  /\ toDelete = [t \in Tasks |-> Nobody] /\ victim = [t \in Tasks |-> Nobody]
  /\ CurrentTCB = First /\ PendYield = FALSE
  /\ mutexOwner = Nobody /\ mutexCount = 0 /\ mutexQueue = <<>>
  /\ pvInterruptEvent = FALSE /\ pvYieldEvent = [t \in Tasks |-> FALSE]
  /\ ulPendingInterrupts = {} /\ ulCriticalNesting = 0
  /\ xInsideInterrupt = FALSE /\ xPortRunning = TRUE

-----------------------------------------------------------------------------
(* Windows. *)

Queued(th) == \E i \in DOMAIN mutexQueue : mutexQueue[i] = th

\* portDELETE_SELF_THREAD_PRIORITY is that of the interrupt thread.
Priority(th) ==
  CASE th = Isr \/ th \in Closing -> 3
    [] th = Timer -> 2
    [] OTHER -> 1

Blocked(th) ==
  \/ Queued(th)
  \/ th \in Suspended
  \/ pc[th] \in {"none", "idle", "done"}
  \/ (th \in Tasks /\ pc[th] = "await" /\ ~pvYieldEvent[th])

Scheduled(th) ==
  /\ ~Blocked(th)
  /\ th \in Pinned => \A u \in Pinned : Blocked(u) \/ Priority(u) <= Priority(th)

At(th, label) == pc[th] = label /\ Scheduled(th)
Goto(th, label) == pc' = [pc EXCEPT ![th] = label]

Without(q, th) ==
  IF \E i \in DOMAIN q : q[i] = th
    THEN LET i == CHOOSE j \in DOMAIN q : q[j] = th
         IN  SubSeq(q, 1, i - 1) \o SubSeq(q, i + 1, Len(q))
    ELSE q

\* WaitForSingleObject of the mutex, which its owner may take again.
WaitForMutex(th) ==
  /\ pc[th] \in DOMAIN Holding /\ th # Isr /\ Scheduled(th)
  /\ IF mutexOwner \in {Nobody, th}
       THEN /\ mutexOwner' = th /\ mutexCount' = mutexCount + 1
            /\ Goto(th, Holding[pc[th]])
            /\ UNCHANGED mutexQueue
       ELSE /\ mutexQueue' = Append(mutexQueue, th)
            /\ UNCHANGED <<mutexOwner, mutexCount, pc>>
  /\ UNCHANGED <<threadVars, kernelVars, eventVars, portVars>>

\* ReleaseMutex by its owner, where "moved" says where the threads go on and "signalled" is the
\* state of pvInterruptEvent, which the interrupt thread resets when it has both.
ReleaseMutex(moved, signalled) ==
  LET able == {i \in DOMAIN mutexQueue : mutexQueue[i] = Isr => signalled}
  IN  IF mutexCount > 1 \/ able = {}
        THEN /\ mutexCount' = mutexCount - 1
             /\ mutexOwner' = IF mutexCount > 1 THEN mutexOwner ELSE Nobody
             /\ pc' = moved
             /\ pvInterruptEvent' = signalled
             /\ UNCHANGED mutexQueue
        ELSE \E i \in able :
             /\ \A j \in able : i <= j
             /\ mutexOwner' = mutexQueue[i]
             /\ mutexCount' = 1
             /\ mutexQueue' = Without(mutexQueue, mutexQueue[i])
             /\ pc' = [moved EXCEPT ![mutexQueue[i]] = Holding[@]]
             /\ pvInterruptEvent' = (signalled /\ mutexQueue[i] # Isr)

-----------------------------------------------------------------------------
(* Critical sections and simulated interrupts, from tasks. *)

\* TaskDelete goes on after its critical section.
AfterSection(t) ==
  IF t \in Closing THEN "close" ELSE IF victim[t] # Nobody THEN "delete" ELSE "run"

\* A task makes another call.
Running(t) == At(t, "run") /\ xPortRunning

EnterCritical(t) ==
  /\ Running(t) /\ ulCriticalNesting < MaxNesting
  /\ Goto(t, "enter")
  /\ UNCHANGED <<threadVars, kernelVars, mutexVars, eventVars, portVars>>

Entered(t) ==
  /\ At(t, "entered") /\ toDelete[t] = Nobody
  /\ ulCriticalNesting' = ulCriticalNesting + 1
  /\ Goto(t, "run")
  /\ UNCHANGED <<threadVars, kernelVars, mutexVars, eventVars, ulPendingInterrupts,
                 xInsideInterrupt, xPortRunning>>

WaitsForInterrupt == ~xInsideInterrupt /\ ulPendingInterrupts # {}

\* The end of a critical section of thread th, which goes on at a label unless the section
\* was the outermost and an interrupt is pending.
LeaveCritical(th, label) ==
  LET waits == ulCriticalNesting = 1 /\ WaitsForInterrupt
  IN  /\ ulCriticalNesting' = ulCriticalNesting - 1
      /\ pvYieldEvent' = IF waits THEN [pvYieldEvent EXCEPT ![CurrentTCB] = FALSE]
                                  ELSE pvYieldEvent
      /\ ReleaseMutex([pc EXCEPT ![th] = IF waits THEN "await" ELSE label],
                      pvInterruptEvent \/ waits)
      /\ UNCHANGED <<threadVars, kernelVars, ulPendingInterrupts, xInsideInterrupt,
                     xPortRunning>>

ExitCritical(t) ==
  /\ (Running(t) /\ mutexOwner = t) \/ At(t, "leave")
  /\ LeaveCritical(t, AfterSection(t))

\* vPortGenerateSimulatedInterrupt.
GenerateSimulatedInterrupt(t) ==
  /\ Running(t)
  /\ Goto(t, "pend")
  /\ UNCHANGED <<threadVars, kernelVars, mutexVars, eventVars, portVars>>

EventAfterYield(t) == pvYieldEvent    \* mutant: the task's event is not reset
EventBeforeWait(t) ==
  IF ulCriticalNesting = 0 THEN [pvYieldEvent EXCEPT ![t] = FALSE] ELSE pvYieldEvent

SetPending(t) ==
  /\ At(t, "pending")
  /\ \E i \in {Yield, App} : ulPendingInterrupts' = ulPendingInterrupts \cup {i}
  /\ pvYieldEvent' = EventBeforeWait(t)
  /\ ReleaseMutex([pc EXCEPT ![t] = "recheck"], pvInterruptEvent \/ ulCriticalNesting = 0)
  /\ UNCHANGED <<threadVars, kernelVars, ulCriticalNesting, xInsideInterrupt, xPortRunning>>

\* The nesting is read once more after the mutex was released.
Recheck(t) ==
  /\ At(t, "recheck")
  /\ Goto(t, IF ulCriticalNesting = 0 THEN "await" ELSE "run")
  /\ UNCHANGED <<threadVars, kernelVars, mutexVars, eventVars, portVars>>

\* mutant: the mutex is released after the wait too (lMutexNeedsReleasing)
YieldEventSetReleases(t) ==
  /\ At(t, "await")
  /\ pvYieldEvent' = [pvYieldEvent EXCEPT ![t] = FALSE]
  /\ ReleaseMutex([pc EXCEPT ![t] = AfterSection(t)], pvInterruptEvent)
  /\ UNCHANGED <<threadVars, kernelVars, portVars>>
YieldEventSet(t) ==
  /\ At(t, "await")
  /\ pvYieldEvent' = [pvYieldEvent EXCEPT ![t] = FALSE]
  /\ Goto(t, AfterSection(t))
  /\ UNCHANGED <<threadVars, kernelVars, mutexVars, pvInterruptEvent, portVars>>

-----------------------------------------------------------------------------
(* Threads come and go. *)

\* The tasks a context switch can select.
Selectable == {t \in Tasks : pc[t] # "none"} \ (Closing \cup Removed)

\* PortInitialiseStack: a suspended thread for a new task.
InitialiseStack(t, u) ==
  /\ "create" \in Calls /\ Running(t) /\ pc[u] = "none"
  /\ Suspended' = Suspended \cup {u}
  /\ Closing' = Closing \ {u}
  /\ pvYieldEvent' = [pvYieldEvent EXCEPT ![u] = FALSE]
  /\ Goto(u, "run")
  /\ UNCHANGED <<Removed, toDelete, victim, kernelVars, mutexVars, pvInterruptEvent, portVars>>

\* TaskDelete of u, which may be t itself, outside of any critical section of the application
\* then.  The application deletes a task once, and not all of them: the idle task stays.
TaskDelete(t, u) ==
  /\ Running(t) /\ ulCriticalNesting < MaxNesting
  /\ \/ u = t /\ "deleteSelf" \in Calls /\ mutexOwner # t
     \/ u # t /\ "remove" \in Calls
  /\ LET free == {v \in Selectable : \A w \in Tasks : toDelete[w] # v}
     IN  u \in free /\ free # {u}
  /\ toDelete' = [toDelete EXCEPT ![t] = u]
  /\ Goto(t, "enter")
  /\ UNCHANGED <<Suspended, Closing, Removed, victim, kernelVars, mutexVars, eventVars, portVars>>

\* In its own critical section it takes another task off the lists...
Remove(t) ==
  LET u == toDelete[t]
  IN  /\ At(t, "entered") /\ u \in Selectable \ {t}
      /\ ulCriticalNesting' = ulCriticalNesting + 1
      /\ Removed' = Removed \cup {u}
      /\ toDelete' = [toDelete EXCEPT ![t] = Nobody]
      /\ victim' = [victim EXCEPT ![t] = u]
      /\ Goto(t, "leave")
      /\ UNCHANGED <<Suspended, Closing, kernelVars, mutexVars, eventVars, ulPendingInterrupts,
                     xInsideInterrupt, xPortRunning>>

\* ... and has vPortDeleteThread terminate its thread after it.
DeleteThread(t) ==
  LET u == victim[t]
  IN  /\ At(t, "deleting")
      /\ Removed' = Removed \ {u}
      /\ Suspended' = Suspended \ {u}
      /\ toDelete' = [toDelete EXCEPT ![u] = Nobody]
      /\ victim' = [victim EXCEPT ![t] = Nobody, ![u] = Nobody]
      /\ ReleaseMutex([pc EXCEPT ![t] = "run", ![u] = "none"], pvInterruptEvent)
      /\ UNCHANGED <<Closing, kernelVars, pvYieldEvent, portVars>>

\* ... and of t itself it calls vPortCloseRunningThread, which leaves that section.
CloseRunningThread(t) ==
  /\ At(t, "entered") /\ toDelete[t] = t
  /\ ulCriticalNesting = 0 /\ ulCriticalNesting' = 1
  /\ toDelete' = [toDelete EXCEPT ![t] = Nobody]
  /\ Closing' = Closing \cup {t}
  /\ PendYield' = TRUE
  /\ Goto(t, "leave")
  /\ UNCHANGED <<Suspended, Removed, victim, CurrentTCB, mutexVars, eventVars,
                 ulPendingInterrupts, xInsideInterrupt, xPortRunning>>

\* After the critical section a yield is pended, but the interrupt thread is not woken.
PendClosingYield(t) ==
  /\ At(t, "closing")
  /\ ulPendingInterrupts' = ulPendingInterrupts \cup {Yield}
  /\ ReleaseMutex([pc EXCEPT ![t] = "exit"], pvInterruptEvent)
  /\ UNCHANGED <<threadVars, kernelVars, pvYieldEvent, ulCriticalNesting, xInsideInterrupt,
                 xPortRunning>>

ExitThread(t) ==
  /\ At(t, "exit")
  /\ Goto(t, "none")
  /\ UNCHANGED <<threadVars, kernelVars, mutexVars, eventVars, portVars>>

\* TaskEndScheduler disables interrupts, which is to enter a critical section, before it
\* calls vPortEndScheduler.  The application makes no kernel call after it.
EndScheduler(t) ==
  /\ "end" \in Calls /\ Running(t) /\ mutexOwner = t
  /\ xPortRunning' = FALSE
  /\ UNCHANGED <<pc, threadVars, kernelVars, mutexVars, eventVars, ulPendingInterrupts,
                 ulCriticalNesting, xInsideInterrupt>>

-----------------------------------------------------------------------------
(* ProcessSimulatedInterrupts. *)

SetFirstTick ==
  /\ At(Isr, "start")
  /\ ulPendingInterrupts' = ulPendingInterrupts \cup {Tick}
  /\ pvInterruptEvent' = TRUE
  /\ Goto(Isr, "loop")
  /\ UNCHANGED <<threadVars, kernelVars, mutexVars, pvYieldEvent, ulCriticalNesting,
                 xInsideInterrupt, xPortRunning>>

\* That write is made without the mutex: one of two that overlap may be lost.
SetFirstTickRacing(g) ==
  /\ At(Isr, "start") /\ At(g, "generating")
  /\ \E i \in {Tick, GeneratedBy(g)} : ulPendingInterrupts' = ulPendingInterrupts \cup {i}
  /\ ReleaseMutex([pc EXCEPT ![Isr] = "loop", ![g] = "idle"], TRUE)
  /\ UNCHANGED <<threadVars, kernelVars, pvYieldEvent, ulCriticalNesting, xInsideInterrupt,
                 xPortRunning>>

\* The mutex and the event are waited for at once.
WaitForInterrupt ==
  /\ At(Isr, "loop") /\ xPortRunning
  /\ xInsideInterrupt' = FALSE
  /\ IF mutexOwner = Nobody /\ pvInterruptEvent
       THEN /\ mutexOwner' = Isr /\ mutexCount' = 1 /\ pvInterruptEvent' = FALSE
            /\ Goto(Isr, "interrupted")
            /\ UNCHANGED mutexQueue
       ELSE /\ mutexQueue' = Append(mutexQueue, Isr)
            /\ Goto(Isr, "wait")
            /\ UNCHANGED <<mutexOwner, mutexCount, pvInterruptEvent>>
  /\ UNCHANGED <<threadVars, kernelVars, pvYieldEvent, ulPendingInterrupts,
                 ulCriticalNesting, xPortRunning>>

WaitTimesOutNever == FALSE    \* mutant: the wait has no time-out
\* The wait ends after a second, to see whether the scheduler was stopped.  In a second, the
\* generators that can run have run.
WaitTimesOut ==
  /\ pc[Isr] = "wait" /\ \A g \in Generators : Blocked(g)
  /\ mutexQueue' = Without(mutexQueue, Isr)
  /\ Goto(Isr, "loop")
  /\ UNCHANGED <<threadVars, kernelVars, mutexOwner, mutexCount, eventVars, portVars>>

SchedulerEnded ==
  /\ At(Isr, "loop") /\ ~xPortRunning
  /\ Goto(Isr, "done")
  /\ UNCHANGED <<threadVars, kernelVars, mutexVars, eventVars, portVars>>

Interrupted ==
  /\ At(Isr, "interrupted")
  /\ xInsideInterrupt' = TRUE
  /\ Goto(Isr, "handlers")
  /\ UNCHANGED <<threadVars, kernelVars, mutexVars, eventVars, ulPendingInterrupts,
                 ulCriticalNesting, xPortRunning>>

\* A handler may have a critical section.
HandlerEntersCritical ==
  /\ At(Isr, "handlers")
  /\ mutexCount' = mutexCount + 1
  /\ ulCriticalNesting' = ulCriticalNesting + 1
  /\ Goto(Isr, "nested")
  /\ UNCHANGED <<threadVars, kernelVars, mutexOwner, mutexQueue, eventVars,
                 ulPendingInterrupts, xInsideInterrupt, xPortRunning>>

HandlerExitsCritical == At(Isr, "nested") /\ LeaveCritical(Isr, "handled")

\* Whether the handlers of the pending interrupts require a context switch: the yield's
\* does, the tick's does at least when a yield is pending in the kernel.
SwitchRequired(required) ==
  /\ Yield \in ulPendingInterrupts => required
  /\ Tick \in ulPendingInterrupts /\ PendYield => required
  /\ required => ulPendingInterrupts # {}

\* mutant: the mutex is released before the context is switched
RunHandlersReleases ==
  /\ At(Isr, "handlers") \/ At(Isr, "handled")
  /\ \E required \in BOOLEAN :
       /\ SwitchRequired(required)
       /\ ReleaseMutex([pc EXCEPT ![Isr] = IF required THEN "switch" ELSE "signal"],
                       pvInterruptEvent)
  /\ ulPendingInterrupts' = {}
  /\ UNCHANGED <<threadVars, kernelVars, pvYieldEvent, ulCriticalNesting, xInsideInterrupt,
                 xPortRunning>>
\* mutant: the task is signalled only when the context was switched
RunHandlersSilent ==
  /\ At(Isr, "handlers") \/ At(Isr, "handled")
  /\ \E required \in BOOLEAN :
       /\ SwitchRequired(required)
       /\ IF required
            THEN Goto(Isr, "switch") /\ UNCHANGED <<mutexVars, pvInterruptEvent>>
            ELSE ReleaseMutex([pc EXCEPT ![Isr] = "loop"], pvInterruptEvent)
  /\ ulPendingInterrupts' = {}
  /\ UNCHANGED <<threadVars, kernelVars, pvYieldEvent, ulCriticalNesting, xInsideInterrupt,
                 xPortRunning>>
RunHandlers ==
  /\ At(Isr, "handlers") \/ At(Isr, "handled")
  /\ \E required \in BOOLEAN :
       /\ SwitchRequired(required)
       /\ Goto(Isr, IF required THEN "switch" ELSE "signal")
  /\ ulPendingInterrupts' = {}
  /\ UNCHANGED <<threadVars, kernelVars, mutexVars, eventVars, ulCriticalNesting,
                 xInsideInterrupt, xPortRunning>>

\* SuspendThread of the current task, which has no effect once its handle is closed,
\* TaskSwitchContext, and ResumeThread of the task it selects.
SuspendedBySwitch == IF CurrentTCB \in Closing THEN {} ELSE {CurrentTCB}
SwitchContext ==
  /\ At(Isr, "switch")
  /\ \E t \in Selectable :
       /\ CurrentTCB' = t
       /\ Suspended' = (Suspended \cup SuspendedBySwitch) \ {t}
  /\ mutexQueue' = IF CurrentTCB \in Closing THEN mutexQueue
                                             ELSE Without(mutexQueue, CurrentTCB)
  /\ PendYield' = FALSE
  /\ Goto(Isr, "signal")
  /\ UNCHANGED <<Closing, Removed, toDelete, victim, mutexOwner, mutexCount, eventVars, portVars>>

SignalCurrent ==
  /\ At(Isr, "signal")
  /\ pvYieldEvent' = [pvYieldEvent EXCEPT ![CurrentTCB] = TRUE]
  /\ ReleaseMutex([pc EXCEPT ![Isr] = "loop"], pvInterruptEvent)
  /\ UNCHANGED <<threadVars, kernelVars, portVars>>

-----------------------------------------------------------------------------
(* vPortGenerateSimulatedInterruptFromWindowsThread, by the tick thread and others. *)

\* Sleep returns, or the application thread has an interrupt to pend.
Wake(g) ==
  /\ pc[g] = "idle"
  /\ Goto(g, IF xPortRunning THEN "generate" ELSE "done")
  /\ UNCHANGED <<threadVars, kernelVars, mutexVars, eventVars, portVars>>

PendFromWindows(g) ==
  /\ At(g, "generating")
  /\ ulPendingInterrupts' = ulPendingInterrupts \cup {GeneratedBy(g)}
  /\ ReleaseMutex([pc EXCEPT ![g] = "idle"], TRUE)
  /\ UNCHANGED <<threadVars, kernelVars, pvYieldEvent, ulCriticalNesting, xInsideInterrupt,
                 xPortRunning>>

-----------------------------------------------------------------------------

TaskStep(t) ==
  \/ WaitForMutex(t) \/ Entered(t) \/ Remove(t) \/ CloseRunningThread(t) \/ ExitCritical(t)
  \/ SetPending(t) \/ Recheck(t) \/ YieldEventSet(t)
  \/ DeleteThread(t) \/ PendClosingYield(t) \/ ExitThread(t)

TaskCall(t) ==
  \/ EnterCritical(t) \/ GenerateSimulatedInterrupt(t) \/ EndScheduler(t)
  \/ \E u \in Tasks : InitialiseStack(t, u) \/ TaskDelete(t, u)

IsrStep ==
  \/ SetFirstTick \/ WaitForInterrupt \/ WaitTimesOut \/ SchedulerEnded \/ Interrupted
  \/ HandlerEntersCritical \/ HandlerExitsCritical \/ RunHandlers \/ SwitchContext
  \/ SignalCurrent

GeneratorStep(g) == WaitForMutex(g) \/ PendFromWindows(g)

Stopped == ~xPortRunning /\ UNCHANGED vars

Next ==
  \/ \E t \in Tasks : TaskStep(t) \/ TaskCall(t)
  \/ IsrStep
  \/ \E g \in Generators : Wake(g) \/ GeneratorStep(g)
  \/ \E g \in WindowsThreads : SetFirstTickRacing(g)
  \/ Stopped

Spec == Init /\ [][Next]_vars

PinnedStep == IsrStep \/ GeneratorStep(Timer) \/ \E t \in Tasks : TaskStep(t)

\* Windows does not leave the core idle while a thread pinned to it can run, runs the application
\* threads beside it, and the tick thread's sleep ends.
Fairness ==
  /\ WF_vars(PinnedStep)
  /\ \A w \in WindowsThreads : WF_vars(GeneratorStep(w))
  /\ WF_vars(Wake(Timer))
FairSpec == Spec /\ Fairness

-----------------------------------------------------------------------------
(* Properties. *)

TypeOK ==
  /\ pc \in [Threads -> TaskLabel \cup IsrLabel \cup GeneratorLabel]
  /\ Suspended \subseteq Tasks /\ Closing \subseteq Tasks /\ Removed \subseteq Tasks
  /\ toDelete \in [Tasks -> Tasks \cup {Nobody}]
  /\ victim \in [Tasks -> Tasks \cup {Nobody}]
  /\ CurrentTCB \in Tasks /\ PendYield \in BOOLEAN
  /\ mutexOwner \in Threads \cup {Nobody} /\ mutexCount \in 0 .. MaxNesting + 1
  /\ mutexQueue \in Seq(Threads)
  /\ pvInterruptEvent \in BOOLEAN /\ pvYieldEvent \in [Tasks -> BOOLEAN]
  /\ ulPendingInterrupts \subseteq Interrupts /\ ulCriticalNesting \in 0 .. MaxNesting
  /\ xInsideInterrupt \in BOOLEAN /\ xPortRunning \in BOOLEAN

\* "Cannot be in a critical section to get here": the interrupt thread processes interrupts
\* only while no task is in a critical section, and no other thread has the mutex.
NotInCriticalSection ==
  pc[Isr] \in {"interrupted", "handlers", "handled", "switch", "signal"} =>
    mutexOwner = Isr /\ mutexCount = 1 /\ ulCriticalNesting = 0

\* A thread that is suspended or gone never has the mutex, for nothing would release it.
OwnerCanRelease ==
  mutexOwner \in Tasks =>
    /\ pc[mutexOwner] # "none" /\ mutexOwner \notin Suspended
    /\ mutexOwner = CurrentTCB \/ mutexOwner \in Closing

\* The mutex protects what it is for, and is not lost with its owner.
MutexSound == NotInCriticalSection /\ OwnerCanRelease

\* The port gives the kernel one processor (Processor): interrupts stay out of critical
\* sections, and a task does not run past a yield before it was switched out and back.
Holder == IF mutexOwner \in Tasks /\ ulCriticalNesting > 0 THEN mutexOwner ELSE Nobody
Request(t) ==
  IF pc[t] \notin {"recheck", "await"} \/ t \in Closing \/ Holder = t THEN "none"
  ELSE IF pvYieldEvent[t] \/ (pc[Isr] = "signal" /\ CurrentTCB = t) THEN "served" ELSE "made"
Processor == INSTANCE Processor WITH
  current <- CurrentTCB, holder <- Holder, request <- [t \in Tasks |-> Request(t)],
  None <- Nobody
ImplementsProcessor == Processor!Spec

\* The processor is never left for ever with a task that cannot use it: one that waits for the
\* interrupt it pended is let go on or switched out, and one that ended its own thread, which
\* wakes nobody, is switched out.
CurrentIsStuck ==
  \/ pc[CurrentTCB] = "none"
  \/ pc[CurrentTCB] = "await" /\ ~pvYieldEvent[CurrentTCB]
RequestsServed == CurrentIsStuck ~> ~CurrentIsStuck

\* xPortStartScheduler returns once the scheduler was stopped, although the task that stopped it
\* keeps the mutex and nobody sets the interrupt thread's event.
SchedulerStops == ~xPortRunning ~> pc[Isr] = "done"

\* "To ensure the FreeRTOS scheduler does not run and swap it out before it is closed": a
\* thread that closes itself is not left waiting for an interrupt when another task runs.
ClosedBeforeSwitch == \A t \in Closing : pc[t] = "await" => CurrentTCB = t
=============================================================================
