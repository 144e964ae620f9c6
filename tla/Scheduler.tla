------------------------------ MODULE Scheduler ------------------------------
(***************************************************************************)
(* The task scheduler of tasks.cpp: the task lists, the ready-priority bit *)
(* map, the tick, scheduler suspension, delays, suspension, deletion,      *)
(* priorities, direct-to-task notifications and event lists.               *)
(*                                                                         *)
(* Grain.  One core runs the tasks, so only CurrentTCB takes task steps.   *)
(* A critical section is one action, except that ResumeAll replays its     *)
(* pended ticks one per action with interrupts still disabled (pc          *)
(* "replay").  Between two actions any interrupt may run: the tick, an     *)
(* ISR that notifies, resumes or signals, and the context switch itself.   *)
(* A section that only suspends the scheduler is therefore several steps.  *)
(*                                                                         *)
(* Lists.  A list item is in at most one list, so a list is represented    *)
(* by the Container field of the items; the position in a list is left     *)
(* out (the next task of one priority is any of them, the head of a list   *)
(* sorted by value is an item of least value).  Appending an item that is  *)
(* still linked, or removing one that is not, corrupts memory in the code: *)
(* here it sets the container to Corrupt / "corrupt".                      *)
(***************************************************************************)
EXTENDS Integers, FiniteSets

CONSTANTS
  Task,             \* the TCBs, the idle task's included
  Idle,             \* the idle task
  NULL,             \* no task
  MaxPriority,      \* configMAX_PRIORITIES - 1
  MaxDelay,         \* portMAX_DELAY, the largest TickType_t
  InitialTick,      \* configINITIAL_TICK_COUNT
  CreatePriority,   \* the priority each task is created with
  Calls,            \* the API functions the application and its ISRs call
  MaxPendedTicks,   \* bound on the ticks that pend while suspended
  MaxNotified       \* bound on a notification value

Prio  == 0 .. MaxPriority
Tick  == 0 .. MaxDelay
TickModWide == MaxDelay + 2    \* mutant: TickCount wraps one value late
TickMod == MaxDelay + 1

ASSUME SchedulerAssumption ==
  /\ IsFiniteSet(Task) /\ Idle \in Task    \* a TCB takes memory
  /\ NULL \notin Task
  /\ MaxPriority \in Nat
  /\ MaxDelay \in Nat \ {0}
  /\ InitialTick \in Tick
  /\ CreatePriority \in [Task -> Prio]
  /\ CreatePriority[Idle] = 0
  /\ MaxPendedTicks \in Nat
  /\ MaxNotified \in Nat \ {0}

\* Containers of StateListItem.  ReadyTasks[p] is the number p itself.
NoList                  == -1
DelayedTasks            == -2
OverflowDelayed         == -3
SuspendedTasks          == -4
TasksWaitingTermination == -5
Corrupt                 == -6
StateContainer == Prio \cup {NoList, DelayedTasks, OverflowDelayed, SuspendedTasks,
                             TasksWaitingTermination, Corrupt}

\* Containers of EventListItem; "waiting" is the event list of a queue.
EventContainer == {"none", "waiting", "PendingReady", "corrupt"}

Label == {"uncreated", "run", "locked", "delay", "until", "event", "take", "wait", "enlist",
          "resume", "replay", "yield", "notified", "abortState", "abortTest", "abortNotify", "abortRemove",
          "abortEvent", "abortReady", "catchUp", "suspended", "created", "dead"}
Operation == {"none", "Lock", "Delay", "Event", "Take", "Wait", "Abort", "CatchUp"}

VARIABLES
  SchedulerRunning, CurrentTCB, SchedulerSuspended, YieldPending,
  yieldReq,         \* the port's pending yield interrupt
  StateList, EventList, Priority, TopReadyPriority,
  TickCount, WakeTime, NextTaskUnblockTime, PendedTicks,
  CurrentNumberOfTasks, DeletedTasksWaitingCleanUp,
  NotifyState, NotifiedValue, DelayAborted,
  pc, op, arg, target, ShouldBlock    \* where each task is in an API call, and its locals

listVars   == <<StateList, EventList>>
prioVars   == <<Priority, TopReadyPriority>>
timeVars   == <<TickCount, WakeTime, NextTaskUnblockTime, PendedTicks>>
switchVars == <<CurrentTCB, SchedulerSuspended, YieldPending, yieldReq>>
countVars  == <<SchedulerRunning, CurrentNumberOfTasks, DeletedTasksWaitingCleanUp>>
noticeVars == <<NotifyState, NotifiedValue, DelayAborted>>
callVars   == <<pc, op, arg, target, ShouldBlock>>
vars == <<listVars, prioVars, timeVars, switchVars, countVars, noticeVars, callVars>>

-----------------------------------------------------------------------------
(* list.hpp *)

\* Item_t::remove followed by List_t::append or insert into list L.
Relinked(c, L) == IF c \in {NoList, Corrupt} THEN Corrupt ELSE L
\* Item_t::remove.
Unlinked(c) == IF c \in {NoList, Corrupt} THEN Corrupt ELSE NoList
\* List_t::append of an item that must not be linked.
Appended(c, L) == IF c = NoList THEN L ELSE Corrupt
\* EventListItem joins list L; leaves its list; is made to leave if it is in one.
EventAppended(c, L) == IF c = "none" THEN L ELSE "corrupt"
EventUnlinked(c) == IF c \in {"none", "corrupt"} THEN "corrupt" ELSE "none"
EnsureRemovedNot(c) == c    \* mutant: a timed-out waiter stays in the event list
EnsureRemoved(c) == IF c = "corrupt" THEN "corrupt" ELSE "none"
\* remove() returns 0: t was the only item of its list.
OnlyItemAlways(t) == TRUE    \* mutant: the length left in the list is not looked at
OnlyItem(t) == \A u \in Task \ {t} : StateList[u] # StateList[t]

\* mutant: DelayedTasks is not kept sorted
IsHeadValueUnsorted(v, list, value) ==
  LET asleep == {t \in Task : list[t] = DelayedTasks}
  IN  IF asleep = {} THEN v = MaxDelay ELSE \E t \in asleep : value[t] = v
\* v is DelayedTasks->head()->Value, or portMAX_DELAY if that list is empty.
IsHeadValue(v, list, value) ==
  LET asleep == {t \in Task : list[t] = DelayedTasks}
  IN  \/ asleep = {} /\ v = MaxDelay
      \/ /\ \E t \in asleep : value[t] = v
         /\ \A t \in asleep : v <= value[t]

ResetNextTaskUnblockTime(list) ==
  \E v \in Tick : IsHeadValue(v, list, WakeTime) /\ NextTaskUnblockTime' = v

Live == {t \in Task : pc[t] \notin {"uncreated", "dead"}}
Delayed(t) == StateList[t] \in {DelayedTasks, OverflowDelayed}

\* TCB_t::Suspended
Suspended(t) ==
  /\ StateList[t] = SuspendedTasks
  /\ EventList[t] = "none"
  /\ NotifyState[t] # "waiting"

PreemptsLate(u) == Priority[u] > Priority[CurrentTCB] + 1    \* mutant: off by one
\* u is to run instead of the running task.
Preempts(u) == Priority[u] > Priority[CurrentTCB]

\* AddTaskToReadyList of a task whose item has just been removed from its list.
MakeReady(t) ==
  /\ StateList' = [StateList EXCEPT ![t] = Relinked(@, Priority[t])]
  /\ TopReadyPriority' = TopReadyPriority \cup {Priority[t]}

\* taskRESET_READY_PRIORITY after t's item left its list.
ResetReadyPriority(t) ==
  TopReadyPriority' = IF OnlyItem(t) /\ \A u \in Task \ {t} : StateList[u] # Priority[t]
                      THEN TopReadyPriority \ {Priority[t]}
                      ELSE TopReadyPriority

AddCurrentTaskToDelayedList(n, CanBlockIndefinitely) ==
  LET t == CurrentTCB
      wake == (TickCount + n) % TickMod
      list == IF n = MaxDelay /\ CanBlockIndefinitely THEN SuspendedTasks
              ELSE IF wake < TickCount THEN OverflowDelayed ELSE DelayedTasks
  IN  /\ DelayAborted' = [DelayAborted EXCEPT ![t] = FALSE]
      /\ StateList' = [StateList EXCEPT ![t] = Relinked(@, list)]
      /\ TopReadyPriority' = IF OnlyItem(t) THEN TopReadyPriority \ {Priority[t]}
                             ELSE TopReadyPriority
      /\ WakeTime' = IF list = SuspendedTasks THEN WakeTime ELSE [WakeTime EXCEPT ![t] = wake]
      /\ NextTaskUnblockTime' = IF list = DelayedTasks /\ wake < NextTaskUnblockTime THEN wake
                                ELSE NextTaskUnblockTime

SwitchDelayedListsNot(list) == list    \* mutant: the lists are not switched
SwitchDelayedLists(list) ==
  [t \in Task |-> IF list[t] = DelayedTasks THEN OverflowDelayed
                  ELSE IF list[t] = OverflowDelayed THEN DelayedTasks ELSE list[t]]

WakesByEarly(t, tick) == WakeTime[t] <= tick + 1    \* mutant: one tick early
WakesBy(t, tick) == WakeTime[t] <= tick

\* TaskIncrementTick with the scheduler running; switch tells what it returns.
IncrementTick(switch) ==
  LET tick == (TickCount + 1) % TickMod
      list == IF tick = 0 THEN SwitchDelayedLists(StateList) ELSE StateList
  IN  \E next \in Tick :
        /\ IF tick = 0 THEN IsHeadValue(next, list, WakeTime) ELSE next = NextTaskUnblockTime
        /\ LET due == IF tick < next THEN {}
                      ELSE {t \in Task : list[t] = DelayedTasks /\ WakesBy(t, tick)}
           IN  /\ TickCount' = tick
               /\ StateList' = [t \in Task |-> IF t \in due THEN Priority[t] ELSE list[t]]
               /\ EventList' = [t \in Task |-> IF t \in due THEN EnsureRemoved(EventList[t])
                                               ELSE EventList[t]]
               /\ TopReadyPriority' = TopReadyPriority \cup {Priority[t] : t \in due}
               /\ IF tick < next THEN NextTaskUnblockTime' = next
                  ELSE ResetNextTaskUnblockTime(StateList')
               /\ switch <=> \/ \E t \in due : Preempts(t)
                             \/ \E t, u \in Task : /\ t # u
                                                   /\ StateList'[t] = Priority[CurrentTCB]
                                                   /\ StateList'[u] = Priority[CurrentTCB]
                             \/ YieldPending
  /\ UNCHANGED <<Priority, WakeTime>>

-----------------------------------------------------------------------------
(* Start-up: main() creates tasks, then TaskStartScheduler creates Idle.   *)
(* Nothing else is called before the scheduler runs.                       *)

Init ==
  /\ SchedulerRunning = FALSE /\ CurrentTCB = NULL /\ SchedulerSuspended = FALSE
  /\ YieldPending = FALSE /\ yieldReq = FALSE
  /\ StateList = [t \in Task |-> NoList]
  /\ EventList = [t \in Task |-> "none"]
  /\ Priority = CreatePriority
  /\ TopReadyPriority = {}
  /\ TickCount = InitialTick /\ NextTaskUnblockTime = 0 /\ PendedTicks = 0
  /\ WakeTime = [t \in Task |-> 0]
  /\ CurrentNumberOfTasks = 0 /\ DeletedTasksWaitingCleanUp = 0
  /\ NotifyState = [t \in Task |-> "notWaiting"]
  /\ NotifiedValue = [t \in Task |-> 0]
  /\ DelayAborted = [t \in Task |-> FALSE]
  /\ pc = [t \in Task |-> "uncreated"]
  /\ op = [t \in Task |-> "none"]
  /\ arg = [t \in Task |-> 0]
  /\ target = [t \in Task |-> NULL]
  /\ ShouldBlock = [t \in Task |-> FALSE]

\* CreateTask's memset and InitialiseNewTask, and the list work of
\* AddNewTaskToReadyList.  caller's pc moves to next (NULL: main() calls).
AddNewTaskToReadyList(u, caller, next) ==
  /\ pc[u] = "uncreated"
  /\ CurrentNumberOfTasks' = CurrentNumberOfTasks + 1
  /\ Priority' = [Priority EXCEPT ![u] = CreatePriority[u]]
  /\ StateList' = [StateList EXCEPT ![u] = CreatePriority[u]]
  /\ EventList' = [EventList EXCEPT ![u] = "none"]
  /\ TopReadyPriority' = TopReadyPriority \cup {CreatePriority[u]}
  /\ NotifyState' = [NotifyState EXCEPT ![u] = "notWaiting"]
  /\ NotifiedValue' = [NotifiedValue EXCEPT ![u] = 0]
  /\ DelayAborted' = [DelayAborted EXCEPT ![u] = FALSE]
  /\ WakeTime' = [WakeTime EXCEPT ![u] = 0]
  /\ pc' = [t \in Task |-> IF t = u THEN "run" ELSE IF t = caller THEN next ELSE pc[t]]
  /\ CurrentTCB' = IF CurrentTCB = NULL THEN u
                   ELSE IF ~SchedulerRunning /\ Priority[CurrentTCB] <= CreatePriority[u] THEN u
                   ELSE CurrentTCB

TaskCreateBeforeStart(u) ==
  /\ ~SchedulerRunning /\ u # Idle
  /\ AddNewTaskToReadyList(u, NULL, "run")
  /\ UNCHANGED <<SchedulerRunning, SchedulerSuspended, YieldPending, yieldReq, TickCount,
                 NextTaskUnblockTime, PendedTicks, DeletedTasksWaitingCleanUp,
                 op, arg, target, ShouldBlock>>

TaskStartScheduler ==
  /\ ~SchedulerRunning
  /\ AddNewTaskToReadyList(Idle, NULL, "run")
  /\ SchedulerRunning' = TRUE
  /\ NextTaskUnblockTime' = MaxDelay
  /\ TickCount' = InitialTick
  /\ UNCHANGED <<SchedulerSuspended, YieldPending, yieldReq, PendedTicks,
                 DeletedTasksWaitingCleanUp, op, arg, target, ShouldBlock>>

-----------------------------------------------------------------------------
(* The steps of a task inside the kernel. *)

Runs(t) == SchedulerRunning /\ CurrentTCB = t /\ ~yieldReq
At(t, label) == Runs(t) /\ pc[t] = label
\* t is in application code and makes API call c.
CallsApi(t, c) == At(t, "run") /\ t # Idle /\ c \in Calls
\* ... or makes it between its own TaskSuspendAll and ResumeAll.
CallsApiLocked(t, c) == Runs(t) /\ pc[t] \in {"run", "locked"} /\ t # Idle /\ c \in Calls

Goto(t, label) == /\ pc' = [pc EXCEPT ![t] = label]
                  /\ UNCHANGED <<op, arg, target, ShouldBlock>>
Begin(t, label, o, n, u) == /\ pc' = [pc EXCEPT ![t] = label]
                            /\ op' = [op EXCEPT ![t] = o]
                            /\ arg' = [arg EXCEPT ![t] = n]
                            /\ target' = [target EXCEPT ![t] = u]
                            /\ UNCHANGED ShouldBlock
\* t's call is over: pc is what it goes on as, the locals are forgotten.
Leave(t, label) == /\ pc' = [pc EXCEPT ![t] = label]
                   /\ op' = [op EXCEPT ![t] = "none"]
                   /\ arg' = [arg EXCEPT ![t] = 0]
                   /\ target' = [target EXCEPT ![t] = NULL]
                   /\ ShouldBlock' = [ShouldBlock EXCEPT ![t] = FALSE]
\* What follows ResumeAll and its yield: the notification calls look again.
Continue(t) == IF op[t] \in {"Take", "Wait"} THEN Goto(t, "notified") ELSE Leave(t, "run")

\* TaskSuspendAll, called by t as the first step of call o.
SuspendAllFor(t, label, o, n, u) ==
  /\ SchedulerSuspended' = TRUE
  /\ Begin(t, label, o, n, u)
  /\ UNCHANGED <<listVars, prioVars, timeVars, CurrentTCB, YieldPending, yieldReq, countVars,
                 noticeVars>>

Delay(t) == /\ CallsApi(t, "Delay")
            /\ \E n \in 1 .. MaxDelay : SuspendAllFor(t, "delay", "Delay", n, NULL)

DelayEnlist(t) ==
  /\ At(t, "delay")
  /\ AddCurrentTaskToDelayedList(arg[t], FALSE)
  /\ pc' = [pc EXCEPT ![t] = "resume"]
  /\ ShouldBlock' = [ShouldBlock EXCEPT ![t] = TRUE]
  /\ UNCHANGED <<EventList, Priority, TickCount, PendedTicks, switchVars, countVars,
                 NotifyState, NotifiedValue, op, arg, target>>

\* wake is *PreviousWakeTime + xTimeIncrement, each of them any tick count.
DelayUntil(t) == /\ CallsApi(t, "DelayUntil")
                 /\ \E wake \in Tick : SuspendAllFor(t, "until", "Delay", wake, NULL)

\* prev is *PreviousWakeTime, which the task carries from call to call.
DelayUntilEnlist(t) ==
  /\ At(t, "until")
  /\ \E prev \in Tick :
       LET wake == arg[t]
           xShouldDelay == IF TickCount < prev THEN wake < prev /\ wake > TickCount
                           ELSE wake < prev \/ wake > TickCount
       IN  IF xShouldDelay
           THEN AddCurrentTaskToDelayedList((wake - TickCount) % TickMod, FALSE)
           ELSE UNCHANGED <<StateList, TopReadyPriority, WakeTime, NextTaskUnblockTime,
                            DelayAborted>>
  /\ pc' = [pc EXCEPT ![t] = "resume"]
  /\ ShouldBlock' = [ShouldBlock EXCEPT ![t] = TRUE]
  /\ UNCHANGED <<EventList, Priority, TickCount, PendedTicks, switchVars, countVars,
                 NotifyState, NotifiedValue, op, arg, target>>

\* A queue call finds nothing and blocks: CheckForTimeOut on its first pass
\* (no tick has counted yet, so only DelayAborted matters) and PlaceOnEventList,
\* with the queue locked: no ISR touches the event list in between.
WaitEvent(t) == /\ CallsApi(t, "Event")
                /\ \E n \in 1 .. MaxDelay : SuspendAllFor(t, "event", "Event", n, NULL)

PlaceOnEventList(t) ==
  /\ At(t, "event")
  /\ pc' = [pc EXCEPT ![t] = "resume"]
  /\ IF DelayAborted[t]
     THEN /\ DelayAborted' = [DelayAborted EXCEPT ![t] = FALSE]
          /\ UNCHANGED <<listVars, TopReadyPriority, WakeTime, NextTaskUnblockTime, ShouldBlock>>
     ELSE /\ EventList' = [EventList EXCEPT ![t] = EventAppended(@, "waiting")]
          /\ AddCurrentTaskToDelayedList(arg[t], TRUE)
          /\ ShouldBlock' = [ShouldBlock EXCEPT ![t] = TRUE]
  /\ UNCHANGED <<Priority, TickCount, PendedTicks, switchVars, countVars, NotifyState,
                 NotifiedValue, op, arg, target>>

\* ulTaskGenericNotifyTake and GenericNotifyWait, one notification per task.
NotifyTake(t) == /\ CallsApi(t, "Take")
                 /\ \E n \in Tick : SuspendAllFor(t, "take", "Take", n, NULL)

NotifyWait(t) == /\ CallsApi(t, "Wait")
                 /\ \E n \in Tick : SuspendAllFor(t, "wait", "Wait", n, NULL)

\* The first critical section of both: nothing there yet, so wait for it.
\* The bits cleared on entry are none or all.
NotifyTest(t) ==
  /\ At(t, "take") \/ At(t, "wait")
  /\ IF \/ pc[t] = "take" /\ NotifiedValue[t] = 0
        \/ pc[t] = "wait" /\ NotifyState[t] # "received"
     THEN /\ NotifyState' = [NotifyState EXCEPT ![t] = "waiting"]
          /\ \/ UNCHANGED NotifiedValue
             \/ pc[t] = "wait" /\ NotifiedValue' = [NotifiedValue EXCEPT ![t] = 0]
          /\ pc' = [pc EXCEPT ![t] = IF arg[t] > 0 THEN "enlist" ELSE "resume"]
     ELSE /\ UNCHANGED <<NotifyState, NotifiedValue>>
          /\ pc' = [pc EXCEPT ![t] = "resume"]
  /\ UNCHANGED <<listVars, prioVars, timeVars, switchVars, countVars, DelayAborted,
                 op, arg, target, ShouldBlock>>

NotifyEnlist(t) ==
  /\ At(t, "enlist")
  /\ AddCurrentTaskToDelayedList(arg[t], TRUE)
  /\ pc' = [pc EXCEPT ![t] = "resume"]
  /\ ShouldBlock' = [ShouldBlock EXCEPT ![t] = TRUE]
  /\ UNCHANGED <<EventList, Priority, TickCount, PendedTicks, switchVars, countVars,
                 NotifyState, NotifiedValue, op, arg, target>>

\* The last critical section: take the count, or the value if there was a notification.
NotifyReturn(t) ==
  /\ At(t, "notified")
  /\ NotifyState' = [NotifyState EXCEPT ![t] = "notWaiting"]
  /\ LET v == NotifiedValue[t]
         left == IF op[t] = "Take" THEN IF v = 0 THEN {0} ELSE {0, v - 1}
                 ELSE IF NotifyState[t] = "received" THEN {0, v} ELSE {v}
     IN  \E w \in left : NotifiedValue' = [NotifiedValue EXCEPT ![t] = w]
  /\ Leave(t, "run")
  /\ UNCHANGED <<listVars, prioVars, timeVars, switchVars, countVars, DelayAborted>>

PendingReady == {u \in Task : EventList[u] = "PendingReady"}

\* ResumeAll, up to the replay of the pended ticks: a bool minus one is its
\* negation.  Then the pending-ready tasks become ready.
ResumeAll(t) ==
  /\ At(t, "resume")
  /\ SchedulerSuspended' = ~SchedulerSuspended
  /\ IF SchedulerSuspended'
     THEN /\ Continue(t)
          /\ UNCHANGED <<listVars, TopReadyPriority, NextTaskUnblockTime, YieldPending>>
     ELSE LET pending == PendingReady
          IN  /\ EventList' = [u \in Task |-> IF u \in pending THEN "none" ELSE EventList[u]]
              /\ StateList' = [u \in Task |-> IF u \in pending
                                              THEN Relinked(StateList[u], Priority[u])
                                              ELSE StateList[u]]
              /\ TopReadyPriority' = TopReadyPriority \cup {Priority[u] : u \in pending}
              /\ YieldPending' = (YieldPending \/ \E u \in pending : Preempts(u))
              /\ IF pending = {} THEN UNCHANGED NextTaskUnblockTime
                 ELSE ResetNextTaskUnblockTime(StateList')
              /\ Goto(t, "replay")
  /\ UNCHANGED <<Priority, TickCount, WakeTime, PendedTicks, CurrentTCB, yieldReq, countVars,
                 noticeVars>>

\* One round of its loop over the pended ticks, still in the critical section.
\* PendedTicks itself counts down, for the local xPendedCounts.
ReplayTick(t) ==
  /\ At(t, "replay") /\ PendedTicks > 0
  /\ PendedTicks' = PendedTicks - 1
  /\ \E switch \in BOOLEAN : IncrementTick(switch) /\ YieldPending' = (YieldPending \/ switch)
  /\ UNCHANGED <<CurrentTCB, SchedulerSuspended, yieldReq, countVars, noticeVars, callVars>>

TicksReplayed == PendedTicks = 0

\* Its end: yield if one is pending; the caller yields otherwise if it blocked.
ResumeAllReturn(t) ==
  /\ At(t, "replay") /\ TicksReplayed
  /\ yieldReq' = YieldPending
  /\ IF ~YieldPending /\ ShouldBlock[t] THEN Goto(t, "yield") ELSE Continue(t)
  /\ UNCHANGED <<listVars, prioVars, timeVars, CurrentTCB, SchedulerSuspended, YieldPending,
                 countVars, noticeVars>>

YieldWithinApi(t) ==
  /\ At(t, "yield")
  /\ yieldReq' = TRUE
  /\ Continue(t)
  /\ UNCHANGED <<listVars, prioVars, timeVars, CurrentTCB, SchedulerSuspended, YieldPending,
                 countVars, noticeVars>>

\* The application's own TaskSuspendAll ... ResumeAll.
LockScheduler(t) == CallsApi(t, "Lock") /\ SuspendAllFor(t, "locked", "Lock", 0, NULL)

UnlockScheduler(t) ==
  /\ At(t, "locked")
  /\ Goto(t, "resume")
  /\ UNCHANGED <<listVars, prioVars, timeVars, switchVars, countVars, noticeVars>>

CatchUpTicks(t) ==
  /\ CallsApi(t, "CatchUp")
  /\ \E n \in 1 .. MaxPendedTicks : SuspendAllFor(t, "catchUp", "CatchUp", n, NULL)

CatchUpPend(t) ==
  /\ At(t, "catchUp")
  /\ PendedTicks' = PendedTicks + arg[t]
  /\ Goto(t, "resume")
  /\ UNCHANGED <<listVars, prioVars, TickCount, WakeTime, NextTaskUnblockTime, switchVars,
                 countVars, noticeVars>>

\* AbortDelay: TaskGetState of the target u, in a critical section ...
AbortDelay(t) == /\ CallsApi(t, "Abort")
                 /\ \E u \in Live : SuspendAllFor(t, "abortState", "Abort", 0, u)

AbortGetState(t) ==
  /\ At(t, "abortState")
  /\ LET u == target[t]
         settled == u = CurrentTCB \/ EventList[u] = "PendingReady"
     IN  Goto(t, IF ~settled /\ Delayed(u) THEN "abortRemove"
                 ELSE IF ~settled /\ StateList[u] = SuspendedTasks THEN "abortTest"
                 ELSE "resume")
  /\ UNCHANGED <<listVars, prioVars, timeVars, switchVars, countVars, noticeVars>>

\* ... and after it: suspended, or blocked with no timeout?
AbortTestEvent(t) ==
  /\ At(t, "abortTest")
  /\ Goto(t, IF EventList[target[t]] = "none" THEN "abortNotify" ELSE "abortRemove")
  /\ UNCHANGED <<listVars, prioVars, timeVars, switchVars, countVars, noticeVars>>

AbortTestNotify(t) ==
  /\ At(t, "abortNotify")
  /\ Goto(t, IF NotifyState[target[t]] = "waiting" THEN "abortRemove" ELSE "resume")
  /\ UNCHANGED <<listVars, prioVars, timeVars, switchVars, countVars, noticeVars>>

\* mutant: the aborted task is not made ready
AbortRemoveOnly(t) ==
  /\ At(t, "abortRemove")
  /\ StateList' = [StateList EXCEPT ![target[t]] = Unlinked(@)]
  /\ Goto(t, "resume")
  /\ UNCHANGED <<EventList, prioVars, timeVars, switchVars, countVars, noticeVars>>
AbortRemove(t) ==
  /\ At(t, "abortRemove")
  /\ StateList' = [StateList EXCEPT ![target[t]] = Unlinked(@)]
  /\ Goto(t, "abortEvent")
  /\ UNCHANGED <<EventList, prioVars, timeVars, switchVars, countVars, noticeVars>>

AbortEvent(t) ==
  /\ At(t, "abortEvent")
  /\ LET u == target[t]
     IN  IF EventList[u] = "none" THEN UNCHANGED <<EventList, DelayAborted>>
         ELSE /\ EventList' = [EventList EXCEPT ![u] = EventUnlinked(@)]
              /\ DelayAborted' = [DelayAborted EXCEPT ![u] = TRUE]
  /\ Goto(t, "abortReady")
  /\ UNCHANGED <<StateList, prioVars, timeVars, switchVars, countVars, NotifyState, NotifiedValue>>

AbortReady(t) ==
  /\ At(t, "abortReady")
  /\ LET u == target[t]
     IN  /\ StateList' = [StateList EXCEPT ![u] = Appended(@, Priority[u])]
         /\ TopReadyPriority' = TopReadyPriority \cup {Priority[u]}
         /\ YieldPending' = (YieldPending \/ Preempts(u))
  /\ Goto(t, "resume")
  /\ UNCHANGED <<EventList, Priority, timeVars, CurrentTCB, SchedulerSuspended, yieldReq,
                 countVars, noticeVars>>

\* TaskSuspend of u, possibly t itself.
TaskSuspend(t, u) ==
  /\ CallsApi(t, "Suspend") /\ u \in Live \ {Idle}
  /\ StateList' = [StateList EXCEPT ![u] = Relinked(@, SuspendedTasks)]
  /\ ResetReadyPriority(u)
  /\ EventList' = [EventList EXCEPT ![u] = EnsureRemoved(@)]
  /\ NotifyState' = [NotifyState EXCEPT ![u] = IF @ = "waiting" THEN "notWaiting" ELSE @]
  /\ pc' = [pc EXCEPT ![t] = "suspended"]
  /\ target' = [target EXCEPT ![t] = u]
  /\ UNCHANGED <<Priority, timeVars, switchVars, countVars, NotifiedValue, DelayAborted,
                 op, arg, ShouldBlock>>

TaskSuspendFinish(t) ==
  /\ At(t, "suspended")
  /\ ResetNextTaskUnblockTime(StateList)
  /\ yieldReq' = (target[t] = t)
  /\ Leave(t, "run")
  /\ UNCHANGED <<listVars, prioVars, TickCount, WakeTime, PendedTicks, CurrentTCB,
                 SchedulerSuspended, YieldPending, countVars, noticeVars>>

TaskResume(t, u) ==
  /\ CallsApiLocked(t, "Resume") /\ u \in Live \ {t}
  /\ Suspended(u)
  /\ MakeReady(u)
  /\ yieldReq' = Preempts(u)
  /\ UNCHANGED <<EventList, Priority, timeVars, CurrentTCB, SchedulerSuspended, YieldPending,
                 countVars, noticeVars, callVars>>

\* No mutex is held, so BasePriority is Priority.
TaskPrioritySet(t, u, p) ==
  /\ CallsApiLocked(t, "PrioritySet") /\ u \in Live \ {Idle}
  /\ p # Priority[u]
  /\ Priority' = [Priority EXCEPT ![u] = p]
  /\ IF StateList[u] = Priority[u]
     THEN /\ StateList' = [StateList EXCEPT ![u] = p]
          /\ TopReadyPriority' = (TopReadyPriority
                                    \ (IF OnlyItem(u) THEN {Priority[u]} ELSE {})) \cup {p}
     ELSE UNCHANGED <<StateList, TopReadyPriority>>
  /\ yieldReq' = IF p > Priority[u] THEN u # t /\ p > Priority[t] ELSE u = t
  /\ UNCHANGED <<EventList, timeVars, CurrentTCB, SchedulerSuspended, YieldPending,
                 countVars, noticeVars, callVars>>

\* A task deletes itself: it waits in TasksWaitingTermination and, in this
\* port, its thread ends inside the delete hook with a yield pending.
TaskDeleteSelf(t) ==
  /\ CallsApi(t, "Delete")
  /\ StateList' = [StateList EXCEPT ![t] = Relinked(@, TasksWaitingTermination)]
  /\ ResetReadyPriority(t)
  /\ EventList' = [EventList EXCEPT ![t] = EnsureRemoved(@)]
  /\ DeletedTasksWaitingCleanUp' = DeletedTasksWaitingCleanUp + 1
  /\ YieldPending' = TRUE
  /\ yieldReq' = TRUE
  /\ Leave(t, "dead")
  /\ UNCHANGED <<Priority, timeVars, CurrentTCB, SchedulerSuspended, SchedulerRunning,
                 CurrentNumberOfTasks, noticeVars>>

\* A task deletes another one, whose memory is freed at once.
TaskDelete(t, u) ==
  /\ CallsApi(t, "Delete") /\ u \in Live \ {t, Idle}
  /\ StateList' = [StateList EXCEPT ![u] = Unlinked(@)]
  /\ ResetReadyPriority(u)
  /\ EventList' = [EventList EXCEPT ![u] = EnsureRemoved(@)]
  /\ CurrentNumberOfTasks' = CurrentNumberOfTasks - 1
  /\ ResetNextTaskUnblockTime(StateList')
  /\ Leave(u, "uncreated")
  /\ UNCHANGED <<Priority, TickCount, WakeTime, PendedTicks, switchVars, SchedulerRunning,
                 DeletedTasksWaitingCleanUp, noticeVars>>

TaskCreate(t, u) ==
  /\ CallsApi(t, "Create") /\ u # Idle
  /\ AddNewTaskToReadyList(u, t, "created")
  /\ target' = [target EXCEPT ![t] = u]
  /\ UNCHANGED <<SchedulerRunning, SchedulerSuspended, YieldPending, yieldReq, TickCount,
                 NextTaskUnblockTime, PendedTicks, DeletedTasksWaitingCleanUp, op, arg, ShouldBlock>>

\* The yield check is outside the critical section: the new task may already
\* have run, and its TCB may have been freed (then what is read is anything).
TaskCreateFinish(t) ==
  /\ At(t, "created")
  /\ \/ pc[target[t]] # "uncreated" /\ yieldReq' = Preempts(target[t])
     \/ pc[target[t]] = "uncreated" /\ yieldReq' \in BOOLEAN
  /\ Leave(t, "run")
  /\ UNCHANGED <<listVars, prioVars, timeVars, CurrentTCB, SchedulerSuspended, YieldPending,
                 countVars, noticeVars>>

-----------------------------------------------------------------------------
(* Notifications and events, sent by tasks and by ISRs. *)

\* eSetBits only changes the value, as eSetValueWithOverwrite does.
NotifyAction == {"eNoAction", "eIncrement", "eSetValueWithOverwrite",
                 "eSetValueWithoutOverwrite"}

ValuesFor(action) == IF action \in {"eNoAction", "eIncrement"} THEN {0} ELSE 0 .. MaxNotified

\* The part GenericNotify, GenericNotifyFromISR and GiveFromISR share.
SetNotification(u, action, v) ==
  /\ NotifyState' = [NotifyState EXCEPT ![u] = "received"]
  /\ \/ /\ action = "eIncrement"
        /\ NotifiedValue[u] < MaxNotified
        /\ NotifiedValue' = [NotifiedValue EXCEPT ![u] = @ + 1]
     \/ /\ \/ action = "eSetValueWithOverwrite"
           \/ action = "eSetValueWithoutOverwrite" /\ NotifyState[u] # "received"
        /\ NotifiedValue' = [NotifiedValue EXCEPT ![u] = v]
     \/ /\ \/ action = "eNoAction"
           \/ action = "eSetValueWithoutOverwrite" /\ NotifyState[u] = "received"
        /\ UNCHANGED NotifiedValue

GenericNotify(t, u, action, v) ==
  /\ CallsApiLocked(t, "Notify") /\ u \in Live \ {Idle}
  /\ SetNotification(u, action, v)
  /\ IF NotifyState[u] = "waiting"
     THEN MakeReady(u) /\ yieldReq' = Preempts(u)
     ELSE UNCHANGED <<StateList, TopReadyPriority, yieldReq>>
  /\ UNCHANGED <<EventList, Priority, timeVars, CurrentTCB, SchedulerSuspended, YieldPending,
                 countVars, DelayAborted, callVars>>

NotifyStateClear(t, u) ==
  /\ CallsApiLocked(t, "NotifyClear") /\ u \in Live \ {Idle}
  /\ NotifyState[u] = "received"
  /\ NotifyState' = [NotifyState EXCEPT ![u] = "notWaiting"]
  /\ UNCHANGED <<listVars, prioVars, timeVars, switchVars, countVars, NotifiedValue,
                 DelayAborted, callVars>>

\* TaskRemoveFromEventList for the waiter u (queue.cpp picks the head).
RemoveFromEventList(u) ==
  /\ EventList[u] = "waiting"
  /\ IF SchedulerSuspended
     THEN /\ EventList' = [EventList EXCEPT ![u] = EventAppended(EventUnlinked(@), "PendingReady")]
          /\ UNCHANGED <<StateList, TopReadyPriority>>
     ELSE /\ EventList' = [EventList EXCEPT ![u] = EventUnlinked(@)]
          /\ MakeReady(u)
  /\ YieldPending' = (YieldPending \/ Preempts(u))

\* A queue operation of t that unblocks a waiter; while t has the scheduler
\* suspended it is the queue's Unlock, which calls MissedYield instead of yielding.
SignalEvent(t) ==
  /\ CallsApiLocked(t, "Signal")
  /\ \E u \in Task : /\ RemoveFromEventList(u)
                     /\ yieldReq' = (~SchedulerSuspended /\ Preempts(u))
  /\ UNCHANGED <<Priority, timeVars, CurrentTCB, SchedulerSuspended, countVars, noticeVars,
                 callVars>>

\* Interrupts run outside critical sections only.
InterruptsEnabled == SchedulerRunning /\ CurrentTCB # NULL /\ pc[CurrentTCB] # "replay"
\* An ISR that unblocked a task may or may not ask the port for a switch.
MayRequestSwitch(woken) == yieldReq' \in {yieldReq, yieldReq \/ woken}

\* mutant: the ISR moves the task although the scheduler is suspended
WakeFromISRDirectly(u) == MakeReady(u) /\ UNCHANGED EventList
\* The lists when an ISR wakes u: the ready lists are not its to touch while
\* the scheduler is suspended.
WakeFromISR(u) ==
  IF SchedulerSuspended
  THEN /\ EventList' = [EventList EXCEPT ![u] = EventAppended(@, "PendingReady")]
       /\ UNCHANGED <<StateList, TopReadyPriority>>
  ELSE MakeReady(u) /\ UNCHANGED EventList

TickISR ==
  /\ InterruptsEnabled
  /\ IF SchedulerSuspended
     THEN /\ PendedTicks < MaxPendedTicks
          /\ PendedTicks' = PendedTicks + 1
          /\ UNCHANGED <<listVars, prioVars, TickCount, WakeTime, NextTaskUnblockTime, yieldReq>>
     ELSE /\ \E switch \in BOOLEAN : IncrementTick(switch) /\ yieldReq' = (yieldReq \/ switch)
          /\ UNCHANGED PendedTicks
  /\ UNCHANGED <<CurrentTCB, SchedulerSuspended, YieldPending, countVars, noticeVars, callVars>>

\* GenericNotifyFromISR, and GenericNotifyGiveFromISR (eIncrement).
NotifyFromISR(u, action, v) ==
  /\ InterruptsEnabled /\ "NotifyISR" \in Calls /\ u \in Live \ {Idle}
  /\ SetNotification(u, action, v)
  /\ IF NotifyState[u] = "waiting"
     THEN /\ WakeFromISR(u)
          /\ YieldPending' = (YieldPending \/ Preempts(u))
          /\ MayRequestSwitch(Preempts(u))
     ELSE UNCHANGED <<listVars, TopReadyPriority, YieldPending, yieldReq>>
  /\ UNCHANGED <<Priority, timeVars, CurrentTCB, SchedulerSuspended, countVars, DelayAborted,
                 callVars>>

TaskResumeFromISR(u) ==
  /\ InterruptsEnabled /\ "ResumeISR" \in Calls /\ u \in Live
  /\ Suspended(u)
  /\ WakeFromISR(u)
  /\ IF SchedulerSuspended THEN UNCHANGED <<YieldPending, yieldReq>>
     ELSE /\ YieldPending' = (YieldPending \/ Preempts(u))
          /\ MayRequestSwitch(Preempts(u))
  /\ UNCHANGED <<Priority, timeVars, CurrentTCB, SchedulerSuspended, countVars, noticeVars,
                 callVars>>

\* A queue's FromISR function, the queue not locked.
SignalFromISR ==
  /\ InterruptsEnabled /\ "SignalISR" \in Calls
  /\ \E u \in Task : /\ RemoveFromEventList(u)
                     /\ MayRequestSwitch(Preempts(u))
  /\ UNCHANGED <<Priority, timeVars, CurrentTCB, SchedulerSuspended, countVars, noticeVars,
                 callVars>>

\* selectHighestPriorityTask.  An empty list at the highest recorded priority
\* gives the owner of its end marker: no task.
SelectHighestPriorityTask ==
  \E p \in TopReadyPriority :
    /\ \A q \in TopReadyPriority : q <= p
    /\ LET ready == {t \in Task : StateList[t] = p}
       IN  CurrentTCB' \in IF ready = {} THEN {NULL} ELSE ready

\* mutant: SwitchContext does not ask whether the scheduler is suspended
SwitchContextUnchecked ==
  /\ InterruptsEnabled /\ yieldReq
  /\ yieldReq' = FALSE /\ YieldPending' = FALSE
  /\ SelectHighestPriorityTask
  /\ UNCHANGED <<listVars, prioVars, timeVars, SchedulerSuspended, countVars, noticeVars, callVars>>
\* mutant: a yield requested while the scheduler is suspended is not remembered
SwitchContextForgets ==
  /\ InterruptsEnabled /\ yieldReq
  /\ yieldReq' = FALSE /\ YieldPending' = FALSE
  /\ IF SchedulerSuspended THEN UNCHANGED CurrentTCB ELSE SelectHighestPriorityTask
  /\ UNCHANGED <<listVars, prioVars, timeVars, SchedulerSuspended, countVars, noticeVars, callVars>>
\* The port's yield interrupt.
SwitchContext ==
  /\ InterruptsEnabled /\ yieldReq
  /\ yieldReq' = FALSE
  /\ YieldPending' = SchedulerSuspended
  /\ IF SchedulerSuspended THEN UNCHANGED CurrentTCB ELSE SelectHighestPriorityTask
  /\ UNCHANGED <<listVars, prioVars, timeVars, SchedulerSuspended, countVars, noticeVars, callVars>>

\* mutant: the freed task is still counted
IdleCleanUpUncounted ==
  /\ At(Idle, "run") /\ DeletedTasksWaitingCleanUp > 0
  /\ \E u \in Task :
       /\ StateList[u] = TasksWaitingTermination
       /\ StateList' = [StateList EXCEPT ![u] = Unlinked(@)]
       /\ Leave(u, "uncreated")
  /\ DeletedTasksWaitingCleanUp' = DeletedTasksWaitingCleanUp - 1
  /\ UNCHANGED <<EventList, prioVars, timeVars, switchVars, SchedulerRunning,
                 CurrentNumberOfTasks, noticeVars>>
\* The idle task: CheckTasksWaitingTermination frees a task that deleted
\* itself, and it gives way to application tasks of its own priority.
IdleCleanUp ==
  /\ At(Idle, "run") /\ DeletedTasksWaitingCleanUp > 0
  /\ \E u \in Task :
       /\ StateList[u] = TasksWaitingTermination
       /\ StateList' = [StateList EXCEPT ![u] = Unlinked(@)]
       /\ Leave(u, "uncreated")
  /\ CurrentNumberOfTasks' = CurrentNumberOfTasks - 1
  /\ DeletedTasksWaitingCleanUp' = DeletedTasksWaitingCleanUp - 1
  /\ UNCHANGED <<EventList, prioVars, timeVars, switchVars, SchedulerRunning, noticeVars>>

IdleYield ==
  /\ At(Idle, "run") /\ DeletedTasksWaitingCleanUp = 0
  /\ \E u \in Task \ {Idle} : StateList[u] = 0
  /\ yieldReq' = TRUE
  /\ UNCHANGED <<listVars, prioVars, timeVars, CurrentTCB, SchedulerSuspended, YieldPending,
                 countVars, noticeVars, callVars>>

-----------------------------------------------------------------------------
\* The steps of a call under way; the application takes them once it has called.
KernelStep(t) ==
  \/ DelayEnlist(t) \/ DelayUntilEnlist(t) \/ PlaceOnEventList(t)
  \/ NotifyTest(t) \/ NotifyEnlist(t) \/ NotifyReturn(t)
  \/ ResumeAll(t) \/ ReplayTick(t) \/ ResumeAllReturn(t) \/ YieldWithinApi(t)
  \/ UnlockScheduler(t) \/ CatchUpPend(t)
  \/ AbortGetState(t) \/ AbortTestEvent(t) \/ AbortTestNotify(t)
  \/ AbortRemove(t) \/ AbortEvent(t) \/ AbortReady(t)
  \/ TaskSuspendFinish(t) \/ TaskCreateFinish(t)

ApiCall(t) ==
  \/ Delay(t) \/ DelayUntil(t) \/ WaitEvent(t) \/ NotifyTake(t) \/ NotifyWait(t)
  \/ LockScheduler(t) \/ CatchUpTicks(t) \/ AbortDelay(t)
  \/ TaskDeleteSelf(t) \/ SignalEvent(t)
  \/ \E u \in Task : \/ TaskSuspend(t, u) \/ TaskResume(t, u) \/ TaskDelete(t, u)
                      \/ TaskCreate(t, u) \/ NotifyStateClear(t, u)
                      \/ \E p \in Prio : TaskPrioritySet(t, u, p)
                      \/ \E a \in NotifyAction : \E v \in ValuesFor(a) : GenericNotify(t, u, a, v)

Interrupt ==
  \/ TickISR \/ SignalFromISR \/ SwitchContext
  \/ \E u \in Task : \/ TaskResumeFromISR(u)
                      \/ \E a \in NotifyAction : \E v \in ValuesFor(a) : NotifyFromISR(u, a, v)

Start == TaskStartScheduler \/ \E u \in Task : TaskCreateBeforeStart(u)

Next == \/ Start \/ Interrupt \/ IdleCleanUp \/ IdleYield
        \/ \E t \in Task : ApiCall(t) \/ KernelStep(t)

Spec == Init /\ [][Next]_vars

\* The tick timer keeps interrupting: a tick masked by a critical section pends and
\* is taken at its end (hence SF).  The port's yield interrupt is served, and a
\* processor that executes a call keeps executing it; nothing obliges a task to
\* make a call, except the ResumeAll it owes.
FairSpec == /\ Spec
            /\ SF_vars(TickISR) /\ WF_vars(SwitchContext)
            /\ \A t \in Task : WF_vars(KernelStep(t))

-----------------------------------------------------------------------------
(* Properties *)

SwitchType == /\ SchedulerRunning \in BOOLEAN /\ SchedulerSuspended \in BOOLEAN
              /\ YieldPending \in BOOLEAN /\ yieldReq \in BOOLEAN
              /\ CurrentTCB \in Task \cup {NULL}
ListType   == /\ StateList \in [Task -> StateContainer]
              /\ EventList \in [Task -> EventContainer]
              /\ Priority \in [Task -> Prio]
              /\ TopReadyPriority \subseteq Prio
TimeType   == /\ TickCount \in Tick /\ NextTaskUnblockTime \in Tick /\ PendedTicks \in Nat
              /\ WakeTime \in [Task -> Tick]
CountType  == CurrentNumberOfTasks \in Int /\ DeletedTasksWaitingCleanUp \in Int
NoticeType == /\ NotifyState \in [Task -> {"notWaiting", "waiting", "received"}]
              /\ NotifiedValue \in [Task -> 0 .. MaxNotified]
              /\ DelayAborted \in [Task -> BOOLEAN]
CallType   == /\ pc \in [Task -> Label] /\ op \in [Task -> Operation] /\ arg \in [Task -> Nat]
              /\ target \in [Task -> Task \cup {NULL}]
              /\ ShouldBlock \in [Task -> BOOLEAN]
\* Every variable keeps its type; the tick count, the wake times and the time of the
\* next wake-up stay in the range of TickType_t through every wrap.
TypeOK == SwitchType /\ ListType /\ TimeType /\ CountType /\ NoticeType /\ CallType

\* The labels of a task that has the scheduler suspended.
SuspendedSection == {"locked", "delay", "until", "event", "take", "wait", "enlist", "resume",
                     "abortState", "abortTest", "abortNotify", "abortRemove", "abortEvent",
                     "abortReady", "catchUp"}
AbortUnderWay == {"abortEvent", "abortReady"}
InUserCode == SchedulerRunning /\ ~yieldReq /\ pc[CurrentTCB] = "run"

\* The bit map tells exactly which ready lists hold a task, and a ready task is
\* in the list of its own priority: what SwitchContext relies on to find the
\* highest priority task.
ReadyListsExact ==
  /\ \A t \in Task : StateList[t] \in Prio => StateList[t] = Priority[t]
  /\ \A p \in Prio : p \in TopReadyPriority <=> \E t \in Task : StateList[t] = p

\* A task switched out never has the scheduler suspended: suspended sections
\* exclude one another although ISRs and pended yields interrupt them.
SuspendedSectionsExclusive ==
  \A t \in Task : /\ pc[t] \in SuspendedSection => t = CurrentTCB /\ SchedulerSuspended
                  /\ t = CurrentTCB /\ SchedulerSuspended => pc[t] \in SuspendedSection

\* No task is lost: a live task is in a list, but for the moment between the
\* two halves of an AbortDelay of it; the lists hold no other task.
NoTaskLost ==
  \A t \in Task :
    /\ StateList[t] = TasksWaitingTermination <=> pc[t] = "dead"
    /\ pc[t] = "uncreated" => StateList[t] = NoList /\ EventList[t] = "none"
    /\ t \in Live /\ StateList[t] = NoList =>
         pc[CurrentTCB] \in AbortUnderWay /\ target[CurrentTCB] = t

\* The lists stay intact, and no task is lost: no interleaving appends a list item that is still
\* linked or removes one that is not, as an ISR would do that moves a task's item while another
\* task, inside a suspended section, has it in its hands (list.hpp has no check).
ListsIntact ==
  NoTaskLost /\ \A t \in Task : StateList[t] # Corrupt /\ EventList[t] # "corrupt"

\* The two delayed lists stay on their side of the tick count through the
\* wrap, and the tick looks at the delayed list no later than its first wake
\* time: no wake-up is missed.
WakeUpsCovered ==
  SchedulerRunning =>
    \A t \in Task :
      /\ StateList[t] = DelayedTasks => TickCount < WakeTime[t] /\ NextTaskUnblockTime <= WakeTime[t]
      /\ StateList[t] = OverflowDelayed => WakeTime[t] < TickCount

\* Application code runs only in a ready task, and no ready task has a higher
\* priority unless a context switch is pending (YieldPendings).
HighestPriorityRuns ==
  InUserCode => /\ StateList[CurrentTCB] = Priority[CurrentTCB]
                /\ YieldPending \/ \A t \in Task : StateList[t] <= Priority[CurrentTCB]

\* A notification is never lost between the test and the block: a task blocked
\* for a notification that has been sent is about to be made ready.  (Only
\* TaskSuspend keeps a notified task from running.)
NoLostNotification ==
  \A t \in Task :
    /\ op[t] \in {"Take", "Wait"} /\ NotifyState[t] = "received"
    /\ Delayed(t) \/ (StateList[t] = SuspendedTasks /\ "Suspend" \notin Calls)
    => EventList[t] = "PendingReady"

\* A task in an event list is blocked, never ready: a time-out, a suspension
\* and a deletion all take it off the event list too.
EventWaitersBlocked ==
  \A t \in Task : EventList[t] = "waiting" =>
    \/ Delayed(t) \/ StateList[t] = SuspendedTasks
    \/ pc[CurrentTCB] \in AbortUnderWay /\ target[CurrentTCB] = t

\* The counters agree with the tasks they count: the idle task takes the head
\* of TasksWaitingTermination on the word of DeletedTasksWaitingCleanUp.
CountsExact ==
  /\ DeletedTasksWaitingCleanUp = Cardinality({t \in Task : StateList[t] = TasksWaitingTermination})
  /\ CurrentNumberOfTasks = Cardinality({t \in Task : pc[t] # "uncreated"})

\* Every delayed task leaves the delayed lists in the end, through any number
\* of tick count wraps, suspended sections and aborted or caught-up ticks.
DelayExpires == \A t \in Task : Delayed(t) ~> ~Delayed(t)

\* t is ready and of a higher priority than the task that has the processor.
Outranks(t) == SchedulerRunning /\ StateList[t] \in Prio /\ Preempts(t)
\* The task that has the processor is inside an API call.
InCall(t) == SchedulerRunning /\ CurrentTCB = t /\ pc[t] \notin {"run", "dead"}

\* Whatever is held back by a suspended scheduler is served in the end: the suspension ends, the
\* pended ticks are all replayed, a task made ready that outranks the running one is switched to
\* (or stops being ready) although its yield fell into a suspended section and had to be
\* remembered, and the API call under way in the running task returns or leaves the processor.
PendingServed ==
  /\ SchedulerSuspended ~> ~SchedulerSuspended
  /\ PendedTicks > 0 ~> PendedTicks = 0
  /\ \A t \in Task : (Outranks(t) ~> ~Outranks(t)) /\ (InCall(t) ~> ~InCall(t))

\* The abstract specification: what each call asks for, and a countdown for each sleeping task.
NoAsk == [kind |-> "none", n |-> 0]
Asking(t) == \/ pc[t] \in {"delay", "until"}
             \/ pc[t] \in {"event", "enlist"} /\ arg[t] # MaxDelay    \* else: no time-out
Awaited(t) == (IF EventList[t] = "waiting" THEN {"event"} ELSE {})
                \cup (IF NotifyState[t] = "waiting" THEN {"notice"} ELSE {})

Clock == INSTANCE DelayClock WITH
  clock <- TickCount,
  asks <- [t \in Task |-> IF Asking(t) THEN [kind |-> pc[t], n |-> arg[t]] ELSE NoAsk],
  remaining <- [t \in Task |->
                  CASE StateList[t] = DelayedTasks -> WakeTime[t] - TickCount
                    [] StateList[t] = OverflowDelayed -> WakeTime[t] + TickMod - TickCount
                    [] OTHER -> 0],
  awaits <- [t \in Task |-> Awaited(t)],
  roused <- PendingReady,
  aborting <- {u \in Task : \E t \in Task : pc[t] = "abortRemove" /\ target[t] = u},
  stopped <- {t \in Task : StateList[t] = SuspendedTasks \/ pc[t] \in {"uncreated", "dead"}}

\* A blocking call sleeps for exactly the ticks it asked for, or up to the wake time it asked
\* for, through wraps and ticks that are pended, replayed or caught up: no tick ends a sleep too
\* early or too late, and nothing but a signal or notification that came, AbortDelay, TaskSuspend
\* and TaskDelete ends one sooner.
SleepsExactly == Clock!Spec
=============================================================================
