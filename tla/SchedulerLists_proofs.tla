------------------------ MODULE SchedulerLists_proofs ------------------------
(***************************************************************************)
(* Theorems about the lists of Scheduler, for every set of tasks and every *)
(* choice of API calls: the ready lists and their bit map, the integrity   *)
(* of the links, the event list, the priorities, the notifications.        *)
(***************************************************************************)
EXTENDS Scheduler_proofs, FiniteSetTheorems

(* The inductive invariant. *)

\* There is a running task from the first creation on, and it exists; before
\* TaskStartScheduler every task there is is ready.
Booted ==
  /\ SchedulerRunning => CurrentTCB # NULL
  /\ CurrentTCB = NULL => \A t \in Task : pc[t] = "uncreated"
  /\ CurrentTCB # NULL => pc[CurrentTCB] # "uncreated"
  /\ ~SchedulerRunning => \A t \in Task : StateList[t] \in Prio \cup {NoList}

\* No list item was appended while linked or removed while not.
NotCorrupt == \A t \in Task : StateList[t] # Corrupt /\ EventList[t] # "corrupt"

\* The running task is ready until its call blocks it or it suspends itself: inside a
\* suspended section up to the blocking, and outside as long as no yield is pending.
ReadyIn(c) ==
  \/ pc[c] \in SuspendedSection \ {"resume"}
  \/ pc[c] \in {"resume", "replay"} /\ ~ShouldBlock[c]
  \/ ~yieldReq /\ pc[c] \in {"run", "notified", "created"}
  \/ ~yieldReq /\ pc[c] = "suspended" /\ target[c] # c
RunnerReady == \A c \in Task : c = CurrentTCB /\ ReadyIn(c) => StateList[c] \in Prio

\* AbortDelay has its target in its hands: the target is alive, blocked when the first
\* half has looked at it, in no list between the halves, and off the event list at the end.
Blocked(u) == StateList[u] \in {DelayedTasks, OverflowDelayed, SuspendedTasks}
AbortHolds ==
  \A c \in Task :
    /\ pc[c] \in AbortSteps => target[c] \in Live
    /\ pc[c] \in {"abortTest", "abortNotify", "abortRemove"} => Blocked(target[c])
    /\ pc[c] \in AbortUnderWay => StateList[target[c]] = NoList
    /\ pc[c] = "abortReady" => EventList[target[c]] # "waiting"

\* Only the tasks that live wait or pend, and they pend only while the scheduler is suspended.
WaitersLive ==
  \A t \in Task : /\ EventList[t] = "PendingReady" => SchedulerSuspended
                  /\ EventList[t] # "none" => t \in Live

\* A task waits for a notification in a notification call, past its test, and waits then
\* for nothing else; the calls that test or block find the event item free.
Waiting(t) == NotifyState[t] = "waiting" /\ t \in Live
NoticeInCall ==
  \A t \in Task :
    /\ Waiting(t) => /\ pc[t] \in {"enlist", "resume", "replay", "yield", "notified"}
                     /\ op[t] \in {"Take", "Wait"}
                     /\ EventList[t] = "none"
    /\ pc[t] \in {"take", "wait", "enlist"} => op[t] \in {"Take", "Wait"}
    /\ pc[t] \in {"event", "take", "wait"} => EventList[t] = "none"

ListInv == /\ TypeInv /\ SectionInv /\ Booted
           /\ ReadyListsExact /\ NoTaskLost /\ NotCorrupt
           /\ RunnerReady /\ AbortHolds /\ WaitersLive /\ NoticeInCall /\ EventWaitersBlocked

-----------------------------------------------------------------------------
(* The ready lists and their bit map. *)

\* The other containers are no ready list, and differ from one another.
LEMMA Apart ==
  /\ \A L \in {NoList, DelayedTasks, OverflowDelayed, SuspendedTasks, TasksWaitingTermination,
               Corrupt} : L \notin Prio /\ L \in StateContainer
  /\ NoList \notin {DelayedTasks, OverflowDelayed, SuspendedTasks, TasksWaitingTermination, Corrupt}
  /\ Corrupt \notin {DelayedTasks, OverflowDelayed, SuspendedTasks, TasksWaitingTermination}
  /\ TasksWaitingTermination \notin {DelayedTasks, OverflowDelayed, SuspendedTasks}
  /\ SuspendedTasks \notin {DelayedTasks, OverflowDelayed}
  /\ DelayedTasks # OverflowDelayed
  /\ Prio \subseteq StateContainer
  BY DEF NoList, DelayedTasks, OverflowDelayed, SuspendedTasks, TasksWaitingTermination, Corrupt,
     Prio, StateContainer

\* AddTaskToReadyList of a linked task keeps them exact: a task that leaves one ready
\* list for another leaves the list of its own priority.
LEMMA MakeReadyExact ==
  ASSUME ListType, ReadyListsExact, NEW u \in Task, StateList[u] \notin {NoList, Corrupt},
         MakeReady(u), UNCHANGED Priority
  PROVE  ReadyListsExact'
  BY DEF ListType, ReadyListsExact, MakeReady, Relinked

\* taskRESET_READY_PRIORITY looks at what the task left behind.
LEMMA ResetExact ==
  ASSUME ListType, ReadyListsExact, NEW u \in Task, NEW L \in StateContainer \ Prio,
         StateList' = [StateList EXCEPT ![u] = L], ResetReadyPriority(u), UNCHANGED Priority
  PROVE  ReadyListsExact'
  BY DEF ListType, ReadyListsExact, ResetReadyPriority, OnlyItem

\* The running task blocks: remove() tells whether its ready list is empty now.
LEMMA AddCurrentExact ==
  ASSUME ListType, ReadyListsExact, CurrentTCB \in Task, StateList[CurrentTCB] \in Prio,
         NEW n \in Nat, NEW b \in BOOLEAN, AddCurrentTaskToDelayedList(n, b), UNCHANGED Priority
  PROVE  ReadyListsExact'
<1>1. PICK L \in {SuspendedTasks, OverflowDelayed, DelayedTasks} :
        StateList' = [StateList EXCEPT ![CurrentTCB] = L]
  BY Apart DEF AddCurrentTaskToDelayedList, Relinked
<1>2. L \notin Prio
  BY <1>1, Apart
<1> QED
  BY <1>1, <1>2 DEF AddCurrentTaskToDelayedList, ListType, ReadyListsExact, OnlyItem

\* A tick makes the tasks that are due ready and takes them off the event list; the
\* other tasks stay where they are, but for the delayed lists' change of places.
LEMMA TickEffect ==
  ASSUME ListType, NEW switch \in BOOLEAN, IncrementTick(switch)
  PROVE  \E due \in SUBSET Task :
           /\ \A t \in due : /\ Delayed(t) /\ StateList'[t] = Priority[t]
                             /\ EventList'[t] = EnsureRemoved(EventList[t])
           /\ \A t \in Task \ due : /\ EventList'[t] = EventList[t]
                                    /\ \/ StateList'[t] = StateList[t]
                                       \/ Delayed(t) /\ Delayed(t)'
           /\ TopReadyPriority' = TopReadyPriority \cup {Priority[t] : t \in due}
           /\ YieldPending \/ (\E t \in due : Preempts(t)) => switch
           /\ UNCHANGED Priority
<1> DEFINE tick == (TickCount + 1) % TickMod
           list == IF tick = 0 THEN SwitchDelayedLists(StateList) ELSE StateList
<1>1. PICK next \in Tick :
        LET due == IF tick < next THEN {}
                   ELSE {t \in Task : list[t] = DelayedTasks /\ WakesBy(t, tick)}
        IN  /\ StateList' = [t \in Task |-> IF t \in due THEN Priority[t] ELSE list[t]]
            /\ EventList' = [t \in Task |-> IF t \in due THEN EnsureRemoved(EventList[t])
                                            ELSE EventList[t]]
            /\ TopReadyPriority' = TopReadyPriority \cup {Priority[t] : t \in due}
            /\ YieldPending \/ (\E t \in due : Preempts(t)) => switch
  BY DEF IncrementTick
<1> DEFINE due == IF tick < next THEN {}
                  ELSE {t \in Task : list[t] = DelayedTasks /\ WakesBy(t, tick)}
<1>2. \A t \in Task : \/ list[t] = StateList[t]
                      \/ Delayed(t) /\ list[t] \in {DelayedTasks, OverflowDelayed}
  BY DEF SwitchDelayedLists, Delayed
<1>3. \A t \in due : t \in Task /\ Delayed(t)
  BY <1>2 DEF Delayed
<1> HIDE DEF list, due, tick
<1>4. /\ StateList' = [t \in Task |-> IF t \in due THEN Priority[t] ELSE list[t]]
      /\ EventList' = [t \in Task |-> IF t \in due THEN EnsureRemoved(EventList[t])
                                      ELSE EventList[t]]
      /\ TopReadyPriority' = TopReadyPriority \cup {Priority[t] : t \in due}
      /\ YieldPending \/ (\E t \in due : Preempts(t)) => switch
  BY <1>1 DEF due, list, tick
<1>5. UNCHANGED Priority
  BY DEF IncrementTick
<1>6. due \in SUBSET Task
  BY <1>3
<1> WITNESS due \in SUBSET Task
<1> QED
  BY <1>2, <1>3, <1>4, <1>5 DEF Delayed

\* So it keeps the ready lists exact.
LEMMA IncrementTickExact ==
  ASSUME ListType, ReadyListsExact, NEW switch \in BOOLEAN, IncrementTick(switch)
  PROVE  ReadyListsExact'
  BY TickEffect, Apart DEF ListType, ReadyListsExact, Delayed

\* A running task that has not blocked yet is in the ready list of its priority.
LEMMA RunnerIsReady ==
  ASSUME ListInv, NEW t \in Task, Runs(t),
         pc[t] \in (SuspendedSection \ {"resume"}) \cup {"run", "notified", "created"}
  PROVE  CurrentTCB = t /\ StateList[t] = Priority[t] /\ StateList[t] \in Prio
  BY DEF ListInv, Runs, RunnerReady, ReadyIn, ReadyListsExact

\* A live task is in a list while no AbortDelay has one in its hands.
LEMMA LiveLinked ==
  ASSUME ListInv, NEW u \in Live, ~SchedulerSuspended \/ pc[CurrentTCB] \notin AbortUnderWay
  PROVE  StateList[u] \notin {NoList, Corrupt}
<1>1. CurrentTCB \in Task
  BY DEF ListInv, TypeInv, TypeOK, SwitchType, Booted, Live
<1>2. pc[CurrentTCB] \notin AbortUnderWay
  BY <1>1 DEF ListInv, SectionInv, SuspendedSectionsExclusive, SuspendedSection, AbortUnderWay
<1> QED
  BY <1>2 DEF ListInv, NoTaskLost, NotCorrupt, Live

\* ResumeAll ends the section and makes the pending-ready tasks ready: each is in a list.
LEMMA ResumeEffect ==
  ASSUME ListInv, NEW t \in Task, ResumeAll(t)
  PROVE  /\ CurrentTCB = t /\ pc[t] = "resume"
         /\ ~SchedulerSuspended' /\ Goto(t, "replay")
         /\ UNCHANGED <<Priority, CurrentTCB, yieldReq, countVars, noticeVars>>
         /\ \A u \in PendingReady : /\ u \in Live /\ StateList[u] \notin {NoList, Corrupt}
                                    /\ StateList'[u] = Priority[u] /\ EventList'[u] = "none"
         /\ \A u \in Task \ PendingReady : /\ StateList'[u] = StateList[u]
                                           /\ EventList'[u] = EventList[u]
         /\ TopReadyPriority' = TopReadyPriority \cup {Priority[u] : u \in PendingReady}
         /\ YieldPending' = (YieldPending \/ \E u \in PendingReady : Preempts(u))
<1>1. CurrentTCB = t /\ pc[t] = "resume" /\ SchedulerSuspended
  BY DEF ResumeAll, At, Runs, ListInv, SectionInv, SuspendedSectionsExclusive, SuspendedSection
<1>2. \A u \in PendingReady : u \in Live /\ StateList[u] \notin {NoList, Corrupt}
  BY <1>1, LiveLinked DEF PendingReady, ListInv, WaitersLive, AbortUnderWay
<1>3. ~SchedulerSuspended'
  BY <1>1 DEF ResumeAll
<1> HIDE DEF PendingReady, Live
<1>4. /\ EventList' = [u \in Task |-> IF u \in PendingReady THEN "none" ELSE EventList[u]]
      /\ StateList' = [u \in Task |-> IF u \in PendingReady THEN Relinked(StateList[u], Priority[u])
                                      ELSE StateList[u]]
      /\ TopReadyPriority' = TopReadyPriority \cup {Priority[u] : u \in PendingReady}
      /\ YieldPending' = (YieldPending \/ \E u \in PendingReady : Preempts(u))
      /\ Goto(t, "replay")
  BY <1>3 DEF ResumeAll
<1>5. PendingReady \subseteq Task
  BY DEF PendingReady
<1> QED
  BY <1>1, <1>2, <1>3, <1>4, <1>5 DEF ResumeAll, Relinked

\* The steps inside the kernel keep the ready lists exact.
LEMMA KernelStepReady == ASSUME ListInv, NEW t \in Task, KernelStep(t) PROVE ReadyListsExact'
<1> USE DEF ListInv, TypeInv, TypeOK, At
<1>1. CASE DelayEnlist(t) \/ NotifyEnlist(t)
  BY <1>1, RunnerIsReady, AddCurrentExact DEF DelayEnlist, NotifyEnlist, SuspendedSection, CallType
<1>2. CASE DelayUntilEnlist(t)
  <2>1. \/ AddCurrentTaskToDelayedList((arg[t] - TickCount) % TickMod, FALSE)
        \/ UNCHANGED <<StateList, TopReadyPriority>>
    BY <1>2 DEF DelayUntilEnlist
  <2>2. (arg[t] - TickCount) % TickMod \in Nat
    BY ModTick, SchedulerAssumption DEF TimeType, Tick, CallType
  <2> QED
    BY <1>2, <2>1, <2>2, RunnerIsReady, AddCurrentExact DEF DelayUntilEnlist, SuspendedSection,
       ReadyListsExact
<1>3. CASE PlaceOnEventList(t)
  BY <1>3, RunnerIsReady, AddCurrentExact DEF PlaceOnEventList, SuspendedSection, CallType, listVars,
     ReadyListsExact
<1>4. CASE NotifyTest(t) \/ NotifyReturn(t) \/ ResumeAllReturn(t) \/ YieldWithinApi(t)
           \/ UnlockScheduler(t) \/ CatchUpPend(t) \/ AbortGetState(t) \/ AbortTestEvent(t)
           \/ AbortTestNotify(t) \/ AbortEvent(t) \/ TaskSuspendFinish(t) \/ TaskCreateFinish(t)
  BY <1>4 DEF NotifyTest, NotifyReturn, ResumeAllReturn, YieldWithinApi, UnlockScheduler,
     CatchUpPend, AbortGetState, AbortTestEvent, AbortTestNotify, AbortEvent, TaskSuspendFinish,
     TaskCreateFinish, listVars, prioVars, ReadyListsExact
<1>5. CASE ResumeAll(t)
  BY <1>5, ResumeEffect, Apart DEF ReadyListsExact, ListType, PendingReady
<1>6. CASE ReplayTick(t)
  BY <1>6, IncrementTickExact DEF ReplayTick
<1>7. CASE AbortRemove(t)
  BY <1>7, Apart DEF AbortRemove, AbortHolds, Blocked, Unlinked, ReadyListsExact, prioVars, ListType
<1>8. CASE AbortReady(t)
  BY <1>8, Apart DEF AbortReady, AbortHolds, AbortUnderWay, AbortSteps, Live, Appended,
     ReadyListsExact, ListType
<1> QED
  BY <1>1, <1>2, <1>3, <1>4, <1>5, <1>6, <1>7, <1>8 DEF KernelStep

\* A task created joins the list of its priority.
LEMMA AddNewTaskReady ==
  ASSUME ListInv, NEW u \in Task, NEW caller, NEW next, AddNewTaskToReadyList(u, caller, next)
  PROVE  ReadyListsExact'
<1>1. StateList[u] = NoList
  BY DEF ListInv, NoTaskLost, AddNewTaskToReadyList
<1> QED
  BY <1>1, Apart, SchedulerAssumption DEF ListInv, TypeInv, TypeOK, ListType, ReadyListsExact,
     AddNewTaskToReadyList

\* A waiter that leaves the event list is in a list to leave, unless an AbortDelay has it
\* in its hands: then the scheduler is suspended.
LEMMA RemoveFromEventListReady ==
  ASSUME ListInv, NEW u \in Task, RemoveFromEventList(u), UNCHANGED Priority
  PROVE  ReadyListsExact'
  BY LiveLinked, MakeReadyExact DEF ListInv, TypeInv, TypeOK, RemoveFromEventList, WaitersLive,
     ReadyListsExact

\* So is a task that an ISR wakes.
LEMMA WakeFromISRReady ==
  ASSUME ListInv, NEW u \in Live, WakeFromISR(u), UNCHANGED Priority PROVE ReadyListsExact'
  BY LiveLinked, MakeReadyExact DEF ListInv, TypeInv, TypeOK, WakeFromISR, Live, ReadyListsExact

\* So do the first steps of the calls.
LEMMA ApiCallReady == ASSUME ListInv, NEW t \in Task, ApiCall(t) PROVE ReadyListsExact'
<1> USE DEF ListInv, TypeInv, TypeOK, CallsApi, CallsApiLocked, At
<1>0. Runs(t) /\ pc[t] \in {"run", "locked"} => \A u \in Live : StateList[u] \notin {NoList, Corrupt}
  BY LiveLinked DEF Runs, AbortUnderWay
<1>1. CASE Delay(t) \/ DelayUntil(t) \/ WaitEvent(t) \/ NotifyTake(t) \/ NotifyWait(t)
             \/ LockScheduler(t) \/ CatchUpTicks(t) \/ AbortDelay(t)
  BY <1>1 DEF Delay, DelayUntil, WaitEvent, NotifyTake, NotifyWait, LockScheduler, CatchUpTicks,
     AbortDelay, SuspendAllFor, listVars, prioVars, ReadyListsExact
<1>2. CASE TaskDeleteSelf(t)
  <2>1. StateList' = [StateList EXCEPT ![t] = TasksWaitingTermination]
    BY <1>2, RunnerIsReady, Apart DEF TaskDeleteSelf, Relinked
  <2> QED
    BY <1>2, <2>1, ResetExact, Apart DEF TaskDeleteSelf
<1>3. CASE SignalEvent(t)
  BY <1>3, RemoveFromEventListReady DEF SignalEvent
<1>4. ASSUME NEW u \in Task, TaskSuspend(t, u) PROVE ReadyListsExact'
  <2>1. StateList' = [StateList EXCEPT ![u] = SuspendedTasks]
    BY <1>0, <1>4 DEF TaskSuspend, Relinked
  <2> QED
    BY <1>4, <2>1, ResetExact, Apart DEF TaskSuspend
<1>5. ASSUME NEW u \in Task, TaskResume(t, u) PROVE ReadyListsExact'
  BY <1>0, <1>5, MakeReadyExact DEF TaskResume
<1>6. ASSUME NEW u \in Task, TaskDelete(t, u) PROVE ReadyListsExact'
  <2>1. StateList' = [StateList EXCEPT ![u] = NoList]
    BY <1>0, <1>6 DEF TaskDelete, Unlinked
  <2> QED
    BY <1>6, <2>1, ResetExact, Apart DEF TaskDelete
<1>7. ASSUME NEW u \in Task, TaskCreate(t, u) PROVE ReadyListsExact'
  BY <1>7, AddNewTaskReady DEF TaskCreate
<1>8. ASSUME NEW u \in Task, NotifyStateClear(t, u) PROVE ReadyListsExact'
  BY <1>8 DEF NotifyStateClear, listVars, prioVars, ReadyListsExact
<1>9. ASSUME NEW u \in Task, NEW p \in Prio, TaskPrioritySet(t, u, p) PROVE ReadyListsExact'
  BY <1>9, Apart DEF TaskPrioritySet, ReadyListsExact, ListType, OnlyItem
<1>10. ASSUME NEW u \in Task, NEW a \in NotifyAction, NEW v \in ValuesFor(a),
              GenericNotify(t, u, a, v)
       PROVE  ReadyListsExact'
  BY <1>0, <1>10, MakeReadyExact DEF GenericNotify, ReadyListsExact
<1> QED
  BY <1>1, <1>2, <1>3, <1>4, <1>5, <1>6, <1>7, <1>8, <1>9, <1>10 DEF ApiCall

\* So do start-up, the interrupts and the idle task.
LEMMA OutsideTasksReady ==
  ASSUME ListInv, Start \/ Interrupt \/ IdleCleanUp \/ IdleYield PROVE ReadyListsExact'
<1> USE DEF ListInv, TypeInv, TypeOK
<1>1. CASE Start
  BY <1>1, AddNewTaskReady, SchedulerAssumption DEF Start, TaskStartScheduler, TaskCreateBeforeStart
<1>2. CASE TickISR
  BY <1>2, IncrementTickExact DEF TickISR, listVars, prioVars, ReadyListsExact
<1>3. CASE SignalFromISR
  BY <1>3, RemoveFromEventListReady DEF SignalFromISR
<1>4. CASE SwitchContext \/ IdleYield
  BY <1>4 DEF SwitchContext, IdleYield, listVars, prioVars, ReadyListsExact
<1>5. ASSUME NEW u \in Task, TaskResumeFromISR(u) PROVE ReadyListsExact'
  BY <1>5, WakeFromISRReady DEF TaskResumeFromISR
<1>6. ASSUME NEW u \in Task, NEW a \in NotifyAction, NEW v \in ValuesFor(a), NotifyFromISR(u, a, v)
      PROVE  ReadyListsExact'
  BY <1>6, WakeFromISRReady DEF NotifyFromISR, listVars, ReadyListsExact
<1>7. CASE IdleCleanUp
  BY <1>7, Apart DEF IdleCleanUp, Unlinked, prioVars, ListType, ReadyListsExact
<1> QED
  BY <1>1, <1>2, <1>3, <1>4, <1>5, <1>6, <1>7 DEF Interrupt

-----------------------------------------------------------------------------
(* The links: no item is appended twice or removed twice. *)

\* The list operations on an item that is where its caller takes it to be.
LEMMA Links ==
  /\ \A c, L \in StateContainer : c \notin {NoList, Corrupt} => Relinked(c, L) = L
  /\ \A c \in StateContainer \ {NoList, Corrupt} : Unlinked(c) = NoList
  /\ \A L \in StateContainer : Appended(NoList, L) = L
  /\ \A L \in EventContainer : EventAppended("none", L) = L
  /\ \A L \in {"waiting", "PendingReady"} : EventUnlinked(L) = "none"
  /\ \A c \in EventContainer \ {"corrupt"} : EnsureRemoved(c) = "none"
  BY DEF Relinked, Unlinked, Appended, EventAppended, EventUnlinked, EnsureRemoved, EventContainer

\* The item of a running task that blocks moves from its ready list to a list of sleepers.
LEMMA BlockEffect ==
  ASSUME ListInv, CurrentTCB \in Task, StateList[CurrentTCB] \in Prio, NEW n, NEW b \in BOOLEAN,
         AddCurrentTaskToDelayedList(n, b)
  PROVE  /\ \E L \in {DelayedTasks, OverflowDelayed, SuspendedTasks} :
              StateList' = [StateList EXCEPT ![CurrentTCB] = L]
         /\ TopReadyPriority' \subseteq TopReadyPriority
  BY Apart DEF AddCurrentTaskToDelayedList, Relinked

\* DelayUntil blocks the task or lets it go on.
LEMMA DelayUntilEffect ==
  ASSUME ListInv, NEW t \in Task, DelayUntilEnlist(t)
  PROVE  /\ \/ UNCHANGED <<StateList, TopReadyPriority>>
            \/ \E n \in Nat : AddCurrentTaskToDelayedList(n, FALSE)
         /\ StateList[t] \in Prio /\ CurrentTCB = t /\ pc[t] = "until"
<1>1. \/ AddCurrentTaskToDelayedList((arg[t] - TickCount) % TickMod, FALSE)
      \/ UNCHANGED <<StateList, TopReadyPriority>>
  BY DEF DelayUntilEnlist
<1>2. (arg[t] - TickCount) % TickMod \in Nat
  BY ModTick, SchedulerAssumption DEF TimeType, Tick, CallType, ListInv, TypeInv, TypeOK
<1>3. StateList[t] \in Prio /\ CurrentTCB = t /\ pc[t] = "until"
  BY RunnerIsReady DEF DelayUntilEnlist, At, SuspendedSection
<1> QED
  BY <1>1, <1>2, <1>3

\* A waiter taken off the event list is alive; it pends, or it is ready.
LEMMA RemoveEffect ==
  ASSUME ListInv, NEW u \in Task, RemoveFromEventList(u)
  PROVE  /\ u \in Live /\ EventList[u] = "waiting"
         /\ YieldPending' = (YieldPending \/ Preempts(u))
         /\ \/ /\ SchedulerSuspended
               /\ EventList' = [EventList EXCEPT ![u] = "PendingReady"]
               /\ UNCHANGED <<StateList, TopReadyPriority>>
            \/ /\ ~SchedulerSuspended
               /\ EventList' = [EventList EXCEPT ![u] = "none"]
               /\ StateList' = [StateList EXCEPT ![u] = Priority[u]]
               /\ TopReadyPriority' = TopReadyPriority \cup {Priority[u]}
<1>1. u \in Live
  BY DEF ListInv, WaitersLive, RemoveFromEventList
<1>2. ~SchedulerSuspended => StateList[u] \notin {NoList, Corrupt}
  BY <1>1, LiveLinked
<1> QED
  BY <1>1, <1>2, Links DEF RemoveFromEventList, MakeReady, Relinked, EventContainer

\* A task an ISR wakes waits for a notification, or is suspended and waits for nothing.
LEMMA WakeEffect ==
  ASSUME ListInv, NEW u \in Live, Waiting(u) \/ Suspended(u), WakeFromISR(u)
  PROVE  /\ EventList[u] = "none"
         /\ \/ /\ SchedulerSuspended
               /\ EventList' = [EventList EXCEPT ![u] = "PendingReady"]
               /\ UNCHANGED <<StateList, TopReadyPriority>>
            \/ /\ ~SchedulerSuspended
               /\ UNCHANGED EventList
               /\ StateList' = [StateList EXCEPT ![u] = Priority[u]]
               /\ TopReadyPriority' = TopReadyPriority \cup {Priority[u]}
<1>1. u \in Task /\ EventList[u] = "none"
  BY DEF ListInv, NoticeInCall, Suspended, Live
<1>2. ~SchedulerSuspended => StateList[u] \notin {NoList, Corrupt}
  BY LiveLinked
<1> QED
  BY <1>1, <1>2, Links DEF WakeFromISR, MakeReady, Relinked, EventContainer

\* A task created is in the list of its priority and waits for nothing.
LEMMA CreateEffect ==
  ASSUME ListInv, NEW u \in Task, NEW caller, NEW next, AddNewTaskToReadyList(u, caller, next)
  PROVE  /\ pc[u] = "uncreated" /\ StateList[u] = NoList /\ CreatePriority[u] \in Prio
         /\ Priority' = [Priority EXCEPT ![u] = CreatePriority[u]]
         /\ StateList' = [StateList EXCEPT ![u] = CreatePriority[u]]
         /\ EventList' = [EventList EXCEPT ![u] = "none"]
         /\ NotifyState' = [NotifyState EXCEPT ![u] = "notWaiting"]
         /\ pc' = [t \in Task |-> IF t = u THEN "run" ELSE IF t = caller THEN next ELSE pc[t]]
         /\ CurrentTCB' \in {CurrentTCB, u}
         /\ SchedulerRunning => CurrentTCB' = CurrentTCB
         /\ CurrentTCB = NULL => CurrentTCB' = u
  BY SchedulerAssumption DEF AddNewTaskToReadyList, ListInv, NoTaskLost, Booted

\* The steps inside the kernel keep the links.
LEMMA KernelStepLinks == ASSUME ListInv, NEW t \in Task, KernelStep(t) PROVE NotCorrupt'
<1> USE DEF ListInv, TypeInv, TypeOK, At, NotCorrupt, ListType
<1>1. CASE DelayEnlist(t) \/ NotifyEnlist(t)
  BY <1>1, RunnerIsReady, BlockEffect, Apart DEF DelayEnlist, NotifyEnlist, SuspendedSection
<1>2. CASE DelayUntilEnlist(t)
  BY <1>2, DelayUntilEffect, BlockEffect, Apart DEF DelayUntilEnlist
<1>3. CASE PlaceOnEventList(t)
  <2>1. EventList[t] = "none" /\ StateList[t] \in Prio /\ CurrentTCB = t
    BY <1>3, RunnerIsReady DEF PlaceOnEventList, NoticeInCall, SuspendedSection
  <2> QED
    BY <1>3, <2>1, BlockEffect, Apart DEF PlaceOnEventList, listVars, EventAppended
<1>4. CASE NotifyTest(t) \/ NotifyReturn(t) \/ ResumeAllReturn(t) \/ YieldWithinApi(t)
           \/ UnlockScheduler(t) \/ CatchUpPend(t) \/ AbortGetState(t) \/ AbortTestEvent(t)
           \/ AbortTestNotify(t) \/ TaskSuspendFinish(t) \/ TaskCreateFinish(t)
  BY <1>4 DEF NotifyTest, NotifyReturn, ResumeAllReturn, YieldWithinApi, UnlockScheduler,
     CatchUpPend, AbortGetState, AbortTestEvent, AbortTestNotify, TaskSuspendFinish,
     TaskCreateFinish, listVars
<1>5. CASE ResumeAll(t)
  BY <1>5, ResumeEffect, Apart
<1>6. CASE ReplayTick(t)
  BY <1>6, TickEffect, Apart DEF ReplayTick, Delayed, EnsureRemoved
<1>7. CASE AbortRemove(t)
  BY <1>7, Apart DEF AbortRemove, AbortHolds, Blocked, Unlinked
<1>8. CASE AbortEvent(t)
  BY <1>8, Apart DEF AbortEvent, EventUnlinked
<1>9. CASE AbortReady(t)
  BY <1>9, Apart DEF AbortReady, AbortHolds, AbortUnderWay, AbortSteps, Live, Appended
<1> QED
  BY <1>1, <1>2, <1>3, <1>4, <1>5, <1>6, <1>7, <1>8, <1>9 DEF KernelStep

\* So do the first steps of the calls.
LEMMA ApiCallLinks == ASSUME ListInv, NEW t \in Task, ApiCall(t) PROVE NotCorrupt'
<1> USE DEF ListInv, TypeInv, TypeOK, CallsApi, CallsApiLocked, At, NotCorrupt, ListType
<1>0. Runs(t) /\ pc[t] \in {"run", "locked"} => \A u \in Live : StateList[u] \notin {NoList, Corrupt}
  BY LiveLinked DEF Runs, AbortUnderWay
<1>1. CASE Delay(t) \/ DelayUntil(t) \/ WaitEvent(t) \/ NotifyTake(t) \/ NotifyWait(t)
             \/ LockScheduler(t) \/ CatchUpTicks(t) \/ AbortDelay(t)
  BY <1>1 DEF Delay, DelayUntil, WaitEvent, NotifyTake, NotifyWait, LockScheduler, CatchUpTicks,
     AbortDelay, SuspendAllFor, listVars
<1>2. CASE TaskDeleteSelf(t)
  BY <1>2, RunnerIsReady, Apart DEF TaskDeleteSelf, Relinked, EnsureRemoved
<1>3. CASE SignalEvent(t)
  BY <1>3, RemoveEffect, Apart DEF SignalEvent
<1>4. ASSUME NEW u \in Task, TaskSuspend(t, u) PROVE NotCorrupt'
  BY <1>0, <1>4, Apart DEF TaskSuspend, Relinked, EnsureRemoved
<1>5. ASSUME NEW u \in Task, TaskResume(t, u) PROVE NotCorrupt'
  BY <1>0, <1>5, Apart DEF TaskResume, MakeReady, Relinked
<1>6. ASSUME NEW u \in Task, TaskDelete(t, u) PROVE NotCorrupt'
  BY <1>0, <1>6, Apart DEF TaskDelete, Unlinked, EnsureRemoved
<1>7. ASSUME NEW u \in Task, TaskCreate(t, u) PROVE NotCorrupt'
  BY <1>7, CreateEffect, Apart DEF TaskCreate
<1>8. ASSUME NEW u \in Task, NotifyStateClear(t, u) PROVE NotCorrupt'
  BY <1>8 DEF NotifyStateClear, listVars
<1>9. ASSUME NEW u \in Task, NEW p \in Prio, TaskPrioritySet(t, u, p) PROVE NotCorrupt'
  BY <1>9, Apart DEF TaskPrioritySet
<1>10. ASSUME NEW u \in Task, NEW a \in NotifyAction, NEW v \in ValuesFor(a),
              GenericNotify(t, u, a, v)
       PROVE  NotCorrupt'
  BY <1>0, <1>10, Apart DEF GenericNotify, MakeReady, Relinked
<1> QED
  BY <1>1, <1>2, <1>3, <1>4, <1>5, <1>6, <1>7, <1>8, <1>9, <1>10 DEF ApiCall

\* So do start-up, the interrupts and the idle task.
LEMMA OutsideTasksLinks ==
  ASSUME ListInv, Start \/ Interrupt \/ IdleCleanUp \/ IdleYield PROVE NotCorrupt'
<1> USE DEF ListInv, TypeInv, TypeOK, NotCorrupt, ListType
<1>1. CASE Start
  BY <1>1, CreateEffect, Apart, SchedulerAssumption DEF Start, TaskStartScheduler,
     TaskCreateBeforeStart
<1>2. CASE TickISR
  BY <1>2, TickEffect, Apart DEF TickISR, listVars, prioVars, Delayed, EnsureRemoved
<1>3. CASE SignalFromISR
  BY <1>3, RemoveEffect, Apart DEF SignalFromISR
<1>4. CASE SwitchContext \/ IdleYield
  BY <1>4 DEF SwitchContext, IdleYield, listVars
<1>5. ASSUME NEW u \in Task, TaskResumeFromISR(u) PROVE NotCorrupt'
  BY <1>5, WakeEffect, Apart DEF TaskResumeFromISR
<1>6. ASSUME NEW u \in Task, NEW a \in NotifyAction, NEW v \in ValuesFor(a), NotifyFromISR(u, a, v)
      PROVE  NotCorrupt'
  BY <1>6, WakeEffect, Apart DEF NotifyFromISR, listVars, Waiting
<1>7. CASE IdleCleanUp
  BY <1>7, Apart DEF IdleCleanUp, Unlinked
<1> QED
  BY <1>1, <1>2, <1>3, <1>4, <1>5, <1>6, <1>7 DEF Interrupt

-----------------------------------------------------------------------------
(* No task is lost. *)

\* The steps inside the kernel lose no task.
LEMMA KernelStepLost == ASSUME ListInv, NEW t \in Task, KernelStep(t) PROVE NoTaskLost'
<1> USE DEF ListInv, TypeInv, TypeOK, At, Runs, NoTaskLost, ListType, CallType, Live, AbortUnderWay
<1>1. CASE DelayEnlist(t) \/ NotifyEnlist(t)
  <2>1. StateList[t] \in Prio /\ CurrentTCB = t
    BY <1>1, RunnerIsReady DEF DelayEnlist, NotifyEnlist, SuspendedSection
  <2>2. \E L \in {DelayedTasks, OverflowDelayed, SuspendedTasks} :
           StateList' = [StateList EXCEPT ![t] = L]
    BY <1>1, <2>1, BlockEffect DEF DelayEnlist, NotifyEnlist
  <2> QED
    BY <1>1, <2>1, <2>2, Apart DEF DelayEnlist, NotifyEnlist
<1>2. CASE DelayUntilEnlist(t)
  BY <1>2, DelayUntilEffect, BlockEffect, Apart DEF DelayUntilEnlist
<1>3. CASE PlaceOnEventList(t)
  <2>1. EventList[t] = "none" /\ StateList[t] \in Prio /\ CurrentTCB = t
    BY <1>3, RunnerIsReady DEF PlaceOnEventList, NoticeInCall, SuspendedSection
  <2>2. CASE DelayAborted[t]
    BY <1>3, <2>1, <2>2, Apart DEF PlaceOnEventList, listVars
  <2>3. CASE ~DelayAborted[t]
    <3>1. /\ EventList' = [EventList EXCEPT ![t] = EventAppended(@, "waiting")]
          /\ AddCurrentTaskToDelayedList(arg[t], TRUE)
          /\ pc[t] = "event" /\ pc' = [pc EXCEPT ![t] = "resume"] /\ UNCHANGED <<CurrentTCB, target>>
      BY <1>3, <2>3 DEF PlaceOnEventList, switchVars
    <3>2. \E L \in {DelayedTasks, OverflowDelayed, SuspendedTasks} :
             StateList' = [StateList EXCEPT ![t] = L]
      BY <2>1, <3>1, BlockEffect
    <3> QED
      BY <2>1, <3>1, <3>2, Apart DEF EventAppended
  <2> QED
    BY <2>2, <2>3
<1>4. CASE NotifyTest(t) \/ NotifyReturn(t)
           \/ UnlockScheduler(t) \/ CatchUpPend(t) \/ AbortGetState(t) \/ AbortTestEvent(t)
           \/ AbortTestNotify(t) \/ TaskSuspendFinish(t) \/ TaskCreateFinish(t)
  BY <1>4 DEF NotifyTest, NotifyReturn, UnlockScheduler,
     CatchUpPend, AbortGetState, AbortTestEvent, AbortTestNotify, TaskSuspendFinish,
     TaskCreateFinish, listVars, Goto, Leave, switchVars
<1>5. CASE ResumeAllReturn(t) \/ YieldWithinApi(t)
  BY <1>5 DEF ResumeAllReturn, YieldWithinApi, listVars, Goto, Leave, Continue
<1>6. CASE ResumeAll(t)
  BY <1>6, ResumeEffect, Apart DEF Goto
<1>7. CASE ReplayTick(t)
  BY <1>7, TickEffect, Apart DEF ReplayTick, Delayed, EnsureRemoved, callVars
<1>8. CASE AbortRemove(t)
  BY <1>8, Apart DEF AbortRemove, AbortHolds, AbortSteps, Blocked, Unlinked, Goto, switchVars
<1>9. CASE AbortEvent(t)
  BY <1>9, Apart DEF AbortEvent, EventUnlinked, AbortHolds, AbortSteps, Goto, switchVars
<1>10. CASE AbortReady(t)
  BY <1>10, Apart DEF AbortReady, AbortHolds, AbortSteps, Appended, Goto
<1> QED
  BY <1>1, <1>2, <1>3, <1>4, <1>5, <1>6, <1>7, <1>8, <1>9, <1>10 DEF KernelStep

\* So do the first steps of the calls.
LEMMA ApiCallLost == ASSUME ListInv, NEW t \in Task, ApiCall(t) PROVE NoTaskLost'
<1> USE DEF ListInv, TypeInv, TypeOK, CallsApi, CallsApiLocked, At, Runs, NoTaskLost, ListType,
            CallType, Live, AbortUnderWay
<1>1. CASE Delay(t) \/ DelayUntil(t) \/ WaitEvent(t) \/ NotifyTake(t) \/ NotifyWait(t)
             \/ LockScheduler(t) \/ CatchUpTicks(t) \/ AbortDelay(t)
  BY <1>1 DEF Delay, DelayUntil, WaitEvent, NotifyTake, NotifyWait, LockScheduler, CatchUpTicks,
     AbortDelay, SuspendAllFor, Begin, listVars
<1>2. CASE TaskDeleteSelf(t)
  BY <1>2, RunnerIsReady, Apart DEF TaskDeleteSelf, Relinked, EnsureRemoved, Leave
<1>3. CASE SignalEvent(t)
  BY <1>3, RemoveEffect, Apart DEF SignalEvent, callVars
<1>4. ASSUME NEW u \in Task, TaskSuspend(t, u) PROVE NoTaskLost'
  BY <1>4, Apart DEF TaskSuspend, Relinked, EnsureRemoved, NotCorrupt, switchVars
<1>5. ASSUME NEW u \in Task, TaskResume(t, u) PROVE NoTaskLost'
  BY <1>5, Apart DEF TaskResume, MakeReady, Relinked, NotCorrupt, callVars
<1>6. ASSUME NEW u \in Task, TaskDelete(t, u) PROVE NoTaskLost'
  BY <1>6, Apart DEF TaskDelete, Unlinked, EnsureRemoved, NotCorrupt, Leave, switchVars
<1>7. ASSUME NEW u \in Task, TaskCreate(t, u) PROVE NoTaskLost'
  BY <1>7, CreateEffect, Apart DEF TaskCreate
<1>8. ASSUME NEW u \in Task, NotifyStateClear(t, u) PROVE NoTaskLost'
  BY <1>8 DEF NotifyStateClear, listVars, callVars, switchVars
<1>9. ASSUME NEW u \in Task, NEW p \in Prio, TaskPrioritySet(t, u, p) PROVE NoTaskLost'
  BY <1>9, Apart DEF TaskPrioritySet, callVars
<1>10. ASSUME NEW u \in Task, NEW a \in NotifyAction, NEW v \in ValuesFor(a),
              GenericNotify(t, u, a, v)
       PROVE  NoTaskLost'
  BY <1>10, Apart DEF GenericNotify, MakeReady, Relinked, NotCorrupt, callVars
<1> QED
  BY <1>1, <1>2, <1>3, <1>4, <1>5, <1>6, <1>7, <1>8, <1>9, <1>10 DEF ApiCall

\* So do start-up, the interrupts and the idle task.
LEMMA OutsideTasksLost ==
  ASSUME ListInv, Start \/ Interrupt \/ IdleCleanUp \/ IdleYield PROVE NoTaskLost'
<1> USE DEF ListInv, TypeInv, TypeOK, NoTaskLost, ListType, CallType, Live, AbortUnderWay
<1>1. CASE Start
  <2>1. ~SchedulerRunning /\ \A u \in Task : pc[u] \in {"uncreated", "run"}
    BY <1>1 DEF Start, TaskStartScheduler, TaskCreateBeforeStart, SectionInv, QuietBeforeStart
  <2>2. \A u \in Task : pc[u] = "run" => StateList[u] \in Prio
    BY <2>1, SchedulerAssumption DEF Booted, SwitchType
  <2> QED
    BY <1>1, <2>1, <2>2, CreateEffect, Apart, SchedulerAssumption DEF Start, TaskStartScheduler,
       TaskCreateBeforeStart
<1>2. CASE TickISR
  BY <1>2, TickEffect, Apart DEF TickISR, listVars, prioVars, Delayed, EnsureRemoved, callVars
<1>3. CASE SignalFromISR
  BY <1>3, RemoveEffect, Apart DEF SignalFromISR, callVars
<1>4. CASE SwitchContext
  BY <1>4 DEF SwitchContext, listVars, callVars, SectionInv, SuspendedSectionsExclusive,
     SuspendedSection, InterruptsEnabled, SwitchType
<1>5. CASE IdleYield
  BY <1>5 DEF IdleYield, listVars, callVars
<1>6. ASSUME NEW u \in Task, TaskResumeFromISR(u) PROVE NoTaskLost'
  BY <1>6, WakeEffect, Apart DEF TaskResumeFromISR, callVars
<1>7. ASSUME NEW u \in Task, NEW a \in NotifyAction, NEW v \in ValuesFor(a), NotifyFromISR(u, a, v)
      PROVE  NoTaskLost'
  BY <1>7, WakeEffect, Apart DEF NotifyFromISR, listVars, Waiting, callVars
<1>8. CASE IdleCleanUp
  BY <1>8, Apart, SchedulerAssumption DEF IdleCleanUp, Unlinked, Leave, switchVars, At, Runs, WaitersLive
<1> QED
  BY <1>1, <1>2, <1>3, <1>4, <1>5, <1>6, <1>7, <1>8 DEF Interrupt

-----------------------------------------------------------------------------
(* The running task. *)

\* The context switch gives the processor to a ready task: the bit map is not empty when it
\* is taken, and the list it names is not empty.
LEMMA SelectEffect ==
  ASSUME ListInv, SelectHighestPriorityTask
  PROVE  /\ CurrentTCB' \in Task /\ pc[CurrentTCB'] \notin {"uncreated", "dead"}
         /\ StateList[CurrentTCB'] \in Prio
         /\ \A t \in Task : StateList[t] \in Prio => StateList[t] <= Priority[CurrentTCB']
<1>1. PICK p \in TopReadyPriority :
        /\ \A q \in TopReadyPriority : q <= p
        /\ LET ready == {t \in Task : StateList[t] = p}
           IN  CurrentTCB' \in IF ready = {} THEN {NULL} ELSE ready
  BY DEF SelectHighestPriorityTask
<1>2. p \in Prio /\ \E t \in Task : StateList[t] = p
  BY DEF ListInv, TypeInv, TypeOK, ListType, ReadyListsExact
<1>3. CurrentTCB' \in Task /\ StateList[CurrentTCB'] = p
  BY <1>1, <1>2
<1>4. Priority[CurrentTCB'] = p
  BY <1>2, <1>3 DEF ListInv, ReadyListsExact
<1>5. \A t \in Task : StateList[t] \in Prio => StateList[t] \in TopReadyPriority
  BY DEF ListInv, ReadyListsExact
<1>6. pc[CurrentTCB'] \notin {"uncreated", "dead"}
  BY <1>2, <1>3, Apart DEF ListInv, NoTaskLost
<1> QED
  BY <1>1, <1>2, <1>3, <1>4, <1>5, <1>6

\* A step inside the kernel is one of the running task, which goes on running and alone moves.
LEMMA KernelFrame ==
  ASSUME ListInv, NEW t \in Task, KernelStep(t)
  PROVE  /\ Runs(t) /\ CurrentTCB = t /\ UNCHANGED <<CurrentTCB, SchedulerRunning>>
         /\ pc'[t] \notin {"uncreated", "dead"}
         /\ \A u \in Task \ {t} : /\ pc'[u] = pc[u] /\ op'[u] = op[u] /\ target'[u] = target[u]
                                  /\ ShouldBlock'[u] = ShouldBlock[u]
<1> USE DEF ListInv, TypeInv, TypeOK, CallType, At, Runs
<1>1. CASE DelayEnlist(t) \/ DelayUntilEnlist(t) \/ PlaceOnEventList(t) \/ NotifyEnlist(t)
  BY <1>1 DEF DelayEnlist, DelayUntilEnlist, PlaceOnEventList, NotifyEnlist, switchVars, countVars
<1>2. CASE NotifyTest(t)
  BY <1>2 DEF NotifyTest, switchVars, countVars
<1>3. CASE NotifyReturn(t) \/ TaskSuspendFinish(t) \/ TaskCreateFinish(t)
  BY <1>3 DEF NotifyReturn, TaskSuspendFinish, TaskCreateFinish, Leave, switchVars, countVars
<1>4. CASE ResumeAll(t)
  BY <1>4, ResumeEffect DEF Goto, countVars, ResumeAll
<1>5. CASE ReplayTick(t)
  BY <1>5 DEF ReplayTick, callVars, countVars
<1>6. CASE ResumeAllReturn(t) \/ YieldWithinApi(t)
  BY <1>6 DEF ResumeAllReturn, YieldWithinApi, Goto, Leave, Continue, countVars
<1>7. CASE UnlockScheduler(t) \/ CatchUpPend(t) \/ AbortGetState(t) \/ AbortTestEvent(t)
           \/ AbortTestNotify(t)
  BY <1>7 DEF UnlockScheduler, CatchUpPend, AbortGetState, AbortTestEvent, AbortTestNotify, Goto,
     switchVars, countVars
<1>8. CASE AbortRemove(t) \/ AbortEvent(t) \/ AbortReady(t)
  BY <1>8 DEF AbortRemove, AbortEvent, AbortReady, Goto, switchVars, countVars
<1> QED
  BY <1>1, <1>2, <1>3, <1>4, <1>5, <1>6, <1>7, <1>8 DEF KernelStep

\* So is the first step of a call, which may create or delete another task.
LEMMA ApiFrame ==
  ASSUME ListInv, NEW t \in Task, ApiCall(t)
  PROVE  /\ Runs(t) /\ CurrentTCB = t /\ UNCHANGED <<CurrentTCB, SchedulerRunning>>
         /\ pc[t] \in {"run", "locked"} /\ pc'[t] # "uncreated"
<1> USE DEF ListInv, TypeInv, TypeOK, CallType, CallsApi, CallsApiLocked, At, Runs
<1>1. CASE Delay(t) \/ DelayUntil(t) \/ WaitEvent(t) \/ NotifyTake(t) \/ NotifyWait(t)
             \/ LockScheduler(t) \/ CatchUpTicks(t) \/ AbortDelay(t)
  BY <1>1 DEF Delay, DelayUntil, WaitEvent, NotifyTake, NotifyWait, LockScheduler, CatchUpTicks,
     AbortDelay, SuspendAllFor, Begin, countVars
<1>2. CASE TaskDeleteSelf(t)
  BY <1>2 DEF TaskDeleteSelf, Leave
<1>3. CASE SignalEvent(t)
  BY <1>3 DEF SignalEvent, countVars, callVars
<1>4. ASSUME NEW u \in Task,
             TaskSuspend(t, u) \/ TaskResume(t, u) \/ TaskDelete(t, u) \/ NotifyStateClear(t, u)
      PROVE  UNCHANGED <<CurrentTCB, SchedulerRunning>> /\ Runs(t) /\ pc[t] \in {"run", "locked"}
             /\ pc'[t] # "uncreated"
  BY <1>4 DEF TaskSuspend, TaskResume, TaskDelete, NotifyStateClear, Leave, switchVars, countVars,
     callVars
<1>5. ASSUME NEW u \in Task, TaskCreate(t, u)
      PROVE  UNCHANGED <<CurrentTCB, SchedulerRunning>> /\ Runs(t) /\ pc[t] \in {"run", "locked"}
             /\ pc'[t] # "uncreated"
  BY <1>5, CreateEffect DEF TaskCreate
<1>6. ASSUME NEW u \in Task, NEW p \in Prio, TaskPrioritySet(t, u, p)
      PROVE  UNCHANGED <<CurrentTCB, SchedulerRunning, pc>> /\ Runs(t) /\ pc[t] \in {"run", "locked"}
  BY <1>6 DEF TaskPrioritySet, countVars, callVars
<1>7. ASSUME NEW u \in Task, NEW a \in NotifyAction, NEW v \in ValuesFor(a),
             GenericNotify(t, u, a, v)
      PROVE  UNCHANGED <<CurrentTCB, SchedulerRunning, pc>> /\ Runs(t) /\ pc[t] \in {"run", "locked"}
  BY <1>7 DEF GenericNotify, countVars, callVars
<1> QED
  BY <1>1, <1>2, <1>3, <1>4, <1>5, <1>6, <1>7 DEF ApiCall

\* Every step keeps a running task.
LEMMA BootedStep == ASSUME ListInv, Next PROVE Booted'
<1> USE DEF ListInv, TypeInv, TypeOK, Booted, CallType
<1>1. ASSUME NEW t \in Task, KernelStep(t) PROVE Booted'
  BY <1>1, KernelFrame, SchedulerAssumption DEF Runs
<1>2. ASSUME NEW t \in Task, ApiCall(t) PROVE Booted'
  BY <1>2, ApiFrame, SchedulerAssumption DEF Runs
<1>3. CASE Start
  <2>1. PICK u \in Task : /\ AddNewTaskToReadyList(u, NULL, "run")
                          /\ ~SchedulerRunning /\ SchedulerRunning' \in BOOLEAN
    BY <1>3, SchedulerAssumption DEF Start, TaskStartScheduler, TaskCreateBeforeStart, SwitchType
  <2>2. \A t \in Task : StateList'[t] \in Prio \cup {NoList}
    BY <2>1, CreateEffect DEF ListType
  <2> QED
    BY <2>1, <2>2, CreateEffect, SchedulerAssumption DEF SwitchType
<1>4. CASE SwitchContext
  BY <1>4, SelectEffect, SchedulerAssumption DEF SwitchContext, InterruptsEnabled, countVars, callVars
<1>5. CASE TickISR \/ SignalFromISR \/ IdleYield
  BY <1>5, SchedulerAssumption DEF TickISR, SignalFromISR, IdleYield, InterruptsEnabled, countVars,
     callVars, At, Runs
<1>6. ASSUME NEW u \in Task, TaskResumeFromISR(u) PROVE Booted'
  BY <1>6 DEF TaskResumeFromISR, InterruptsEnabled, countVars, callVars
<1>7. ASSUME NEW u \in Task, NEW a \in NotifyAction, NEW v \in ValuesFor(a), NotifyFromISR(u, a, v)
      PROVE  Booted'
  BY <1>7 DEF NotifyFromISR, InterruptsEnabled, countVars, callVars
<1>8. CASE IdleCleanUp
  BY <1>8, SchedulerAssumption DEF IdleCleanUp, At, Runs, Leave, switchVars, NoTaskLost
<1> QED
  BY <1>1, <1>2, <1>3, <1>4, <1>5, <1>6, <1>7, <1>8 DEF Next, Interrupt

\* The steps inside the kernel keep the running task ready until its call blocks it.
LEMMA KernelStepRunner == ASSUME ListInv, NEW t \in Task, KernelStep(t) PROVE RunnerReady'
<1> USE DEF ListInv, TypeInv, TypeOK, At, Runs, RunnerReady, ReadyIn, ListType, CallType
<1>0. CurrentTCB = t /\ UNCHANGED CurrentTCB
  BY KernelFrame
<1>1. CASE DelayEnlist(t) \/ DelayUntilEnlist(t) \/ NotifyEnlist(t)
  BY <1>0, <1>1 DEF DelayEnlist, DelayUntilEnlist, NotifyEnlist, SuspendedSection
<1>2. CASE PlaceOnEventList(t)
  BY <1>0, <1>2, RunnerIsReady DEF PlaceOnEventList, SuspendedSection, listVars
<1>3. CASE NotifyTest(t) \/ UnlockScheduler(t) \/ CatchUpPend(t) \/ AbortGetState(t)
           \/ AbortTestEvent(t) \/ AbortTestNotify(t) \/ AbortEvent(t)
  BY <1>0, <1>3, RunnerIsReady DEF NotifyTest, UnlockScheduler, CatchUpPend, AbortGetState,
     AbortTestEvent, AbortTestNotify, AbortEvent, SuspendedSection, Goto, listVars
<1>4. CASE NotifyReturn(t) \/ TaskCreateFinish(t)
  BY <1>0, <1>4, RunnerIsReady DEF NotifyReturn, TaskCreateFinish, SuspendedSection, listVars
<1>5. CASE TaskSuspendFinish(t)
  BY <1>0, <1>5 DEF TaskSuspendFinish, SuspendedSection, Leave, listVars
<1>6. CASE ResumeAll(t)
  BY <1>0, <1>6, ResumeEffect DEF Goto, SuspendedSection
<1>7. CASE ReplayTick(t)
  <2>1. StateList[t] \in Prio => StateList'[t] \in Prio
    BY <1>7, TickEffect, Apart DEF ReplayTick, Delayed
  <2> QED
    BY <1>0, <1>7, <2>1 DEF ReplayTick, callVars, SuspendedSection
<1>8. CASE ResumeAllReturn(t)
  BY <1>0, <1>8 DEF ResumeAllReturn, Goto, Leave, Continue, SuspendedSection, listVars, SwitchType
<1>9. CASE YieldWithinApi(t)
  BY <1>0, <1>9 DEF YieldWithinApi, Goto, Leave, Continue, SuspendedSection
<1>10. CASE AbortRemove(t) \/ AbortReady(t)
  <2>1. StateList[t] \in Prio /\ target[t] # t
    BY <1>10, RunnerIsReady, Apart DEF AbortRemove, AbortReady, SuspendedSection, AbortHolds, Blocked,
       AbortUnderWay
  <2> QED
    BY <1>0, <1>10, <2>1 DEF AbortRemove, AbortReady, Goto, SuspendedSection
<1> QED
  BY <1>1, <1>2, <1>3, <1>4, <1>5, <1>6, <1>7, <1>8, <1>9, <1>10 DEF KernelStep

\* So do the first steps of the calls.
LEMMA ApiCallRunner == ASSUME ListInv, NEW t \in Task, ApiCall(t) PROVE RunnerReady'
<1> USE DEF ListInv, TypeInv, TypeOK, RunnerReady, ReadyIn, ListType, CallType, SuspendedSection
<1>0. CurrentTCB = t /\ UNCHANGED CurrentTCB /\ StateList[t] \in Prio
  BY ApiFrame, RunnerIsReady
<1>1. CASE Delay(t) \/ DelayUntil(t) \/ WaitEvent(t) \/ NotifyTake(t) \/ NotifyWait(t)
             \/ LockScheduler(t) \/ CatchUpTicks(t) \/ AbortDelay(t)
  BY <1>0, <1>1 DEF Delay, DelayUntil, WaitEvent, NotifyTake, NotifyWait, LockScheduler,
     CatchUpTicks, AbortDelay, SuspendAllFor, Begin, listVars
<1>2. CASE TaskDeleteSelf(t)
  BY <1>0, <1>2 DEF TaskDeleteSelf, Leave
<1>3. CASE SignalEvent(t)
  BY <1>0, <1>3, RemoveEffect DEF SignalEvent
<1>4. ASSUME NEW u \in Task, TaskSuspend(t, u) PROVE RunnerReady'
  BY <1>0, <1>4 DEF TaskSuspend
<1>5. ASSUME NEW u \in Task, TaskResume(t, u) PROVE RunnerReady'
  BY <1>0, <1>5 DEF TaskResume, MakeReady
<1>6. ASSUME NEW u \in Task, TaskDelete(t, u) PROVE RunnerReady'
  BY <1>0, <1>6 DEF TaskDelete
<1>7. ASSUME NEW u \in Task, TaskCreate(t, u) PROVE RunnerReady'
  BY <1>0, <1>7, CreateEffect DEF TaskCreate
<1>8. ASSUME NEW u \in Task, NotifyStateClear(t, u) PROVE RunnerReady'
  BY <1>0, <1>8 DEF NotifyStateClear, listVars
<1>9. ASSUME NEW u \in Task, NEW p \in Prio, TaskPrioritySet(t, u, p) PROVE RunnerReady'
  BY <1>0, <1>9 DEF TaskPrioritySet
<1>10. ASSUME NEW u \in Task, NEW a \in NotifyAction, NEW v \in ValuesFor(a),
              GenericNotify(t, u, a, v)
       PROVE  RunnerReady'
  BY <1>0, <1>10, Apart DEF GenericNotify, MakeReady, Relinked
<1> QED
  BY <1>1, <1>2, <1>3, <1>4, <1>5, <1>6, <1>7, <1>8, <1>9, <1>10 DEF ApiCall

\* So do start-up, the interrupts and the idle task: a task that is switched in is ready.
LEMMA OutsideTasksRunner ==
  ASSUME ListInv, Start \/ Interrupt \/ IdleCleanUp \/ IdleYield PROVE RunnerReady'
<1> USE DEF ListInv, TypeInv, TypeOK, RunnerReady, ReadyIn, ListType, CallType
<1>1. CASE Start
  <2>1. ~SchedulerRunning /\ \A u \in Task : pc[u] \in {"uncreated", "run"}
    BY <1>1 DEF Start, TaskStartScheduler, TaskCreateBeforeStart, SectionInv, QuietBeforeStart
  <2>2. \A u \in Task : pc[u] = "run" => StateList[u] \in Prio
    BY <2>1, SchedulerAssumption, Apart DEF Booted, SwitchType, NoTaskLost, Live, AbortUnderWay
  <2>3. CurrentTCB # NULL => pc[CurrentTCB] = "run"
    BY <2>1 DEF Booted, SwitchType
  <2> QED
    BY <1>1, <2>1, <2>2, <2>3, CreateEffect, Apart, SchedulerAssumption DEF Start,
       TaskStartScheduler, TaskCreateBeforeStart
<1>2. CASE TickISR
  <2>1. \A t \in Task : StateList[t] \in Prio => StateList'[t] \in Prio
    BY <1>2, TickEffect, Apart DEF TickISR, listVars, prioVars, Delayed
  <2>2. yieldReq => yieldReq'
    BY <1>2 DEF TickISR
  <2> QED
    BY <1>2, <2>1, <2>2 DEF TickISR, callVars
<1>3. CASE SignalFromISR
  <2>1. yieldReq => yieldReq'
    BY <1>3 DEF SignalFromISR, MayRequestSwitch
  <2> QED
    BY <1>3, <2>1, RemoveEffect DEF SignalFromISR, callVars
<1>4. CASE SwitchContext
  <2>1. CASE SchedulerSuspended
    BY <1>4, <2>1 DEF SwitchContext, listVars, callVars, SectionInv, SuspendedSectionsExclusive,
       SuspendedSection
  <2>2. CASE ~SchedulerSuspended
    BY <1>4, <2>2, SelectEffect DEF SwitchContext, listVars
  <2> QED
    BY <2>1, <2>2
<1>5. CASE IdleYield
  BY <1>5 DEF IdleYield, listVars, callVars
<1>6. ASSUME NEW u \in Task, TaskResumeFromISR(u) PROVE RunnerReady'
  <2>1. yieldReq => yieldReq'
    BY <1>6 DEF TaskResumeFromISR, MayRequestSwitch
  <2> QED
    BY <1>6, <2>1, WakeEffect DEF TaskResumeFromISR, callVars
<1>7. ASSUME NEW u \in Task, NEW a \in NotifyAction, NEW v \in ValuesFor(a), NotifyFromISR(u, a, v)
      PROVE  RunnerReady'
  <2>1. yieldReq => yieldReq'
    BY <1>7 DEF NotifyFromISR, MayRequestSwitch
  <2> QED
    BY <1>7, <2>1, WakeEffect DEF NotifyFromISR, listVars, Waiting, callVars
<1>8. CASE IdleCleanUp
  BY <1>8, Apart DEF IdleCleanUp, Leave, At, Runs, switchVars
<1> QED
  BY <1>1, <1>2, <1>3, <1>4, <1>5, <1>6, <1>7, <1>8 DEF Interrupt

-----------------------------------------------------------------------------
(* AbortDelay and its target. *)

\* A step of another kind than AbortDelay's that leaves blocked tasks blocked, and the
\* target in no list where it is.
LEMMA HoldsKept ==
  ASSUME AbortHolds, UNCHANGED <<pc, target>>,
         \A u \in Task : Blocked(u) => Blocked(u)',
         \A u \in Task : StateList[u] = NoList => StateList'[u] = NoList,
         \A u \in Task : EventList'[u] = "waiting" => EventList[u] = "waiting"
  PROVE  AbortHolds'
  BY DEF AbortHolds, Live, AbortUnderWay, AbortSteps

\* Outside the sections of an AbortDelay there is nothing to hold.
LEMMA NothingHeld ==
  ASSUME \A c \in Task : pc'[c] \notin AbortSteps PROVE AbortHolds'
  BY DEF AbortHolds, AbortSteps, AbortUnderWay

\* The steps inside the kernel keep what an AbortDelay holds.
LEMMA KernelStepHolds == ASSUME ListInv, NEW t \in Task, KernelStep(t) PROVE AbortHolds'
<1> USE DEF ListInv, TypeInv, TypeOK, At, Runs
<1>0. \A c \in Task \ {t} : pc'[c] \notin AbortSteps
  BY KernelFrame DEF SectionInv, SuspendedSectionsExclusive, SuspendedSection, AbortSteps
<1>1. CASE DelayEnlist(t) \/ DelayUntilEnlist(t) \/ PlaceOnEventList(t) \/ NotifyTest(t)
           \/ NotifyEnlist(t)
  BY <1>0, <1>1, NothingHeld DEF DelayEnlist, DelayUntilEnlist, PlaceOnEventList, NotifyTest,
     NotifyEnlist, AbortSteps, CallType
<1>2. CASE NotifyReturn(t) \/ TaskSuspendFinish(t) \/ TaskCreateFinish(t) \/ UnlockScheduler(t)
           \/ CatchUpPend(t)
  BY <1>0, <1>2, NothingHeld DEF NotifyReturn, TaskSuspendFinish, TaskCreateFinish,
     UnlockScheduler, CatchUpPend, Goto, Leave, AbortSteps, CallType
<1>3. CASE ResumeAll(t) \/ ResumeAllReturn(t) \/ YieldWithinApi(t)
  BY <1>0, <1>3, NothingHeld DEF ResumeAll, ResumeAllReturn, YieldWithinApi, Goto, Leave, Continue,
     AbortSteps, CallType
<1>4. CASE ReplayTick(t)
  BY <1>0, <1>4, NothingHeld DEF ReplayTick, callVars, AbortSteps
<1> USE DEF CallType, AbortHolds, AbortSteps, AbortUnderWay
<1>5. CASE AbortGetState(t)
  BY <1>0, <1>5 DEF AbortGetState, Goto, Blocked, Delayed, listVars, Live
<1>6. CASE AbortTestEvent(t) \/ AbortTestNotify(t)
  BY <1>0, <1>6 DEF AbortTestEvent, AbortTestNotify, Goto, Blocked, listVars, Live
<1>7. CASE AbortRemove(t)
  <2>1. target[t] # t
    BY <1>7, RunnerIsReady, Apart DEF AbortRemove, SuspendedSection, Blocked
  <2>2. StateList'[target[t]] = NoList
    BY <1>7, Apart DEF AbortRemove, Blocked, Unlinked, Live, ListType
  <2> QED
    BY <1>0, <1>7, <2>1, <2>2 DEF AbortRemove, Goto, Live
<1>8. CASE AbortEvent(t)
  BY <1>0, <1>8 DEF AbortEvent, Goto, Live, EventUnlinked, ListType
<1>9. CASE AbortReady(t)
  BY <1>0, <1>9 DEF AbortReady, Goto
<1> QED
  BY <1>1, <1>2, <1>3, <1>4, <1>5, <1>6, <1>7, <1>8, <1>9 DEF KernelStep

\* So do the first steps of the calls: there is nothing to hold but in a call of AbortDelay.
LEMMA ApiCallHolds == ASSUME ListInv, NEW t \in Task, ApiCall(t) PROVE AbortHolds'
<1> USE DEF ListInv, TypeInv, TypeOK, CallType
<1>0. \A c \in Task : pc[c] \notin AbortSteps
  BY ApiFrame DEF SectionInv, SuspendedSectionsExclusive, SuspendedSection, AbortSteps
<1>1. CASE Delay(t) \/ DelayUntil(t) \/ WaitEvent(t) \/ NotifyTake(t) \/ NotifyWait(t)
             \/ LockScheduler(t) \/ CatchUpTicks(t)
  BY <1>0, <1>1, NothingHeld DEF Delay, DelayUntil, WaitEvent, NotifyTake, NotifyWait,
     LockScheduler, CatchUpTicks, SuspendAllFor, Begin, AbortSteps
<1>2. CASE AbortDelay(t)
  BY <1>0, <1>2 DEF AbortDelay, SuspendAllFor, Begin, AbortSteps, AbortHolds, AbortUnderWay, Live
<1>3. CASE TaskDeleteSelf(t) \/ SignalEvent(t)
  BY <1>0, <1>3, NothingHeld DEF TaskDeleteSelf, SignalEvent, Leave, callVars, AbortSteps
<1>4. ASSUME NEW u \in Task,
             TaskSuspend(t, u) \/ TaskResume(t, u) \/ TaskDelete(t, u) \/ NotifyStateClear(t, u)
      PROVE  AbortHolds'
  BY <1>0, <1>4, NothingHeld DEF TaskSuspend, TaskResume, TaskDelete, NotifyStateClear, Leave,
     callVars, AbortSteps
<1>5. ASSUME NEW u \in Task, TaskCreate(t, u) PROVE AbortHolds'
  BY <1>0, <1>5, CreateEffect, NothingHeld DEF TaskCreate, AbortSteps
<1>6. ASSUME NEW u \in Task, NEW p \in Prio, TaskPrioritySet(t, u, p) PROVE AbortHolds'
  BY <1>0, <1>6, NothingHeld DEF TaskPrioritySet, callVars
<1>7. ASSUME NEW u \in Task, NEW a \in NotifyAction, NEW v \in ValuesFor(a),
             GenericNotify(t, u, a, v)
      PROVE  AbortHolds'
  BY <1>0, <1>7, NothingHeld DEF GenericNotify, callVars
<1> QED
  BY <1>1, <1>2, <1>3, <1>4, <1>5, <1>6, <1>7 DEF ApiCall

\* So do start-up, the interrupts and the idle task: an ISR that wakes the target while
\* AbortDelay has it leaves its state list item alone.
LEMMA OutsideTasksHolds ==
  ASSUME ListInv, Start \/ Interrupt \/ IdleCleanUp \/ IdleYield PROVE AbortHolds'
<1> USE DEF ListInv, TypeInv, TypeOK
<1>0. ~SchedulerSuspended => \A c \in Task : pc[c] \notin AbortSteps
  BY DEF SectionInv, SuspendedSectionsExclusive, SuspendedSection, AbortSteps
<1>1. CASE Start
  <2>1. ~SchedulerSuspended
    BY <1>1 DEF Start, TaskStartScheduler, TaskCreateBeforeStart, SectionInv, QuietBeforeStart
  <2> QED
    BY <1>0, <1>1, <2>1, CreateEffect, NothingHeld, SchedulerAssumption DEF Start,
       TaskStartScheduler, TaskCreateBeforeStart, AbortSteps
<1>2. CASE TickISR
  <2>1. CASE SchedulerSuspended
    BY <1>2, <2>1, HoldsKept DEF TickISR, callVars, listVars, Blocked
  <2>2. CASE ~SchedulerSuspended
    BY <1>0, <1>2, <2>2, NothingHeld DEF TickISR, callVars
  <2> QED
    BY <2>1, <2>2
<1>3. CASE SignalFromISR
  <2>1. CASE SchedulerSuspended
    <3>1. PICK u \in Task : RemoveFromEventList(u)
      BY <1>3 DEF SignalFromISR
    <3>2. UNCHANGED StateList /\ EventList' = [EventList EXCEPT ![u] = "PendingReady"]
      BY <2>1, <3>1, RemoveEffect
    <3> QED
      BY <1>3, <3>2, HoldsKept DEF SignalFromISR, callVars, Blocked, ListType
  <2>2. CASE ~SchedulerSuspended
    BY <1>0, <1>3, <2>2, NothingHeld DEF SignalFromISR, callVars
  <2> QED
    BY <2>1, <2>2
<1>4. CASE SwitchContext \/ IdleYield
  BY <1>4, HoldsKept DEF SwitchContext, IdleYield, listVars, callVars, Blocked
<1>5. ASSUME NEW u \in Task, TaskResumeFromISR(u) PROVE AbortHolds'
  <2>1. CASE SchedulerSuspended
    <3>1. UNCHANGED StateList /\ EventList' = [EventList EXCEPT ![u] = "PendingReady"]
      BY <1>5, <2>1, WakeEffect DEF TaskResumeFromISR
    <3> QED
      BY <1>5, <3>1, HoldsKept DEF TaskResumeFromISR, callVars, Blocked, ListType
  <2>2. CASE ~SchedulerSuspended
    BY <1>0, <1>5, <2>2, NothingHeld DEF TaskResumeFromISR, callVars
  <2> QED
    BY <2>1, <2>2
<1>6. ASSUME NEW u \in Task, NEW a \in NotifyAction, NEW v \in ValuesFor(a), NotifyFromISR(u, a, v)
      PROVE  AbortHolds'
  <2>1. CASE SchedulerSuspended
    <3>1. /\ UNCHANGED StateList
          /\ EventList' \in {EventList, [EventList EXCEPT ![u] = "PendingReady"]}
      BY <1>6, <2>1, WakeEffect DEF NotifyFromISR, Waiting, listVars
    <3> QED
      BY <1>6, <3>1, HoldsKept DEF NotifyFromISR, callVars, Blocked, ListType
  <2>2. CASE ~SchedulerSuspended
    BY <1>0, <1>6, <2>2, NothingHeld DEF NotifyFromISR, callVars
  <2> QED
    BY <2>1, <2>2
<1>7. CASE IdleCleanUp
  <2>1. ~SchedulerSuspended
    BY <1>7, SchedulerAssumption DEF IdleCleanUp, At, Runs, SectionInv,
       SuspendedSectionsExclusive, SuspendedSection
  <2> QED
    BY <1>0, <1>7, <2>1, NothingHeld DEF IdleCleanUp, Leave, AbortSteps, CallType
<1> QED
  BY <1>1, <1>2, <1>3, <1>4, <1>5, <1>6, <1>7 DEF Interrupt

-----------------------------------------------------------------------------
(* The tasks that wait for an event or a notification. *)

\* A step that suspends nothing and puts nobody on an event list.
LEMMA WaitersKept ==
  ASSUME WaitersLive, UNCHANGED SchedulerSuspended,
         \A u \in Task : EventList'[u] \in {EventList[u], "none"},
         \A u \in Task : u \in Live => u \in Live' \/ EventList'[u] = "none"
  PROVE  WaitersLive'
  BY DEF WaitersLive

\* The steps inside the kernel keep the waiters alive.
LEMMA KernelStepWaiters == ASSUME ListInv, NEW t \in Task, KernelStep(t) PROVE WaitersLive'
<1> USE DEF ListInv, TypeInv, TypeOK, At, Runs, WaitersLive, Live
<1>0. \A u \in Live : u \in Live'
  BY KernelFrame
<1>1. CASE DelayEnlist(t) \/ DelayUntilEnlist(t) \/ NotifyEnlist(t)
  BY <1>0, <1>1, WaitersKept DEF DelayEnlist, DelayUntilEnlist, NotifyEnlist, switchVars
<1>2. CASE PlaceOnEventList(t)
  BY <1>0, <1>2 DEF PlaceOnEventList, EventAppended, listVars, switchVars, ListType, NoticeInCall
<1>3. CASE NotifyTest(t) \/ NotifyReturn(t) \/ ResumeAllReturn(t) \/ YieldWithinApi(t)
           \/ UnlockScheduler(t) \/ CatchUpPend(t) \/ AbortGetState(t) \/ AbortTestEvent(t)
           \/ AbortTestNotify(t) \/ TaskSuspendFinish(t) \/ TaskCreateFinish(t) \/ AbortRemove(t)
           \/ AbortReady(t)
  BY <1>0, <1>3, WaitersKept DEF NotifyTest, NotifyReturn, ResumeAllReturn, YieldWithinApi,
     UnlockScheduler, CatchUpPend, AbortGetState, AbortTestEvent, AbortTestNotify,
     TaskSuspendFinish, TaskCreateFinish, AbortRemove, AbortReady, listVars, switchVars
<1>4. CASE ResumeAll(t)
  BY <1>0, <1>4, ResumeEffect DEF PendingReady, ListType
<1>5. CASE ReplayTick(t)
  BY <1>0, <1>5, TickEffect, WaitersKept DEF ReplayTick, EnsureRemoved, NotCorrupt
<1>6. CASE AbortEvent(t)
  BY <1>0, <1>6, WaitersKept DEF AbortEvent, EventUnlinked, NotCorrupt, switchVars, ListType
<1> QED
  BY <1>1, <1>2, <1>3, <1>4, <1>5, <1>6 DEF KernelStep

\* So do the first steps of the calls.
LEMMA ApiCallWaiters == ASSUME ListInv, NEW t \in Task, ApiCall(t) PROVE WaitersLive'
<1> USE DEF ListInv, TypeInv, TypeOK, ListType, CallType
<1>0. Runs(t) /\ pc[t] \in {"run", "locked"}
  BY ApiFrame
<1>1. CASE Delay(t) \/ DelayUntil(t) \/ WaitEvent(t) \/ NotifyTake(t) \/ NotifyWait(t)
             \/ LockScheduler(t) \/ CatchUpTicks(t) \/ AbortDelay(t)
  BY <1>0, <1>1 DEF Delay, DelayUntil, WaitEvent, NotifyTake, NotifyWait, LockScheduler,
     CatchUpTicks, AbortDelay, SuspendAllFor, Begin, listVars, WaitersLive, Live
<1>2. CASE TaskDeleteSelf(t)
  BY <1>0, <1>2, WaitersKept DEF TaskDeleteSelf, EnsureRemoved, NotCorrupt, Leave, Live
<1>3. CASE SignalEvent(t)
  BY <1>3, RemoveEffect DEF SignalEvent, callVars, WaitersLive, Live
<1>4. ASSUME NEW u \in Task, TaskSuspend(t, u) PROVE WaitersLive'
  BY <1>0, <1>4, WaitersKept DEF TaskSuspend, EnsureRemoved, NotCorrupt, Live, switchVars
<1>5. ASSUME NEW u \in Task, TaskDelete(t, u) PROVE WaitersLive'
  BY <1>0, <1>5, WaitersKept DEF TaskDelete, EnsureRemoved, NotCorrupt, Leave, Live, switchVars
<1>6. ASSUME NEW u \in Task, TaskResume(t, u) \/ NotifyStateClear(t, u) PROVE WaitersLive'
  BY <1>6, WaitersKept DEF TaskResume, NotifyStateClear, callVars, Live, switchVars, listVars
<1>7. ASSUME NEW u \in Task, TaskCreate(t, u) PROVE WaitersLive'
  BY <1>0, <1>7, CreateEffect, WaitersKept DEF TaskCreate, Live
<1>8. ASSUME NEW u \in Task, NEW p \in Prio, TaskPrioritySet(t, u, p) PROVE WaitersLive'
  BY <1>8, WaitersKept DEF TaskPrioritySet, callVars, Live
<1>9. ASSUME NEW u \in Task, NEW a \in NotifyAction, NEW v \in ValuesFor(a),
             GenericNotify(t, u, a, v)
      PROVE  WaitersLive'
  BY <1>9, WaitersKept DEF GenericNotify, callVars, Live
<1> QED
  BY <1>1, <1>2, <1>3, <1>4, <1>5, <1>6, <1>7, <1>8, <1>9 DEF ApiCall

\* So do start-up, the interrupts and the idle task.
LEMMA OutsideTasksWaiters ==
  ASSUME ListInv, Start \/ Interrupt \/ IdleCleanUp \/ IdleYield PROVE WaitersLive'
<1> USE DEF ListInv, TypeInv, TypeOK, ListType, CallType
<1>1. CASE Start
  BY <1>1, CreateEffect, WaitersKept, SchedulerAssumption DEF Start, TaskStartScheduler,
     TaskCreateBeforeStart, Live
<1>2. CASE TickISR
  <2>1. \A u \in Task : EventList'[u] \in {EventList[u], "none"}
    BY <1>2, TickEffect DEF TickISR, listVars, EnsureRemoved, NotCorrupt
  <2> QED
    BY <1>2, <2>1, WaitersKept DEF TickISR, callVars, Live
<1>3. CASE SignalFromISR
  BY <1>3, RemoveEffect DEF SignalFromISR, callVars, Live, WaitersLive
<1>4. CASE SwitchContext \/ IdleYield
  BY <1>4, WaitersKept DEF SwitchContext, IdleYield, listVars, callVars, Live
<1>5. ASSUME NEW u \in Task, TaskResumeFromISR(u) PROVE WaitersLive'
  BY <1>5, WakeEffect DEF TaskResumeFromISR, callVars, Live, WaitersLive
<1>6. ASSUME NEW u \in Task, NEW a \in NotifyAction, NEW v \in ValuesFor(a), NotifyFromISR(u, a, v)
      PROVE  WaitersLive'
  BY <1>6, WakeEffect DEF NotifyFromISR, listVars, Waiting, callVars, Live, WaitersLive
<1>7. CASE IdleCleanUp
  BY <1>7 DEF IdleCleanUp, Leave, Live, switchVars, WaitersLive, NoTaskLost
<1> QED
  BY <1>1, <1>2, <1>3, <1>4, <1>5, <1>6, <1>7 DEF Interrupt

\* A step that moves no call, or none that tests or waits for a notification, and puts
\* nobody who does on the event list, nor makes him wait.
LEMMA NoticeKept ==
  ASSUME NoticeInCall,
         \A u \in Task : /\ pc'[u] = pc[u] /\ op'[u] = op[u]
                         /\ NotifyState'[u] = "waiting" => NotifyState[u] = "waiting"
                         /\ \/ EventList'[u] \in {EventList[u], "none"}
                            \/ /\ pc[u] \notin {"event", "take", "wait"}
                               /\ NotifyState'[u] # "waiting"
  PROVE  NoticeInCall'
  BY DEF NoticeInCall, Waiting, Live

\* The steps inside the kernel keep the waits for notifications in their calls.
LEMMA KernelStepNotice == ASSUME ListInv, NEW t \in Task, KernelStep(t) PROVE NoticeInCall'
<1> USE DEF ListInv, TypeInv, TypeOK, At, Runs, NoticeInCall, Waiting, Live, ListType, CallType
<1>1. CASE DelayEnlist(t) \/ DelayUntilEnlist(t) \/ NotifyEnlist(t)
  BY <1>1 DEF DelayEnlist, DelayUntilEnlist, NotifyEnlist, NoticeType
<1>2. CASE PlaceOnEventList(t)
  BY <1>2 DEF PlaceOnEventList, EventAppended, listVars
<1>3. CASE NotifyTest(t)
  BY <1>3 DEF NotifyTest, listVars, NoticeType
<1>4. CASE NotifyReturn(t)
  BY <1>4 DEF NotifyReturn, listVars, NoticeType, Leave
<1>5. CASE TaskSuspendFinish(t) \/ TaskCreateFinish(t) \/ UnlockScheduler(t) \/ CatchUpPend(t)
  BY <1>5 DEF TaskSuspendFinish, TaskCreateFinish, UnlockScheduler, CatchUpPend, listVars,
     noticeVars, Leave, Goto
<1>6. CASE ResumeAll(t)
  BY <1>6, ResumeEffect DEF Goto, noticeVars
<1>7. CASE ReplayTick(t)
  <2>1. \A u \in Task : EventList'[u] \in {EventList[u], "none"}
    BY <1>7, TickEffect DEF ReplayTick, EnsureRemoved, NotCorrupt
  <2> QED
    BY <1>7, <2>1, NoticeKept DEF ReplayTick, callVars, noticeVars
<1>8. CASE ResumeAllReturn(t) \/ YieldWithinApi(t)
  BY <1>8 DEF ResumeAllReturn, YieldWithinApi, Continue, Goto, Leave, listVars, noticeVars
<1>9. CASE AbortGetState(t) \/ AbortTestEvent(t) \/ AbortTestNotify(t) \/ AbortRemove(t)
           \/ AbortReady(t)
  BY <1>9 DEF AbortGetState, AbortTestEvent, AbortTestNotify, AbortRemove, AbortReady, Goto,
     listVars, noticeVars
<1>10. CASE AbortEvent(t)
  BY <1>10 DEF AbortEvent, EventUnlinked, NotCorrupt, Goto
<1> QED
  BY <1>1, <1>2, <1>3, <1>4, <1>5, <1>6, <1>7, <1>8, <1>9, <1>10 DEF KernelStep

\* So do the first steps of the calls: a task that begins one is on no event list.
LEMMA ApiCallNotice == ASSUME ListInv, NEW t \in Task, ApiCall(t) PROVE NoticeInCall'
<1> USE DEF ListInv, TypeInv, TypeOK, ListType, CallType, NoticeType
<1>0. Runs(t) /\ pc[t] \in {"run", "locked"}
  BY ApiFrame
<1>1. CASE Delay(t) \/ DelayUntil(t) \/ WaitEvent(t) \/ NotifyTake(t) \/ NotifyWait(t)
             \/ LockScheduler(t) \/ CatchUpTicks(t) \/ AbortDelay(t)
  <2>1. EventList[t] = "none" /\ NotifyState[t] # "waiting"
    <3>1. pc[t] = "run" /\ ~SchedulerSuspended
      BY <1>1 DEF Delay, DelayUntil, WaitEvent, NotifyTake, NotifyWait, LockScheduler,
         CatchUpTicks, AbortDelay, CallsApi, At, Runs, SectionInv, SuspendedSectionsExclusive,
         SuspendedSection
    <3>2. StateList[t] \in Prio /\ CurrentTCB = t
      BY <1>0, <3>1, RunnerIsReady
    <3>3. EventList[t] # "waiting"
      BY <3>1, <3>2, Apart DEF EventWaitersBlocked, Delayed, AbortUnderWay
    <3>4. EventList[t] \notin {"PendingReady", "corrupt"}
      BY <3>1 DEF WaitersLive, NotCorrupt
    <3> QED
      BY <3>1, <3>3, <3>4 DEF EventContainer, NoticeInCall, Waiting, Live
  <2>2. PICK l \in Label, o \in Operation :
          /\ pc' = [pc EXCEPT ![t] = l] /\ op' = [op EXCEPT ![t] = o]
          /\ l \in {"take", "wait", "enlist"} => o \in {"Take", "Wait"}
          /\ UNCHANGED <<listVars, noticeVars>>
    BY <1>1 DEF Delay, DelayUntil, WaitEvent, NotifyTake, NotifyWait, LockScheduler,
       CatchUpTicks, AbortDelay, SuspendAllFor, Begin, Label, Operation
  <2> QED
    BY <2>1, <2>2 DEF listVars, noticeVars, NoticeInCall, Waiting, Live
<1>2. CASE TaskDeleteSelf(t)
  BY <1>0, <1>2 DEF TaskDeleteSelf, EnsureRemoved, NotCorrupt, Leave, Live, NoticeInCall, Waiting,
     noticeVars
<1>3. CASE SignalEvent(t)
  BY <1>3, RemoveEffect, NoticeKept DEF SignalEvent, callVars, noticeVars, NoticeInCall, Waiting,
     Live
<1>4. ASSUME NEW u \in Task, TaskSuspend(t, u) PROVE NoticeInCall'
  BY <1>0, <1>4 DEF TaskSuspend, EnsureRemoved, NotCorrupt, Live, NoticeInCall, Waiting
<1>5. ASSUME NEW u \in Task, TaskDelete(t, u) PROVE NoticeInCall'
  BY <1>0, <1>5 DEF TaskDelete, EnsureRemoved, NotCorrupt, Leave, Live, NoticeInCall, Waiting,
     noticeVars
<1>6. ASSUME NEW u \in Task, TaskResume(t, u) \/ NotifyStateClear(t, u) PROVE NoticeInCall'
  BY <1>6, NoticeKept DEF TaskResume, NotifyStateClear, callVars, listVars, noticeVars
<1>7. ASSUME NEW u \in Task, TaskCreate(t, u) PROVE NoticeInCall'
  BY <1>0, <1>7, CreateEffect DEF TaskCreate, Live, NoticeInCall, Waiting
<1>8. ASSUME NEW u \in Task, NEW p \in Prio, TaskPrioritySet(t, u, p) PROVE NoticeInCall'
  BY <1>8, NoticeKept DEF TaskPrioritySet, callVars, noticeVars
<1>9. ASSUME NEW u \in Task, NEW a \in NotifyAction, NEW v \in ValuesFor(a),
             GenericNotify(t, u, a, v)
      PROVE  NoticeInCall'
  BY <1>9, NoticeKept DEF GenericNotify, SetNotification, callVars
<1> QED
  BY <1>1, <1>2, <1>3, <1>4, <1>5, <1>6, <1>7, <1>8, <1>9 DEF ApiCall

\* So do start-up, the interrupts and the idle task.
LEMMA OutsideTasksNotice ==
  ASSUME ListInv, Start \/ Interrupt \/ IdleCleanUp \/ IdleYield PROVE NoticeInCall'
<1> USE DEF ListInv, TypeInv, TypeOK, ListType, CallType, NoticeType
<1>1. CASE Start
  BY <1>1, CreateEffect, SchedulerAssumption DEF Start, TaskStartScheduler,
     TaskCreateBeforeStart, Live, NoticeInCall, Waiting
<1>2. CASE TickISR
  <2>1. \A u \in Task : EventList'[u] \in {EventList[u], "none"}
    BY <1>2, TickEffect DEF TickISR, listVars, EnsureRemoved, NotCorrupt
  <2> QED
    BY <1>2, <2>1, NoticeKept DEF TickISR, callVars, noticeVars
<1>3. CASE SignalFromISR
  BY <1>3, RemoveEffect, NoticeKept DEF SignalFromISR, callVars, noticeVars, NoticeInCall, Waiting,
     Live
<1>4. CASE SwitchContext \/ IdleYield
  BY <1>4, NoticeKept DEF SwitchContext, IdleYield, listVars, callVars, noticeVars
<1>5. ASSUME NEW u \in Task, TaskResumeFromISR(u) PROVE NoticeInCall'
  <2>1. pc[u] \notin {"event", "take", "wait"} \/ UNCHANGED EventList
    <3>1. CASE ~SchedulerSuspended
      BY <1>5, <3>1, WakeEffect DEF TaskResumeFromISR
    <3>2. CASE pc[u] \in {"event", "take", "wait"}
      <4>1. u = CurrentTCB /\ StateList[u] \in Prio
        BY <3>2 DEF SectionInv, SuspendedSectionsExclusive, SuspendedSection, RunnerReady, ReadyIn
      <4> QED
        BY <1>5, <4>1, Apart DEF TaskResumeFromISR, Suspended
    <3> QED
      BY <3>1, <3>2
  <2> QED
    BY <1>5, <2>1, WakeEffect, NoticeKept DEF TaskResumeFromISR, callVars, noticeVars, Suspended
<1>6. ASSUME NEW u \in Task, NEW a \in NotifyAction, NEW v \in ValuesFor(a), NotifyFromISR(u, a, v)
      PROVE  NoticeInCall'
  <2>1. NotifyState' = [NotifyState EXCEPT ![u] = "received"]
    BY <1>6 DEF NotifyFromISR, SetNotification
  <2>2. CASE Waiting(u)
    <3>1. EventList' \in {EventList, [EventList EXCEPT ![u] = "PendingReady"]}
      BY <1>6, <2>2, WakeEffect DEF NotifyFromISR, Waiting
    <3> QED
      BY <1>6, <2>1, <2>2, <3>1, NoticeKept DEF NotifyFromISR, callVars, NoticeInCall
  <2>3. CASE ~Waiting(u)
    BY <1>6, <2>1, <2>3, NoticeKept DEF NotifyFromISR, callVars, Waiting, listVars
  <2> QED
    BY <2>2, <2>3
<1>7. CASE IdleCleanUp
  BY <1>7 DEF IdleCleanUp, Leave, Live, switchVars, NoticeInCall, Waiting, noticeVars
<1> QED
  BY <1>1, <1>2, <1>3, <1>4, <1>5, <1>6, <1>7 DEF Interrupt

\* A step that keeps who waits and who is blocked, and moves no AbortDelay.
LEMMA BlockedKept ==
  ASSUME EventWaitersBlocked, UNCHANGED <<CurrentTCB, pc, target>>,
         \A u \in Task : \/ EventList'[u] # "waiting"
                         \/ /\ EventList[u] = "waiting"
                            /\ Blocked(u) => Blocked(u)'
  PROVE  EventWaitersBlocked'
  BY DEF EventWaitersBlocked, Blocked, Delayed, AbortUnderWay

\* ... or that moves them while there is no AbortDelay between its halves.
LEMMA BlockedKeptOutside ==
  ASSUME EventWaitersBlocked, pc[CurrentTCB] \notin AbortUnderWay,
         \A u \in Task : \/ EventList'[u] # "waiting"
                         \/ /\ EventList[u] = "waiting"
                            /\ Blocked(u) => Blocked(u)'
  PROVE  EventWaitersBlocked'
  BY DEF EventWaitersBlocked, Blocked, Delayed

\* The steps inside the kernel keep those that wait for an event blocked.
LEMMA KernelStepBlocked == ASSUME ListInv, NEW t \in Task, KernelStep(t) PROVE EventWaitersBlocked'
<1> USE DEF ListInv, TypeInv, TypeOK, At, ListType
<1>0. CurrentTCB = t /\ UNCHANGED CurrentTCB
  BY KernelFrame
<1>1. CASE DelayEnlist(t) \/ NotifyEnlist(t)
  BY <1>0, <1>1, RunnerIsReady, BlockEffect, Apart, BlockedKeptOutside DEF DelayEnlist, NotifyEnlist,
     SuspendedSection, Blocked, AbortUnderWay
<1>2. CASE DelayUntilEnlist(t)
  BY <1>0, <1>2, DelayUntilEffect, BlockEffect, Apart, BlockedKeptOutside DEF DelayUntilEnlist, Blocked,
     AbortUnderWay
<1>3. CASE PlaceOnEventList(t)
  <2>1. EventList[t] = "none" /\ StateList[t] \in Prio /\ CurrentTCB = t
    BY <1>3, RunnerIsReady DEF PlaceOnEventList, NoticeInCall, SuspendedSection
  <2>2. CASE DelayAborted[t]
    BY <1>0, <1>3, <2>2, BlockedKeptOutside DEF PlaceOnEventList, listVars, AbortUnderWay, Blocked
  <2>3. CASE ~DelayAborted[t]
    <3>1. PICK L \in {DelayedTasks, OverflowDelayed, SuspendedTasks} :
            StateList' = [StateList EXCEPT ![t] = L]
      BY <1>3, <2>1, <2>3, BlockEffect DEF PlaceOnEventList
    <3> QED
      BY <1>0, <1>3, <2>3, <3>1 DEF PlaceOnEventList, EventWaitersBlocked, Delayed, AbortUnderWay
  <2> QED
    BY <2>2, <2>3
<1>4. CASE NotifyTest(t) \/ NotifyReturn(t) \/ ResumeAllReturn(t) \/ YieldWithinApi(t)
           \/ UnlockScheduler(t) \/ CatchUpPend(t) \/ AbortGetState(t) \/ AbortTestEvent(t)
           \/ AbortTestNotify(t) \/ TaskSuspendFinish(t) \/ TaskCreateFinish(t)
  BY <1>0, <1>4, BlockedKeptOutside DEF NotifyTest, NotifyReturn, ResumeAllReturn, YieldWithinApi,
     UnlockScheduler, CatchUpPend, AbortGetState, AbortTestEvent, AbortTestNotify,
     TaskSuspendFinish, TaskCreateFinish, listVars, AbortUnderWay, Blocked
<1>5. CASE ResumeAll(t)
  BY <1>0, <1>5, ResumeEffect, BlockedKeptOutside DEF AbortUnderWay, Blocked, PendingReady
<1>6. CASE ReplayTick(t)
  BY <1>0, <1>6, TickEffect, BlockedKeptOutside DEF ReplayTick, AbortUnderWay, EnsureRemoved, Blocked,
     Delayed
<1>7. CASE AbortRemove(t)
  BY <1>0, <1>7 DEF AbortRemove, EventWaitersBlocked, Goto, AbortUnderWay, Delayed, CallType
<1>8. CASE AbortEvent(t)
  BY <1>0, <1>8 DEF AbortEvent, EventWaitersBlocked, Goto, AbortUnderWay, Delayed, CallType,
     EventUnlinked
<1>9. CASE AbortReady(t)
  <2>1. EventList[target[t]] # "waiting"
    BY <1>9 DEF AbortReady, AbortHolds
  <2> QED
    BY <1>0, <1>9, <2>1 DEF AbortReady, EventWaitersBlocked, Delayed
<1> QED
  BY <1>1, <1>2, <1>3, <1>4, <1>5, <1>6, <1>7, <1>8, <1>9 DEF KernelStep

\* So do the first steps of the calls.
LEMMA ApiCallBlocked == ASSUME ListInv, NEW t \in Task, ApiCall(t) PROVE EventWaitersBlocked'
<1> USE DEF ListInv, TypeInv, TypeOK, ListType, CallType
<1>0. pc[CurrentTCB] \notin AbortUnderWay
  BY ApiFrame DEF AbortUnderWay
<1>1. CASE Delay(t) \/ DelayUntil(t) \/ WaitEvent(t) \/ NotifyTake(t) \/ NotifyWait(t)
             \/ LockScheduler(t) \/ CatchUpTicks(t) \/ AbortDelay(t)
  BY <1>0, <1>1, BlockedKeptOutside DEF Delay, DelayUntil, WaitEvent, NotifyTake, NotifyWait,
     LockScheduler, CatchUpTicks, AbortDelay, SuspendAllFor, listVars, Blocked
<1>2. CASE TaskDeleteSelf(t)
  BY <1>0, <1>2, BlockedKeptOutside DEF TaskDeleteSelf, EnsureRemoved, Blocked
<1>3. CASE SignalEvent(t)
  BY <1>0, <1>3, RemoveEffect, BlockedKeptOutside DEF SignalEvent, Blocked
<1>4. ASSUME NEW u \in Task, TaskSuspend(t, u) PROVE EventWaitersBlocked'
  BY <1>0, <1>4, BlockedKeptOutside DEF TaskSuspend, EnsureRemoved, Blocked
<1>5. ASSUME NEW u \in Task, TaskDelete(t, u) PROVE EventWaitersBlocked'
  BY <1>0, <1>5, BlockedKeptOutside DEF TaskDelete, EnsureRemoved, Blocked
<1>6. ASSUME NEW u \in Task, TaskResume(t, u) PROVE EventWaitersBlocked'
  BY <1>0, <1>6, BlockedKeptOutside DEF TaskResume, MakeReady, Suspended, Blocked
<1>7. ASSUME NEW u \in Task, NotifyStateClear(t, u) PROVE EventWaitersBlocked'
  BY <1>0, <1>7, BlockedKeptOutside DEF NotifyStateClear, listVars, Blocked
<1>8. ASSUME NEW u \in Task, TaskCreate(t, u) PROVE EventWaitersBlocked'
  BY <1>0, <1>8, CreateEffect, BlockedKeptOutside DEF TaskCreate, Blocked
<1>9. ASSUME NEW u \in Task, NEW p \in Prio, TaskPrioritySet(t, u, p) PROVE EventWaitersBlocked'
  BY <1>0, <1>9, BlockedKeptOutside, Apart DEF TaskPrioritySet, Blocked
<1>10. ASSUME NEW u \in Task, NEW a \in NotifyAction, NEW v \in ValuesFor(a),
              GenericNotify(t, u, a, v)
       PROVE  EventWaitersBlocked'
  BY <1>0, <1>10, BlockedKeptOutside DEF GenericNotify, MakeReady, Blocked, NoticeInCall, Waiting
<1> QED
  BY <1>1, <1>2, <1>3, <1>4, <1>5, <1>6, <1>7, <1>8, <1>9, <1>10 DEF ApiCall

\* So do start-up, the interrupts and the idle task.
LEMMA OutsideTasksBlocked ==
  ASSUME ListInv, Start \/ Interrupt \/ IdleCleanUp \/ IdleYield PROVE EventWaitersBlocked'
<1> USE DEF ListInv, TypeInv, TypeOK, ListType, CallType
<1>1. CASE Start
  <2>1. \A u \in Task : EventList[u] # "waiting"
    <3>1. \A u \in Task : pc[u] \in {"uncreated", "run"} /\ StateList[u] \in Prio \cup {NoList}
      BY <1>1 DEF Start, TaskStartScheduler, TaskCreateBeforeStart, SectionInv, QuietBeforeStart,
         Booted
    <3>2. CurrentTCB # NULL => pc[CurrentTCB] = "run"
      BY <3>1 DEF Booted, SwitchType
    <3> QED
      BY <3>1, <3>2, Apart DEF EventWaitersBlocked, AbortUnderWay, Delayed, Booted, NoTaskLost
  <2> QED
    BY <1>1, <2>1, CreateEffect, SchedulerAssumption DEF Start, TaskStartScheduler,
       TaskCreateBeforeStart, EventWaitersBlocked
<1>2. CASE TickISR
  <2>1. CASE SchedulerSuspended
    BY <1>2, <2>1, BlockedKept DEF TickISR, callVars, listVars, Blocked
  <2>2. CASE ~SchedulerSuspended
    BY <1>2, <2>2, TickEffect, BlockedKept DEF TickISR, callVars, EnsureRemoved, Blocked, Delayed
  <2> QED
    BY <2>1, <2>2
<1>3. CASE SignalFromISR
  BY <1>3, RemoveEffect, BlockedKept DEF SignalFromISR, callVars, Blocked
<1>4. CASE SwitchContext
  <2>1. CASE SchedulerSuspended
    BY <1>4, <2>1, BlockedKept DEF SwitchContext, listVars, callVars, Blocked
  <2>2. CASE ~SchedulerSuspended
    <3>1. pc[CurrentTCB] \notin AbortUnderWay
      BY <1>4, <2>2 DEF SwitchContext, InterruptsEnabled, SwitchType, SectionInv,
         SuspendedSectionsExclusive, SuspendedSection, AbortUnderWay
    <3> QED
      BY <1>4, <3>1, BlockedKeptOutside DEF SwitchContext, listVars, Blocked
  <2> QED
    BY <2>1, <2>2
<1>5. CASE IdleYield
  BY <1>5, BlockedKept DEF IdleYield, listVars, callVars, Blocked
<1>6. ASSUME NEW u \in Task, TaskResumeFromISR(u) PROVE EventWaitersBlocked'
  BY <1>6, WakeEffect, BlockedKept DEF TaskResumeFromISR, callVars, Blocked
<1>7. ASSUME NEW u \in Task, NEW a \in NotifyAction, NEW v \in ValuesFor(a), NotifyFromISR(u, a, v)
      PROVE  EventWaitersBlocked'
  BY <1>7, WakeEffect, BlockedKept DEF NotifyFromISR, listVars, Waiting, callVars, Blocked
<1>8. CASE IdleCleanUp
  BY <1>8, BlockedKeptOutside DEF IdleCleanUp, At, Runs, AbortUnderWay, Blocked, NoTaskLost,
     WaitersLive, Live
<1> QED
  BY <1>1, <1>2, <1>3, <1>4, <1>5, <1>6, <1>7, <1>8 DEF Interrupt

-----------------------------------------------------------------------------
(* The invariant is inductive. *)

\* It holds before the first task is created.
LEMMA ListInvInit == Init => ListInv
<1> SUFFICES ASSUME Init PROVE ListInv
  OBVIOUS
<1>1. TypeInv /\ SectionInv
  BY TypeInvInit, SectionInvInit
<1> USE DEF Init
<1>2. Booted /\ RunnerReady
  BY SchedulerAssumption, Apart DEF Booted, RunnerReady
<1>3. ReadyListsExact /\ NoTaskLost /\ NotCorrupt
  BY Apart DEF ReadyListsExact, NoTaskLost, NotCorrupt, Live
<1>4. AbortHolds /\ WaitersLive /\ NoticeInCall /\ EventWaitersBlocked
  BY DEF AbortHolds, AbortSteps, AbortUnderWay, WaitersLive, NoticeInCall, Waiting, Live,
     EventWaitersBlocked
<1> QED
  BY <1>1, <1>2, <1>3, <1>4 DEF ListInv

\* Every step keeps it.
LEMMA ListInvStep == ListInv /\ [Next]_vars => ListInv'
<1> SUFFICES ASSUME ListInv, [Next]_vars PROVE ListInv'
  OBVIOUS
<1>1. CASE Next
  <2>1. TypeInv' /\ SectionInv' /\ Booted'
    BY <1>1, TypeInvStep, SectionInvStep, BootedStep DEF ListInv
  <2>2. \/ \E t \in Task : KernelStep(t) \/ ApiCall(t)
        \/ Start \/ Interrupt \/ IdleCleanUp \/ IdleYield
    BY <1>1 DEF Next
  <2>3. ReadyListsExact' /\ NotCorrupt' /\ NoTaskLost'
    BY <2>2, KernelStepReady, ApiCallReady, OutsideTasksReady, KernelStepLinks, ApiCallLinks,
       OutsideTasksLinks, KernelStepLost, ApiCallLost, OutsideTasksLost
  <2>4. RunnerReady' /\ AbortHolds'
    BY <2>2, KernelStepRunner, ApiCallRunner, OutsideTasksRunner, KernelStepHolds, ApiCallHolds,
       OutsideTasksHolds
  <2>5. WaitersLive' /\ NoticeInCall' /\ EventWaitersBlocked'
    BY <2>2, KernelStepWaiters, ApiCallWaiters, OutsideTasksWaiters, KernelStepNotice,
       ApiCallNotice, OutsideTasksNotice, KernelStepBlocked, ApiCallBlocked, OutsideTasksBlocked
  <2> QED
    BY <2>1, <2>3, <2>4, <2>5 DEF ListInv
<1>2. CASE UNCHANGED vars
  <2>1. TypeInv' /\ SectionInv'
    BY <1>2, TypeInvStep, SectionInvStep DEF ListInv
  <2> QED
    BY <1>2, <2>1 DEF vars, listVars, prioVars, timeVars, switchVars, countVars, noticeVars, callVars,
       ListInv, Booted, ReadyListsExact, NoTaskLost, NotCorrupt, RunnerReady, ReadyIn, AbortHolds,
       Blocked, WaitersLive, NoticeInCall, Waiting, EventWaitersBlocked, Delayed, Live
<1> QED
  BY <1>1, <1>2

\* The bit map tells exactly which ready lists hold a task, and a ready task is in the list
\* of its own priority, whatever calls, ISRs and priority changes come in whatever order.
THEOREM ReadyListsAreExact == Spec => []ReadyListsExact
<1>1. ListInv => ReadyListsExact
  BY DEF ListInv
<1> QED
  BY <1>1, ListInvInit, ListInvStep, PTL DEF Spec

\* No interleaving of calls, ISRs and the halves of an AbortDelay appends a list item that is
\* still linked or removes one that is not, and no live task drops out of the lists.
THEOREM LinksStayIntact == Spec => []ListsIntact
<1>1. ListInv => ListsIntact
  BY DEF ListInv, ListsIntact, NotCorrupt
<1> QED
  BY <1>1, ListInvInit, ListInvStep, PTL DEF Spec

\* A task in an event list is blocked, never ready: a timeout, a suspension, a deletion, a
\* notification and an AbortDelay all take it off the event list too.
THEOREM WaitersAreBlocked == Spec => []EventWaitersBlocked
<1>1. ListInv => EventWaitersBlocked
  BY DEF ListInv
<1> QED
  BY <1>1, ListInvInit, ListInvStep, PTL DEF Spec

-----------------------------------------------------------------------------
(* The highest priority task runs. *)

\* Unless a switch is due no ready task outranks the running one; the one that it creates is
\* looked at by the end of its call.
Outranked(t) ==
  /\ StateList[t] > Priority[CurrentTCB]
  /\ ~(pc[CurrentTCB] = "created" /\ t = target[CurrentTCB])
Ranked == CurrentTCB # NULL => YieldPending \/ yieldReq \/ \A t \in Task : ~Outranked(t)
\* A task that has created another one knows which.
CreatedKnown == \A t \in Task : pc[t] = "created" => target[t] \in Task
RankInv == Ranked /\ CreatedKnown

\* A list that is not a ready list is below every priority.
LEMMA Below ==
  /\ \A c \in StateContainer : c \in Int /\ (c \notin Prio => c < 0)
  /\ \A p \in Prio : p \in Int /\ 0 <= p
  BY SchedulerAssumption DEF StateContainer, Prio, NoList, DelayedTasks, OverflowDelayed, SuspendedTasks,
     TasksWaitingTermination, Corrupt

\* A step of the running task or of an ISR that makes no task ready without looking at its
\* priority, and drops no request to switch.
LEMMA RankedKept ==
  ASSUME ListInv, Ranked, ListType', UNCHANGED CurrentTCB,
         YieldPending \/ yieldReq => YieldPending' \/ yieldReq',
         CurrentTCB # NULL =>
           /\ Priority'[CurrentTCB] = Priority[CurrentTCB]
           /\ pc[CurrentTCB] = "created" =>
                pc'[CurrentTCB] = "created" /\ target'[CurrentTCB] = target[CurrentTCB],
         \A u \in Task : \/ StateList'[u] = StateList[u]
                         \/ StateList'[u] \notin Prio
                         \/ /\ StateList'[u] = Priority[u]
                            /\ Preempts(u) => YieldPending' \/ yieldReq'
  PROVE  Ranked'
<1> SUFFICES ASSUME CurrentTCB # NULL, ~YieldPending', ~yieldReq', NEW u \in Task, Outranked(u)'
             PROVE  FALSE
  BY DEF Ranked
<1>1. CurrentTCB \in Task
  BY DEF ListInv, TypeInv, TypeOK, SwitchType
<1>2. ~Outranked(u)
  BY DEF Ranked
<1>3. /\ StateList'[u] > Priority[CurrentTCB]
      /\ ~(pc[CurrentTCB] = "created" /\ u = target[CurrentTCB])
  BY DEF Outranked
<1>4. StateList'[u] \in Prio
  BY <1>1, <1>3, Below DEF ListType, ListInv, TypeInv, TypeOK
<1>5. StateList'[u] # StateList[u]
  BY <1>2, <1>3 DEF Outranked
<1> QED
  BY <1>3, <1>4, <1>5 DEF Preempts

\* The steps inside the kernel keep the running task in front.
LEMMA KernelStepRanked == ASSUME ListInv, RankInv, NEW t \in Task, KernelStep(t) PROVE Ranked'
<1> USE DEF RankInv, At, Runs
<1>0. CurrentTCB = t /\ UNCHANGED CurrentTCB /\ ~yieldReq /\ ListType'
  BY KernelFrame, KernelStepType DEF ListInv, TypeOK
<1>1. CASE DelayEnlist(t) \/ NotifyEnlist(t)
  <2>1. PICK L \in {DelayedTasks, OverflowDelayed, SuspendedTasks} :
          StateList' = [StateList EXCEPT ![t] = L]
    BY <1>0, <1>1, RunnerIsReady, BlockEffect DEF DelayEnlist, NotifyEnlist, SuspendedSection
  <2>2. UNCHANGED <<Priority, YieldPending, yieldReq>> /\ pc[t] # "created"
    BY <1>1 DEF DelayEnlist, NotifyEnlist, switchVars
  <2> QED
    BY <1>0, <2>1, <2>2, Apart, RankedKept DEF ListInv, TypeInv, TypeOK, ListType
<1>2. CASE DelayUntilEnlist(t)
  BY <1>0, <1>2, DelayUntilEffect, BlockEffect, Apart, RankedKept DEF DelayUntilEnlist, switchVars,
     ListInv, TypeInv, TypeOK, ListType
<1>3. CASE PlaceOnEventList(t)
  <2>1. StateList[t] \in Prio
    BY <1>0, <1>3, RunnerIsReady DEF PlaceOnEventList, SuspendedSection
  <2> QED
    BY <1>0, <1>3, <2>1, BlockEffect, Apart, RankedKept DEF PlaceOnEventList, listVars, switchVars,
       ListInv, TypeInv, TypeOK, ListType
<1>4. CASE NotifyTest(t) \/ NotifyReturn(t) \/ UnlockScheduler(t) \/ CatchUpPend(t)
           \/ AbortGetState(t) \/ AbortTestEvent(t) \/ AbortTestNotify(t) \/ AbortEvent(t)
  BY <1>0, <1>4, RankedKept DEF NotifyTest, NotifyReturn, UnlockScheduler, CatchUpPend,
     AbortGetState, AbortTestEvent, AbortTestNotify, AbortEvent, listVars, prioVars, switchVars
<1>5. CASE ResumeAllReturn(t) \/ TaskSuspendFinish(t)
  BY <1>0, <1>5, RankedKept DEF ResumeAllReturn, TaskSuspendFinish, listVars, prioVars
<1>6. CASE YieldWithinApi(t)
  BY <1>6 DEF YieldWithinApi, Ranked
<1>7. CASE ResumeAll(t)
  BY <1>0, <1>7, ResumeEffect, RankedKept
<1>8. CASE ReplayTick(t)
  <2>1. PICK switch \in BOOLEAN :
          IncrementTick(switch) /\ YieldPending' = (YieldPending \/ switch)
    BY <1>8 DEF ReplayTick
  <2>2. PICK due \in SUBSET Task :
          /\ \A u \in due : Delayed(u) /\ StateList'[u] = Priority[u]
          /\ \A u \in Task \ due : StateList'[u] = StateList[u] \/ Delayed(u)'
          /\ YieldPending \/ (\E u \in due : Preempts(u)) => switch
          /\ UNCHANGED Priority
    BY <2>1, TickEffect DEF ListInv, TypeInv, TypeOK
  <2>3. UNCHANGED <<pc, target>>
    BY <1>8 DEF ReplayTick, callVars
  <2>4. \A u \in Task : Delayed(u)' => StateList'[u] \notin Prio
    BY Apart DEF Delayed
  <2> QED
    BY <1>0, <2>1, <2>2, <2>3, <2>4, RankedKept
<1>9. CASE AbortRemove(t)
  BY <1>0, <1>9, Apart, RankedKept DEF AbortRemove, Unlinked, prioVars, switchVars, ListInv, TypeInv, TypeOK,
     ListType
<1>10. CASE AbortReady(t)
  <2>1. StateList[target[t]] = NoList
    BY <1>10 DEF AbortReady, ListInv, AbortHolds, AbortUnderWay
  <2> QED
    BY <1>0, <1>10, <2>1, Apart, RankedKept DEF AbortReady, Appended, ListInv, TypeInv, TypeOK, ListType
<1>11. CASE TaskCreateFinish(t)
  <2>1. \A u \in Task : StateList[u] \in Prio => pc[u] # "uncreated" /\ StateList[u] = Priority[u]
    BY Apart DEF ListInv, NoTaskLost, ReadyListsExact
  <2>2. \A u \in Task : StateList[u] > Priority[t] => StateList[u] \in Prio
    BY Below DEF ListInv, TypeInv, TypeOK, ListType
  <2>3. StateList[target[t]] > Priority[t] => yieldReq'
    BY <1>0, <1>11, <2>1, <2>2 DEF TaskCreateFinish, CreatedKnown, Preempts
  <2>4. UNCHANGED <<StateList, Priority, YieldPending>>
    BY <1>11 DEF TaskCreateFinish, listVars, prioVars
  <2> QED
    BY <1>0, <1>11, <2>3, <2>4 DEF Ranked, Outranked
<1> QED
  BY <1>1, <1>2, <1>3, <1>4, <1>5, <1>6, <1>7, <1>8, <1>9, <1>10, <1>11 DEF KernelStep

\* So do the first steps of the calls.
LEMMA ApiCallRanked == ASSUME ListInv, RankInv, NEW t \in Task, ApiCall(t) PROVE Ranked'
<1> USE DEF RankInv, CallsApi, CallsApiLocked, At, Runs
<1>0. /\ CurrentTCB = t /\ UNCHANGED CurrentTCB /\ ~yieldReq /\ ListType'
      /\ pc[t] \in {"run", "locked"} /\ StateList[t] \in Prio /\ StateList[t] = Priority[t]
  BY ApiFrame, ApiCallType, RunnerIsReady DEF ListInv, TypeOK, SuspendedSection
<1>1. CASE Delay(t) \/ DelayUntil(t) \/ WaitEvent(t) \/ NotifyTake(t) \/ NotifyWait(t)
             \/ LockScheduler(t) \/ CatchUpTicks(t) \/ AbortDelay(t)
  BY <1>0, <1>1, RankedKept DEF Delay, DelayUntil, WaitEvent, NotifyTake, NotifyWait,
     LockScheduler, CatchUpTicks, AbortDelay, SuspendAllFor, listVars, prioVars
<1>2. CASE TaskDeleteSelf(t)
  BY <1>2 DEF TaskDeleteSelf, Ranked
<1>3. CASE SignalEvent(t)
  <2>1. PICK u \in Task : RemoveFromEventList(u)
    BY <1>3 DEF SignalEvent
  <2>2. /\ YieldPending => YieldPending'
        /\ Preempts(u) => YieldPending'
        /\ StateList' \in {StateList, [StateList EXCEPT ![u] = Priority[u]]}
    BY <2>1, RemoveEffect
  <2>3. UNCHANGED <<Priority, pc>>
    BY <1>3 DEF SignalEvent, callVars
  <2> QED
    BY <1>0, <2>2, <2>3, RankedKept DEF ListInv, TypeInv, TypeOK, ListType
<1>4. ASSUME NEW u \in Task, TaskSuspend(t, u) PROVE Ranked'
  BY <1>0, <1>4, Apart, RankedKept DEF TaskSuspend, Relinked, switchVars, ListInv, TypeInv, TypeOK,
     ListType
<1>5. ASSUME NEW u \in Task, TaskResume(t, u) PROVE Ranked'
  BY <1>0, <1>5, Apart, RankedKept DEF TaskResume, MakeReady, Relinked, ListInv, TypeInv, TypeOK,
     ListType
<1>6. ASSUME NEW u \in Task, TaskDelete(t, u) PROVE Ranked'
  BY <1>0, <1>6, Apart, RankedKept DEF TaskDelete, Unlinked, switchVars, ListInv, TypeInv, TypeOK,
     ListType
<1>7. ASSUME NEW u \in Task, TaskCreate(t, u) PROVE Ranked'
  <2>1. /\ pc[u] = "uncreated" /\ u # t /\ UNCHANGED <<YieldPending, yieldReq>>
        /\ Priority'[t] = Priority[t] /\ pc'[t] = "created" /\ target'[t] = u
        /\ \A v \in Task \ {u} : StateList'[v] = StateList[v]
    BY <1>0, <1>7, CreateEffect DEF TaskCreate, ListInv, TypeInv, TypeOK, ListType, CallType
  <2> QED
    BY <1>0, <2>1 DEF Ranked, Outranked
<1>8. ASSUME NEW u \in Task, NotifyStateClear(t, u) PROVE Ranked'
  BY <1>0, <1>8, RankedKept DEF NotifyStateClear, listVars, prioVars, switchVars
<1>9. ASSUME NEW u \in Task, NEW p \in Prio, TaskPrioritySet(t, u, p) PROVE Ranked'
  <2>1. CASE u = t
    <3>1. /\ Priority'[t] = p /\ UNCHANGED YieldPending /\ p # Priority[t] /\ UNCHANGED <<pc, target>>
          /\ StateList'[t] = p /\ \A v \in Task \ {t} : StateList'[v] = StateList[v]
      BY <1>0, <1>9, <2>1 DEF TaskPrioritySet, ListInv, TypeInv, TypeOK, ListType, callVars
    <3>2. ~(p > Priority[t]) => yieldReq'
      BY <1>9, <2>1 DEF TaskPrioritySet
    <3> QED
      BY <1>0, <3>1, <3>2, Below DEF Ranked, Outranked, ListInv, TypeInv, TypeOK, ListType
  <2>2. CASE u # t
    <3>1. /\ Priority'[t] = Priority[t] /\ UNCHANGED YieldPending /\ UNCHANGED <<pc, target>>
          /\ \A v \in Task \ {u} : StateList'[v] = StateList[v]
          /\ StateList'[u] \in {StateList[u], p}
          /\ StateList[u] = Priority[u] \/ StateList'[u] = StateList[u]
          /\ p > Priority[t] /\ p > Priority[u] => yieldReq'
      BY <1>0, <1>9, <2>2 DEF TaskPrioritySet, ListInv, TypeInv, TypeOK, ListType, callVars
    <3> QED
      BY <1>0, <3>1, Below DEF Ranked, Outranked, ListInv, TypeInv, TypeOK, ListType
  <2> QED
    BY <2>1, <2>2
<1>10. ASSUME NEW u \in Task, NEW a \in NotifyAction, NEW v \in ValuesFor(a),
              GenericNotify(t, u, a, v)
       PROVE  Ranked'
  BY <1>0, <1>10, Apart, RankedKept DEF GenericNotify, MakeReady, Relinked, ListInv, TypeInv,
     TypeOK, ListType, callVars
<1> QED
  BY <1>1, <1>2, <1>3, <1>4, <1>5, <1>6, <1>7, <1>8, <1>9, <1>10 DEF ApiCall

\* So do start-up, the interrupts and the idle task: an ISR that wakes a task that outranks
\* the running one leaves word in YieldPending even if it asks for no switch.
LEMMA OutsideTasksRanked ==
  ASSUME ListInv, RankInv, Start \/ Interrupt \/ IdleCleanUp \/ IdleYield PROVE Ranked'
<1> USE DEF RankInv
<1>0. ListType'
  BY OutsideTasksType DEF ListInv, TypeOK
<1>1. CASE Start
  <2>1. PICK u \in Task : /\ AddNewTaskToReadyList(u, NULL, "run") /\ ~SchedulerRunning
                          /\ UNCHANGED <<YieldPending, yieldReq, target>>
    BY <1>1, SchedulerAssumption DEF Start, TaskStartScheduler, TaskCreateBeforeStart
  <2>2. \A v \in Task : pc[v] \in {"uncreated", "run"}
    BY <2>1 DEF ListInv, SectionInv, QuietBeforeStart
  <2>3. CASE CurrentTCB = NULL
    <3>1. \A v \in Task : pc[v] = "uncreated" /\ StateList[v] = NoList
      BY <2>3 DEF ListInv, Booted, NoTaskLost
    <3>2. /\ CurrentTCB' = u /\ Priority'[u] = CreatePriority[u] /\ StateList'[u] = CreatePriority[u]
          /\ CreatePriority[u] \in Prio
          /\ \A v \in Task \ {u} : StateList'[v] = NoList
      BY <2>1, <2>3, <3>1, CreateEffect DEF ListInv, TypeInv, TypeOK, ListType
    <3> QED
      BY <3>2, Below, Apart DEF Ranked, Outranked
  <2>4. CASE CurrentTCB # NULL
    <3>1. CurrentTCB \in Task /\ pc[CurrentTCB] = "run" /\ u # CurrentTCB
      BY <2>1, <2>2, <2>4, CreateEffect DEF ListInv, TypeInv, TypeOK, SwitchType, Booted
    <3>2. /\ Priority'[u] = CreatePriority[u] /\ StateList'[u] = CreatePriority[u]
          /\ CreatePriority[u] \in Prio /\ Priority'[CurrentTCB] = Priority[CurrentTCB]
          /\ \A v \in Task \ {u} : StateList'[v] = StateList[v]
          /\ Priority[CurrentTCB] \in Prio /\ StateList \in [Task -> StateContainer]
      BY <2>1, <3>1, CreateEffect DEF ListInv, TypeInv, TypeOK, ListType
    <3>3. CurrentTCB' = IF Priority[CurrentTCB] <= CreatePriority[u] THEN u ELSE CurrentTCB
      BY <2>1, <2>4 DEF AddNewTaskToReadyList
    <3>4. YieldPending \/ yieldReq \/ \A v \in Task : StateList[v] <= Priority[CurrentTCB]
      BY <2>4, <3>1, <3>2, Below DEF Ranked, Outranked
    <3> QED
      BY <2>1, <3>1, <3>2, <3>3, <3>4, Below DEF Ranked, Outranked
  <2> QED
    BY <2>3, <2>4
<1>2. CASE TickISR
  <2>1. CASE SchedulerSuspended
    BY <1>0, <1>2, <2>1, RankedKept DEF TickISR, callVars, listVars, prioVars
  <2>2. CASE ~SchedulerSuspended
    <3>1. PICK switch \in BOOLEAN : IncrementTick(switch) /\ yieldReq' = (yieldReq \/ switch)
      BY <1>2, <2>2 DEF TickISR
    <3>2. PICK due \in SUBSET Task :
            /\ \A u \in due : Delayed(u) /\ StateList'[u] = Priority[u]
            /\ \A u \in Task \ due : StateList'[u] = StateList[u] \/ Delayed(u)'
            /\ YieldPending \/ (\E u \in due : Preempts(u)) => switch
            /\ UNCHANGED Priority
      BY <3>1, TickEffect DEF ListInv, TypeInv, TypeOK
    <3>3. UNCHANGED <<pc, target, CurrentTCB>>
      BY <1>2 DEF TickISR, callVars
    <3>4. \A u \in Task : Delayed(u)' => StateList'[u] \notin Prio
      BY Apart DEF Delayed
    <3> QED
      BY <1>0, <3>1, <3>2, <3>3, <3>4, RankedKept
  <2> QED
    BY <2>1, <2>2
<1>3. CASE SignalFromISR
  <2>1. PICK u \in Task : RemoveFromEventList(u) /\ MayRequestSwitch(Preempts(u))
    BY <1>3 DEF SignalFromISR
  <2>2. yieldReq => yieldReq'
    BY <2>1 DEF MayRequestSwitch
  <2>3. UNCHANGED <<pc, target, Priority, CurrentTCB>>
    BY <1>3 DEF SignalFromISR, callVars
  <2>4. /\ YieldPending' = (YieldPending \/ Preempts(u))
        /\ \/ StateList' = StateList
           \/ StateList' = [StateList EXCEPT ![u] = Priority[u]]
    BY <2>1, RemoveEffect
  <2>5. \A v \in Task : \/ StateList'[v] = StateList[v]
                       \/ /\ StateList'[v] = Priority[v]
                          /\ Preempts(v) => YieldPending'
    BY <2>4 DEF ListInv, TypeInv, TypeOK, ListType
  <2> QED
    BY <1>0, <2>2, <2>3, <2>4, <2>5, RankedKept
<1>4. CASE SwitchContext
  <2>1. CASE SchedulerSuspended
    BY <1>4, <2>1 DEF SwitchContext, Ranked
  <2>2. CASE ~SchedulerSuspended
    <3>1. /\ CurrentTCB' \in Task /\ UNCHANGED <<StateList, Priority>>
          /\ \A v \in Task : StateList[v] \in Prio => StateList[v] <= Priority[CurrentTCB']
      BY <1>4, <2>2, SelectEffect DEF SwitchContext, listVars, prioVars
    <3>2. \A v \in Task : StateList'[v] \in Int /\ Priority'[v] \in Int
                          /\ (StateList[v] \notin Prio => StateList[v] < Priority[CurrentTCB'])
      BY <3>1, Below DEF ListInv, TypeInv, TypeOK, ListType
    <3> QED
      BY <3>1, <3>2 DEF Ranked, Outranked
  <2> QED
    BY <2>1, <2>2
<1>5. CASE IdleYield
  BY <1>5 DEF IdleYield, Ranked
<1>6. ASSUME NEW u \in Task, TaskResumeFromISR(u) PROVE Ranked'
  <2>1. /\ yieldReq => yieldReq'
        /\ YieldPending => YieldPending'
        /\ ~SchedulerSuspended /\ Preempts(u) => YieldPending'
    BY <1>6 DEF TaskResumeFromISR, MayRequestSwitch
  <2>2. \/ UNCHANGED StateList
        \/ ~SchedulerSuspended /\ StateList' = [StateList EXCEPT ![u] = Priority[u]]
    BY <1>6, WakeEffect DEF TaskResumeFromISR
  <2>3. UNCHANGED <<Priority, pc, target, CurrentTCB>>
    BY <1>6 DEF TaskResumeFromISR, callVars
  <2>4. \A w \in Task : \/ StateList'[w] = StateList[w]
                        \/ StateList'[w] \notin Prio
                        \/ /\ StateList'[w] = Priority[w]
                           /\ Preempts(w) => YieldPending' \/ yieldReq'
    BY <2>1, <2>2 DEF ListInv, TypeInv, TypeOK, ListType
  <2> QED
    BY <1>0, <2>1, <2>3, <2>4, RankedKept
<1>7. ASSUME NEW u \in Task, NEW a \in NotifyAction, NEW v \in ValuesFor(a), NotifyFromISR(u, a, v)
      PROVE  Ranked'
  <2>1. CASE Waiting(u)
    <3>1. yieldReq => yieldReq'
      BY <1>7 DEF NotifyFromISR, MayRequestSwitch
    <3>2. WakeFromISR(u) /\ YieldPending' = (YieldPending \/ Preempts(u))
      BY <1>7, <2>1 DEF NotifyFromISR, Waiting
    <3> QED
      BY <1>0, <1>7, <2>1, <3>1, <3>2, WakeEffect, RankedKept DEF NotifyFromISR, callVars, Waiting,
         ListInv, TypeInv, TypeOK, ListType
  <2>2. CASE ~Waiting(u)
    BY <1>0, <1>7, <2>2, RankedKept DEF NotifyFromISR, listVars, callVars, Waiting
  <2> QED
    BY <2>1, <2>2
<1>8. CASE IdleCleanUp
  BY <1>0, <1>8, Apart, RankedKept, SchedulerAssumption DEF IdleCleanUp, At, Runs, Leave,
     switchVars, prioVars, Unlinked, ListInv, TypeInv, TypeOK, ListType
<1> QED
  BY <1>1, <1>2, <1>3, <1>4, <1>5, <1>6, <1>7, <1>8 DEF Interrupt

\* A task is about to look at a task it created only when it has created one.
LEMMA CreatedKnownStep == ASSUME TypeInv, ListInv, RankInv, Next PROVE CreatedKnown'
<1> USE DEF RankInv, CreatedKnown, TypeInv, TypeOK, CallType
<1>1. ASSUME NEW t \in Task, KernelStep(t) PROVE CreatedKnown'
  <2>1. pc'[t] # "created"
    <3> USE <1>1
    <3>1. CASE DelayEnlist(t) \/ DelayUntilEnlist(t) \/ PlaceOnEventList(t) \/ NotifyEnlist(t)
               \/ NotifyTest(t)
      BY <3>1 DEF DelayEnlist, DelayUntilEnlist, PlaceOnEventList, NotifyEnlist, NotifyTest
    <3>2. CASE NotifyReturn(t) \/ TaskSuspendFinish(t) \/ TaskCreateFinish(t)
      BY <3>2 DEF NotifyReturn, TaskSuspendFinish, TaskCreateFinish, Leave
    <3>3. CASE ResumeAll(t)
      BY <3>3 DEF ResumeAll, Continue, Goto, Leave
    <3>4. CASE ReplayTick(t)
      BY <3>4 DEF ReplayTick, callVars, At
    <3>5. CASE ResumeAllReturn(t) \/ YieldWithinApi(t)
      BY <3>5 DEF ResumeAllReturn, YieldWithinApi, Goto, Leave, Continue
    <3>6. CASE UnlockScheduler(t) \/ CatchUpPend(t) \/ AbortGetState(t) \/ AbortTestEvent(t)
               \/ AbortTestNotify(t)
      BY <3>6 DEF UnlockScheduler, CatchUpPend, AbortGetState, AbortTestEvent, AbortTestNotify, Goto
    <3>7. CASE AbortRemove(t) \/ AbortEvent(t) \/ AbortReady(t)
      BY <3>7 DEF AbortRemove, AbortEvent, AbortReady, Goto
    <3> QED
      BY <3>1, <3>2, <3>3, <3>4, <3>5, <3>6, <3>7 DEF KernelStep
  <2> QED
    BY <1>1, <2>1, KernelFrame
<1>2. ASSUME NEW t \in Task, ApiCall(t) PROVE CreatedKnown'
  <2>1. CASE Delay(t) \/ DelayUntil(t) \/ WaitEvent(t) \/ NotifyTake(t) \/ NotifyWait(t)
             \/ LockScheduler(t) \/ CatchUpTicks(t) \/ AbortDelay(t)
    BY <2>1 DEF Delay, DelayUntil, WaitEvent, NotifyTake, NotifyWait, LockScheduler, CatchUpTicks,
       AbortDelay, SuspendAllFor, Begin
  <2>2. CASE TaskDeleteSelf(t)
    BY <2>2 DEF TaskDeleteSelf, Leave
  <2>3. CASE SignalEvent(t)
    BY <2>3 DEF SignalEvent, callVars
  <2>4. ASSUME NEW u \in Task, TaskSuspend(t, u) \/ TaskResume(t, u) \/ NotifyStateClear(t, u)
        PROVE  CreatedKnown'
    BY <2>4 DEF TaskSuspend, TaskResume, NotifyStateClear, callVars
  <2>5. ASSUME NEW u \in Task, TaskDelete(t, u) PROVE CreatedKnown'
    BY <2>5 DEF TaskDelete, Leave
  <2>6. ASSUME NEW u \in Task, TaskCreate(t, u) PROVE CreatedKnown'
    BY <2>6, CreateEffect DEF TaskCreate
  <2>7. ASSUME NEW u \in Task, NEW p \in Prio, TaskPrioritySet(t, u, p) PROVE CreatedKnown'
    BY <2>7 DEF TaskPrioritySet, callVars
  <2>8. ASSUME NEW u \in Task, NEW a \in NotifyAction, NEW v \in ValuesFor(a),
               GenericNotify(t, u, a, v)
        PROVE  CreatedKnown'
    BY <2>8 DEF GenericNotify, callVars
  <2> QED
    BY <1>2, <2>1, <2>2, <2>3, <2>4, <2>5, <2>6, <2>7, <2>8 DEF ApiCall
<1>3. CASE Start
  <2>1. PICK u \in Task : AddNewTaskToReadyList(u, NULL, "run") /\ UNCHANGED target
    BY <1>3, SchedulerAssumption DEF Start, TaskStartScheduler, TaskCreateBeforeStart
  <2> QED
    BY <2>1, CreateEffect, SchedulerAssumption
<1>4. CASE TickISR \/ SignalFromISR \/ SwitchContext \/ IdleYield
  BY <1>4 DEF TickISR, SignalFromISR, SwitchContext, IdleYield, callVars
<1>5. ASSUME NEW u \in Task, TaskResumeFromISR(u) PROVE CreatedKnown'
  BY <1>5 DEF TaskResumeFromISR, callVars
<1>6. ASSUME NEW u \in Task, NEW a \in NotifyAction, NEW v \in ValuesFor(a), NotifyFromISR(u, a, v)
      PROVE  CreatedKnown'
  BY <1>6 DEF NotifyFromISR, callVars
<1>7. CASE IdleCleanUp
  BY <1>7 DEF IdleCleanUp, Leave
<1> QED
  BY <1>1, <1>2, <1>3, <1>4, <1>5, <1>6, <1>7 DEF Next, Interrupt

LEMMA RankInvInit == Init => RankInv
  BY SchedulerAssumption DEF Init, RankInv, Ranked, CreatedKnown

LEMMA RankInvStep == ListInv /\ RankInv /\ [Next]_vars => RankInv'
<1> SUFFICES ASSUME ListInv, RankInv, [Next]_vars PROVE RankInv'
  OBVIOUS
<1>1. CASE Next
  <2>1. Ranked'
    BY <1>1, KernelStepRanked, ApiCallRanked, OutsideTasksRanked DEF Next
  <2> QED
    BY <1>1, <2>1, CreatedKnownStep DEF RankInv, ListInv
<1>2. CASE UNCHANGED vars
  BY <1>2 DEF RankInv, Ranked, Outranked, CreatedKnown, vars, listVars, prioVars, switchVars, callVars
<1> QED
  BY <1>1, <1>2

\* Application code runs only in a ready task that no ready task outranks, unless a switch is
\* already asked for: whatever API calls tasks and ISRs make, in any order, none of them makes a
\* task ready, raises a task or lowers the running one and forgets the comparison; the tasks
\* that a tick, a resume or an unlocked queue makes ready included.
THEOREM HighestRuns == Spec => []HighestPriorityRuns
<1>1. ListInv /\ RankInv => HighestPriorityRuns
  <2> SUFFICES ASSUME ListInv, RankInv, InUserCode PROVE HighestPriorityRuns
    BY DEF HighestPriorityRuns
  <2>1. CurrentTCB \in Task /\ pc[CurrentTCB] = "run" /\ ~yieldReq
    BY DEF InUserCode, ListInv, Booted, TypeInv, TypeOK, SwitchType
  <2>2. StateList[CurrentTCB] = Priority[CurrentTCB]
    BY <2>1 DEF ListInv, RunnerReady, ReadyIn, ReadyListsExact
  <2>3. YieldPending \/ \A t \in Task : ~(StateList[t] > Priority[CurrentTCB])
    BY <2>1, SchedulerAssumption DEF RankInv, Ranked, Outranked
  <2>4. \A t \in Task : StateList[t] \in Int /\ Priority[CurrentTCB] \in Int
    BY <2>1, Below DEF ListInv, TypeInv, TypeOK, ListType
  <2> QED
    BY <2>2, <2>3, <2>4 DEF HighestPriorityRuns
<1> QED
  BY <1>1, ListInvInit, ListInvStep, RankInvInit, RankInvStep, PTL DEF Spec

-----------------------------------------------------------------------------
(* No notification is lost. *)

\* A task that blocks for a notification, or is about to, still waits for one, or an ISR has
\* taken its notification to it and it is about to be made ready.
Sleeps(t) == Delayed(t) \/ (StateList[t] = SuspendedTasks /\ "Suspend" \notin Calls)
Blocks(t) == pc[t] = "enlist" \/ (op[t] \in {"Take", "Wait"} /\ Sleeps(t))
Served(t) == NotifyState[t] = "waiting" \/ EventList[t] = "PendingReady"
LostInv ==
  \A t \in Task : /\ Blocks(t) => Served(t)
                  /\ pc[t] \in {"delay", "until", "event"} => op[t] \notin {"Take", "Wait"}

\* A step that begins no such call, and takes nobody's notification who goes on sleeping.
LEMMA LostKept ==
  ASSUME LostInv,
         \A u \in Task :
           /\ \/ pc'[u] = pc[u]
              \/ pc'[u] \notin {"enlist", "delay", "until", "event"}
           /\ op'[u] = op[u] \/ op'[u] \notin {"Take", "Wait"}
           /\ \/ Served(u)'
              \/ ~Sleeps(u)' /\ pc'[u] # "enlist"
              \/ /\ Sleeps(u)' => Sleeps(u)
                 /\ Served(u) => Served(u)'
  PROVE  LostInv'
  BY DEF LostInv, Blocks

\* Only inside a suspended section is a task about to block.
LEMMA SectionBlocks ==
  ASSUME ListInv, NEW u \in Task, pc[u] = "enlist"
  PROVE  u = CurrentTCB /\ SchedulerSuspended /\ StateList[u] \in Prio
  BY DEF ListInv, SectionInv, SuspendedSectionsExclusive, SuspendedSection, RunnerReady, ReadyIn

\* A task in a ready list, in none, or on its way out does not sleep.
LEMMA Awake ==
  ASSUME NEW c \in Prio \cup {NoList, TasksWaitingTermination, Corrupt}
  PROVE  c \notin {DelayedTasks, OverflowDelayed, SuspendedTasks}
  BY Apart

\* Ticks wake sleepers and put none to sleep.
LEMMA TickLost ==
  ASSUME ListInv, LostInv, ~SchedulerSuspended, NEW switch \in BOOLEAN, IncrementTick(switch),
         UNCHANGED <<pc, op, NotifyState>>
  PROVE  LostInv'
<1>1. PICK due \in SUBSET Task :
        /\ \A u \in due : StateList'[u] = Priority[u]
        /\ \A u \in Task \ due : /\ EventList'[u] = EventList[u]
                                 /\ StateList'[u] = StateList[u] \/ Delayed(u)
  BY TickEffect DEF ListInv, TypeInv, TypeOK
<1>2. \A u \in due : ~Sleeps(u)'
  BY <1>1, Awake DEF Sleeps, Delayed, ListInv, TypeInv, TypeOK, ListType
<1>3. \A u \in Task : pc[u] # "enlist"
  BY SectionBlocks
<1>4. \A u \in Task \ due : (Sleeps(u)' => Sleeps(u)) /\ (Served(u) => Served(u)')
  BY <1>1 DEF Sleeps, Served, Delayed
<1> QED
  BY <1>2, <1>3, <1>4, LostKept

\* The steps inside the kernel lose none.
LEMMA KernelStepUnlost ==
  ASSUME ListInv, LostInv, NEW t \in Task, KernelStep(t) PROVE LostInv'
<1> USE DEF ListInv, TypeInv, TypeOK, At, Runs, ListType, CallType, NoticeType
<1>0. CurrentTCB = t /\ UNCHANGED CurrentTCB
  BY KernelFrame
<1>1. CASE DelayEnlist(t) \/ DelayUntilEnlist(t) \/ PlaceOnEventList(t)
  <2>1. pc[t] \in {"delay", "until", "event"} /\ op'[t] \notin {"Take", "Wait"}
    BY <1>1 DEF DelayEnlist, DelayUntilEnlist, PlaceOnEventList, LostInv
  <2>2. \A u \in Task \ {t} : /\ StateList'[u] = StateList[u] /\ NotifyState'[u] = NotifyState[u]
                              /\ EventList'[u] = EventList[u]
    <3>1. CASE DelayEnlist(t)
      BY <1>0, <3>1, BlockEffect, RunnerIsReady DEF DelayEnlist, SuspendedSection
    <3>2. CASE DelayUntilEnlist(t)
      BY <1>0, <3>2, BlockEffect, DelayUntilEffect DEF DelayUntilEnlist
    <3>3. CASE PlaceOnEventList(t)
      BY <1>0, <3>3, BlockEffect, RunnerIsReady DEF PlaceOnEventList, SuspendedSection, listVars
    <3> QED
      BY <1>1, <3>1, <3>2, <3>3
  <2>3. pc' = [pc EXCEPT ![t] = "resume"] /\ UNCHANGED op
    BY <1>1 DEF DelayEnlist, DelayUntilEnlist, PlaceOnEventList
  <2> QED
    BY <2>1, <2>2, <2>3 DEF LostInv, Blocks, Served, Sleeps, Delayed
<1>2. CASE NotifyEnlist(t)
  <2>1. pc[t] = "enlist" /\ StateList[t] \in Prio /\ Served(t)
    BY <1>2, SectionBlocks DEF NotifyEnlist, LostInv, Blocks
  <2>2. \A u \in Task : /\ Served(u) => Served(u)'
                        /\ u # t => (Sleeps(u)' => Sleeps(u))
    BY <1>0, <1>2, <2>1, BlockEffect DEF NotifyEnlist, Served, Sleeps, Delayed
  <2> QED
    BY <1>2, <2>1, <2>2, LostKept DEF NotifyEnlist
<1>3. CASE NotifyTest(t)
  <2>1. ~Sleeps(t)' /\ pc[t] \in {"take", "wait"}
    BY <1>3, RunnerIsReady, Awake DEF NotifyTest, Sleeps, Delayed, listVars, SuspendedSection
  <2>2. \A u \in Task \ {t} : (Sleeps(u)' => Sleeps(u)) /\ (Served(u) => Served(u)')
    BY <1>3 DEF NotifyTest, Sleeps, Delayed, Served, listVars
  <2>3. pc'[t] = "enlist" => Served(t)'
    BY <1>3 DEF NotifyTest, Served
  <2>4. pc' = [pc EXCEPT ![t] = pc'[t]] /\ pc'[t] \in {"enlist", "resume"} /\ UNCHANGED op
    BY <1>3 DEF NotifyTest
  <2> QED
    BY <2>1, <2>2, <2>3, <2>4 DEF LostInv, Blocks
<1>4. CASE NotifyReturn(t)
  <2>1. op'[t] = "none" /\ pc'[t] = "run"
    BY <1>4 DEF NotifyReturn, Leave
  <2>2. \A u \in Task \ {t} : /\ (Sleeps(u)' => Sleeps(u)) /\ (Served(u) => Served(u)')
                              /\ pc'[u] = pc[u] /\ op'[u] = op[u]
    BY <1>4 DEF NotifyReturn, Leave, Sleeps, Delayed, Served, listVars
  <2> QED
    BY <2>1, <2>2 DEF LostInv, Blocks
<1>5. CASE TaskSuspendFinish(t) \/ TaskCreateFinish(t) \/ UnlockScheduler(t) \/ CatchUpPend(t)
           \/ ResumeAllReturn(t) \/ YieldWithinApi(t) \/ AbortGetState(t) \/ AbortTestEvent(t)
           \/ AbortTestNotify(t)
  <2>1. UNCHANGED <<StateList, EventList, NotifyState>>
    BY <1>5 DEF TaskSuspendFinish, TaskCreateFinish, UnlockScheduler, CatchUpPend, ResumeAllReturn,
       YieldWithinApi, AbortGetState, AbortTestEvent, AbortTestNotify, listVars, noticeVars
  <2>2. \A u \in Task : /\ \/ pc'[u] = pc[u]
                           \/ pc'[u] \notin {"enlist", "delay", "until", "event"}
                        /\ op'[u] = op[u] \/ op'[u] \notin {"Take", "Wait"}
    BY <1>5 DEF TaskSuspendFinish, TaskCreateFinish, UnlockScheduler, CatchUpPend, ResumeAllReturn,
       YieldWithinApi, AbortGetState, AbortTestEvent, AbortTestNotify, Continue, Leave, Goto
  <2>3. \A u \in Task : (Sleeps(u)' => Sleeps(u)) /\ (Served(u) => Served(u)')
    BY <2>1 DEF Sleeps, Delayed, Served
  <2> QED
    BY <2>2, <2>3, LostKept
<1>6. CASE ResumeAll(t)
  <2>1. \A u \in PendingReady : ~Sleeps(u)' /\ u \in Task
    BY <1>6, ResumeEffect, Awake DEF Sleeps, Delayed, PendingReady
  <2>2. \A u \in Task \ PendingReady : (Sleeps(u)' => Sleeps(u)) /\ (Served(u) => Served(u)')
    BY <1>6, ResumeEffect DEF Sleeps, Delayed, Served, noticeVars
  <2>3. \A u \in Task : pc[u] # "enlist"
    BY <1>6, ResumeEffect, SectionBlocks
  <2> QED
    BY <1>6, <2>1, <2>2, <2>3, ResumeEffect, LostKept DEF Goto
<1>7. CASE ReplayTick(t)
  <2>1. ~SchedulerSuspended
    BY <1>7 DEF ReplayTick, SectionInv, SuspendedSectionsExclusive, SuspendedSection
  <2> QED
    BY <1>7, <2>1, TickLost DEF ReplayTick, callVars, noticeVars
<1>8. CASE AbortRemove(t) \/ AbortEvent(t) \/ AbortReady(t)
  <2>1. \A u \in Task : pc[u] # "enlist"
    BY <1>0, <1>8, SectionBlocks DEF AbortRemove, AbortEvent, AbortReady
  <2>2. target[t] \in Task /\ (AbortEvent(t) => StateList[target[t]] = NoList)
    BY <1>8 DEF AbortRemove, AbortEvent, AbortReady, AbortTargets, AbortSteps, AbortHolds, AbortUnderWay
  <2>3. \A u \in Task \ {target[t]} : (Sleeps(u)' => Sleeps(u)) /\ (Served(u) => Served(u)')
    BY <1>8, <2>2 DEF AbortRemove, AbortEvent, AbortReady, Sleeps, Delayed, Served, noticeVars
  <2>4. \A u \in Task : u = target[t] => ~Sleeps(u)'
    <3>1. StateList'[target[t]] \in Prio \cup {NoList, Corrupt}
      BY <1>8, <2>2 DEF AbortRemove, AbortEvent, AbortReady, Unlinked, Appended
    <3> QED
      BY <3>1, Awake DEF Sleeps, Delayed
  <2>5. pc'[t] \in {"abortEvent", "abortReady", "resume"} /\ UNCHANGED op
        /\ \A u \in Task \ {t} : pc'[u] = pc[u]
    BY <1>8 DEF AbortRemove, AbortEvent, AbortReady, Goto
  <2>6. \A u \in Task : pc'[u] = pc[u] \/ pc'[u] \notin {"enlist", "delay", "until", "event"}
    BY <2>5
  <2>7. \A u \in Task : \/ ~Sleeps(u)' /\ pc'[u] # "enlist"
                        \/ /\ Sleeps(u)' => Sleeps(u)
                           /\ Served(u) => Served(u)'
    BY <2>1, <2>3, <2>4, <2>6
  <2> QED
    BY <2>5, <2>6, <2>7, LostKept
<1> QED
  BY <1>1, <1>2, <1>3, <1>4, <1>5, <1>6, <1>7, <1>8 DEF KernelStep

\* So do the first steps of the calls: a task that begins one does not sleep.
LEMMA ApiCallUnlost == ASSUME ListInv, LostInv, NEW t \in Task, ApiCall(t) PROVE LostInv'
<1> USE DEF ListInv, TypeInv, TypeOK, ListType, CallType, NoticeType
<1>0. /\ CurrentTCB = t /\ ~Sleeps(t) /\ StateList[t] \in Prio
      /\ pc[t] \notin {"enlist", "delay", "until", "event"}
  <2>1. CurrentTCB = t /\ StateList[t] \in Prio /\ pc[t] \in {"run", "locked"}
    BY ApiFrame, RunnerIsReady DEF SuspendedSection
  <2> QED
    BY <2>1, Awake DEF Sleeps, Delayed
<1>1. CASE Delay(t) \/ DelayUntil(t) \/ WaitEvent(t) \/ NotifyTake(t) \/ NotifyWait(t)
             \/ LockScheduler(t) \/ CatchUpTicks(t) \/ AbortDelay(t)
  <2>1. PICK l \in Label, o \in Operation :
          /\ pc' = [pc EXCEPT ![t] = l] /\ op' = [op EXCEPT ![t] = o]
          /\ l # "enlist" /\ (l \in {"delay", "until", "event"} => o \notin {"Take", "Wait"})
          /\ UNCHANGED <<listVars, noticeVars>>
    BY <1>1 DEF Delay, DelayUntil, WaitEvent, NotifyTake, NotifyWait, LockScheduler,
       CatchUpTicks, AbortDelay, SuspendAllFor, Begin, Label, Operation
  <2>2. \A u \in Task : (Sleeps(u)' => Sleeps(u)) /\ (Served(u) => Served(u)')
    BY <2>1 DEF Sleeps, Delayed, Served, listVars, noticeVars
  <2> QED
    BY <1>0, <2>1, <2>2 DEF LostInv, Blocks
<1>2. CASE TaskDeleteSelf(t)
  <2>1. \A u \in Task \ {t} : (Sleeps(u)' => Sleeps(u)) /\ (Served(u) => Served(u)')
    BY <1>2 DEF TaskDeleteSelf, Sleeps, Delayed, Served, noticeVars
  <2>2. /\ pc' = [pc EXCEPT ![t] = "dead"] /\ op' = [op EXCEPT ![t] = "none"]
    BY <1>2 DEF TaskDeleteSelf, Leave
  <2> QED
    BY <2>1, <2>2 DEF LostInv, Blocks
<1>3. CASE SignalEvent(t)
  <2>1. PICK u \in Task : RemoveFromEventList(u)
    BY <1>3 DEF SignalEvent
  <2>2. UNCHANGED <<pc, op, NotifyState>>
    BY <1>3 DEF SignalEvent, callVars, noticeVars
  <2>3. \A w \in Task : (Sleeps(w)' => Sleeps(w)) /\ (Served(w) => Served(w)')
    BY <2>1, <2>2, RemoveEffect, Awake DEF Sleeps, Delayed, Served
  <2> QED
    BY <2>2, <2>3, LostKept
<1>4. ASSUME NEW u \in Task, TaskSuspend(t, u) PROVE LostInv'
  <2>1. /\ "Suspend" \in Calls /\ StateList'[u] \in {SuspendedTasks, Corrupt}
        /\ pc' = [pc EXCEPT ![t] = "suspended"] /\ UNCHANGED op
    BY <1>4 DEF TaskSuspend, CallsApi, Relinked
  <2>2. ~Sleeps(u)'
    BY <2>1, Apart DEF Sleeps, Delayed
  <2>3. \A w \in Task \ {u} : (Sleeps(w)' => Sleeps(w)) /\ (Served(w) => Served(w)')
    BY <1>4 DEF TaskSuspend, Sleeps, Delayed, Served
  <2>4. ~SchedulerSuspended
    BY <1>0, <1>4 DEF TaskSuspend, CallsApi, At, Runs, SectionInv, SuspendedSectionsExclusive, SuspendedSection
  <2>5. \A w \in Task : pc[w] # "enlist"
    BY <2>4, SectionBlocks
  <2> QED
    BY <2>1, <2>2, <2>3, <2>5, LostKept
<1>5. ASSUME NEW u \in Task, TaskDelete(t, u) PROVE LostInv'
  <2>1. /\ pc' = [pc EXCEPT ![u] = "uncreated"] /\ op' = [op EXCEPT ![u] = "none"]
    BY <1>5 DEF TaskDelete, Leave
  <2>2. \A w \in Task \ {u} : (Sleeps(w)' => Sleeps(w)) /\ (Served(w) => Served(w)')
    BY <1>5 DEF TaskDelete, Sleeps, Delayed, Served, noticeVars
  <2> QED
    BY <2>1, <2>2 DEF LostInv, Blocks
<1>6. ASSUME NEW u \in Task, TaskResume(t, u) PROVE LostInv'
  <2>1. UNCHANGED <<pc, op, NotifyState, EventList>>
    BY <1>6 DEF TaskResume, callVars, noticeVars
  <2>2. StateList' = [StateList EXCEPT ![u] = Priority[u]]
    BY <1>6, Apart DEF TaskResume, Suspended, MakeReady, Relinked
  <2>3. \A w \in Task : (Sleeps(w)' => Sleeps(w)) /\ (Served(w) => Served(w)')
    BY <2>1, <2>2, Awake DEF Sleeps, Delayed, Served
  <2> QED
    BY <2>1, <2>3, LostKept
<1>7. ASSUME NEW u \in Task, NotifyStateClear(t, u) PROVE LostInv'
  <2>1. \A w \in Task : (Sleeps(w)' => Sleeps(w)) /\ (Served(w) => Served(w)')
    BY <1>7 DEF NotifyStateClear, listVars, Sleeps, Delayed, Served
  <2> QED
    BY <1>7, <2>1, LostKept DEF NotifyStateClear, callVars
<1>8. ASSUME NEW u \in Task, TaskCreate(t, u) PROVE LostInv'
  <2>1. /\ StateList' = [StateList EXCEPT ![u] = CreatePriority[u]] /\ CreatePriority[u] \in Prio
        /\ EventList' = [EventList EXCEPT ![u] = "none"]
        /\ NotifyState' = [NotifyState EXCEPT ![u] = "notWaiting"]
        /\ pc' = [w \in Task |-> IF w = u THEN "run" ELSE IF w = t THEN "created" ELSE pc[w]]
        /\ UNCHANGED op
    BY <1>8, CreateEffect DEF TaskCreate
  <2>2. ~Sleeps(u)'
    BY <2>1, Awake DEF Sleeps, Delayed
  <2>3. \A w \in Task \ {u} : (Sleeps(w)' => Sleeps(w)) /\ (Served(w) => Served(w)')
    BY <2>1 DEF Sleeps, Delayed, Served
  <2> QED
    BY <2>1, <2>2, <2>3, LostKept
<1>9. ASSUME NEW u \in Task, NEW p \in Prio, TaskPrioritySet(t, u, p) PROVE LostInv'
  <2>1. UNCHANGED <<pc, op, NotifyState, EventList>>
    BY <1>9 DEF TaskPrioritySet, callVars, noticeVars
  <2>2. StateList' \in {StateList, [StateList EXCEPT ![u] = p]}
    BY <1>9 DEF TaskPrioritySet
  <2>3. \A w \in Task : (Sleeps(w)' => Sleeps(w)) /\ (Served(w) => Served(w)')
    BY <2>1, <2>2, Awake DEF Sleeps, Delayed, Served
  <2> QED
    BY <2>1, <2>3, LostKept
<1>10. ASSUME NEW u \in Task, NEW a \in NotifyAction, NEW v \in ValuesFor(a),
              GenericNotify(t, u, a, v)
       PROVE  LostInv'
  <2>1. UNCHANGED <<pc, op, EventList>> /\ NotifyState' = [NotifyState EXCEPT ![u] = "received"]
    BY <1>10 DEF GenericNotify, SetNotification, callVars
  <2>2. \A w \in Task \ {u} : (Sleeps(w)' => Sleeps(w)) /\ (Served(w) => Served(w)')
    BY <1>10, <2>1 DEF GenericNotify, MakeReady, Sleeps, Delayed, Served
  <2>3. CASE NotifyState[u] = "waiting"
    <3>1. StateList'[u] \in Prio \cup {Corrupt}
      BY <1>10, <2>3 DEF GenericNotify, MakeReady, Relinked
    <3>2. ~Sleeps(u)'
      BY <3>1, Awake DEF Sleeps, Delayed
    <3>3. pc[u] # "enlist"
      BY <1>0, SectionBlocks
    <3> QED
      BY <2>1, <2>2, <3>2, <3>3, LostKept
  <2>4. CASE NotifyState[u] # "waiting"
    <3>1. (Sleeps(u)' => Sleeps(u)) /\ (Served(u) => Served(u)')
      BY <1>10, <2>1, <2>4 DEF GenericNotify, Sleeps, Delayed, Served
    <3> QED
      BY <2>1, <2>2, <3>1, LostKept
  <2> QED
    BY <2>3, <2>4
<1> QED
  BY <1>1, <1>2, <1>3, <1>4, <1>5, <1>6, <1>7, <1>8, <1>9, <1>10 DEF ApiCall

\* So do start-up, the interrupts and the idle task: the ISR that answers a waiter while the
\* scheduler is suspended leaves it pending, the others make it ready.
LEMMA OutsideTasksUnlost ==
  ASSUME ListInv, LostInv, Start \/ Interrupt \/ IdleCleanUp \/ IdleYield PROVE LostInv'
<1> USE DEF ListInv, TypeInv, TypeOK, ListType, CallType, NoticeType
<1>1. CASE Start
  <2>1. PICK u \in Task : AddNewTaskToReadyList(u, NULL, "run") /\ UNCHANGED op
    BY <1>1, SchedulerAssumption DEF Start, TaskStartScheduler, TaskCreateBeforeStart
  <2>2. /\ StateList' = [StateList EXCEPT ![u] = CreatePriority[u]] /\ CreatePriority[u] \in Prio
        /\ EventList' = [EventList EXCEPT ![u] = "none"]
        /\ NotifyState' = [NotifyState EXCEPT ![u] = "notWaiting"]
        /\ pc' = [w \in Task |-> IF w = u THEN "run" ELSE pc[w]]
    BY <2>1, CreateEffect, SchedulerAssumption
  <2>3. ~Sleeps(u)'
    BY <2>2, Awake DEF Sleeps, Delayed
  <2>4. \A w \in Task \ {u} : (Sleeps(w)' => Sleeps(w)) /\ (Served(w) => Served(w)')
    BY <2>2 DEF Sleeps, Delayed, Served
  <2> QED
    BY <2>1, <2>2, <2>3, <2>4, LostKept
<1>2. CASE TickISR
  <2>1. CASE SchedulerSuspended
    <3>1. \A w \in Task : (Sleeps(w)' => Sleeps(w)) /\ (Served(w) => Served(w)')
      BY <1>2, <2>1 DEF TickISR, listVars, noticeVars, Sleeps, Delayed, Served
    <3> QED
      BY <1>2, <3>1, LostKept DEF TickISR, callVars
  <2>2. CASE ~SchedulerSuspended
    BY <1>2, <2>2, TickLost DEF TickISR, callVars, noticeVars
  <2> QED
    BY <2>1, <2>2
<1>3. CASE SignalFromISR
  <2>1. PICK u \in Task : RemoveFromEventList(u)
    BY <1>3 DEF SignalFromISR
  <2>2. UNCHANGED <<pc, op, NotifyState>>
    BY <1>3 DEF SignalFromISR, callVars, noticeVars
  <2>3. \A w \in Task : (Sleeps(w)' => Sleeps(w)) /\ (Served(w) => Served(w)')
    BY <2>1, <2>2, RemoveEffect, Awake DEF Sleeps, Delayed, Served
  <2> QED
    BY <2>2, <2>3, LostKept
<1>4. CASE SwitchContext \/ IdleYield
  <2>1. \A w \in Task : (Sleeps(w)' => Sleeps(w)) /\ (Served(w) => Served(w)')
    BY <1>4 DEF SwitchContext, IdleYield, listVars, noticeVars, Sleeps, Delayed, Served
  <2> QED
    BY <1>4, <2>1, LostKept DEF SwitchContext, IdleYield, callVars
<1>5. ASSUME NEW u \in Task, TaskResumeFromISR(u) PROVE LostInv'
  <2>1. \A w \in Task : (Sleeps(w)' => Sleeps(w)) /\ (Served(w) => Served(w)')
    BY <1>5, WakeEffect, Awake DEF TaskResumeFromISR, noticeVars, Sleeps, Delayed, Served
  <2> QED
    BY <1>5, <2>1, LostKept DEF TaskResumeFromISR, callVars
<1>6. ASSUME NEW u \in Task, NEW a \in NotifyAction, NEW v \in ValuesFor(a), NotifyFromISR(u, a, v)
      PROVE  LostInv'
  <2>1. UNCHANGED <<pc, op>> /\ NotifyState' = [NotifyState EXCEPT ![u] = "received"] /\ u \in Live
    BY <1>6 DEF NotifyFromISR, SetNotification, callVars
  <2>2. CASE Waiting(u)
    <3>1. \A w \in Task \ {u} : (Sleeps(w)' => Sleeps(w)) /\ (Served(w) => Served(w)')
      BY <1>6, <2>1, <2>2, WakeEffect DEF NotifyFromISR, Waiting, Sleeps, Delayed, Served
    <3>2. Served(u)' \/ (~SchedulerSuspended /\ StateList'[u] \in Prio)
      BY <1>6, <2>1, <2>2, WakeEffect DEF NotifyFromISR, Waiting, Served
    <3>3. Served(u)' \/ (~Sleeps(u)' /\ pc[u] # "enlist")
      BY <3>2, SectionBlocks, Awake DEF Sleeps, Delayed
    <3> QED
      BY <2>1, <3>1, <3>3, LostKept
  <2>3. CASE ~Waiting(u)
    <3>1. \A w \in Task : (Sleeps(w)' => Sleeps(w)) /\ (Served(w) => Served(w)')
      BY <1>6, <2>1, <2>3 DEF NotifyFromISR, Waiting, listVars, Sleeps, Delayed, Served
    <3> QED
      BY <2>1, <3>1, LostKept
  <2> QED
    BY <2>2, <2>3
<1>7. CASE IdleCleanUp
  <2>1. PICK u \in Task : /\ StateList[u] = TasksWaitingTermination
                         /\ StateList' = [StateList EXCEPT ![u] = Unlinked(@)]
                         /\ Leave(u, "uncreated") /\ UNCHANGED <<EventList, NotifyState>>
    BY <1>7 DEF IdleCleanUp, noticeVars
  <2>2. \A w \in Task \ {u} : (Sleeps(w)' => Sleeps(w)) /\ (Served(w) => Served(w)')
    BY <2>1 DEF Sleeps, Delayed, Served
  <2> QED
    BY <2>1, <2>2 DEF LostInv, Blocks, Leave
<1> QED
  BY <1>1, <1>2, <1>3, <1>4, <1>5, <1>6, <1>7 DEF Interrupt

LEMMA LostInvStep == ListInv /\ LostInv /\ [Next]_vars => LostInv'
<1>1. ASSUME ListInv, LostInv, Next PROVE LostInv'
  BY <1>1, KernelStepUnlost, ApiCallUnlost, OutsideTasksUnlost DEF Next
<1>2. ASSUME LostInv, UNCHANGED vars PROVE LostInv'
  BY <1>2 DEF LostInv, Blocks, Sleeps, Delayed, Served, vars, listVars, noticeVars, callVars
<1> QED
  BY <1>1, <1>2

\* A notification is never lost between the test for it and the block: a task that sleeps for
\* one that has been sent is on its way to the ready list.  An ISR may send it at any step of
\* the call, the block included, which the suspended scheduler does not keep out.
THEOREM NotificationsArrive == Spec => []NoLostNotification
<1>1. Init => LostInv
  BY DEF Init, LostInv, Blocks
<1>2. LostInv => NoLostNotification
  BY DEF LostInv, NoLostNotification, Blocks, Sleeps, Served
<1> QED
  BY <1>1, <1>2, ListInvInit, ListInvStep, LostInvStep, PTL DEF Spec

-----------------------------------------------------------------------------
(* The counters. *)

\* A task more or less in a set of tasks.
LEMMA OneMore ==
  ASSUME NEW S \in SUBSET Task, NEW u \in Task \ S
  PROVE  Cardinality(S \cup {u}) = Cardinality(S) + 1 /\ Cardinality(S) \in Nat
  BY FS_Subset, FS_AddElement, FS_CardinalityType, SchedulerAssumption
LEMMA OneLess ==
  ASSUME NEW S \in SUBSET Task, NEW u \in S
  PROVE  Cardinality(S \ {u}) = Cardinality(S) - 1 /\ Cardinality(S) \in Nat
  BY FS_Subset, FS_RemoveElement, FS_CardinalityType, SchedulerAssumption

\* Where a task's call has got to tells which count it is in.
Known == {t \in Task : pc[t] # "uncreated"}
Dead  == {t \in Task : pc[t] = "dead"}
CountInv == DeletedTasksWaitingCleanUp = Cardinality(Dead) /\ CurrentNumberOfTasks = Cardinality(Known)

LEMMA CountKept ==
  ASSUME CountInv, UNCHANGED <<CurrentNumberOfTasks, DeletedTasksWaitingCleanUp>>,
         \A u \in Task : \/ pc'[u] = pc[u]
                         \/ {pc[u], pc'[u]} \cap {"uncreated", "dead"} = {}
  PROVE  CountInv'
<1>1. Known' = Known /\ Dead' = Dead
  BY DEF Known, Dead
<1> QED
  BY <1>1 DEF CountInv

\* A creation counts a task.
LEMMA CreateCounts ==
  ASSUME ListInv, CountInv, NEW u \in Task, NEW caller, NEW next,
         AddNewTaskToReadyList(u, caller, next), next \notin {"uncreated", "dead"},
         caller \in Task => pc[caller] \notin {"uncreated", "dead"},
         UNCHANGED DeletedTasksWaitingCleanUp
  PROVE  CountInv'
<1>1. /\ pc[u] = "uncreated"
      /\ pc' = [t \in Task |-> IF t = u THEN "run" ELSE IF t = caller THEN next ELSE pc[t]]
      /\ CurrentNumberOfTasks' = CurrentNumberOfTasks + 1
  BY DEF AddNewTaskToReadyList
<1>2. Known' = Known \cup {u} /\ u \notin Known /\ Dead' = Dead
  BY <1>1 DEF Known, Dead
<1> QED
  BY <1>1, <1>2, OneMore DEF CountInv, Known

\* A task that takes a step inside the kernel is in the middle of a call.
LEMMA KernelLabels == ASSUME NEW t \in Task, KernelStep(t) PROVE pc[t] \notin {"uncreated", "dead"}
  BY DEF KernelStep, DelayEnlist, DelayUntilEnlist, PlaceOnEventList, NotifyEnlist, NotifyTest,
     NotifyReturn, TaskSuspendFinish, TaskCreateFinish, ResumeAll, ReplayTick, ResumeAllReturn,
     YieldWithinApi, UnlockScheduler, CatchUpPend, AbortGetState, AbortTestEvent, AbortTestNotify,
     AbortRemove, AbortEvent, AbortReady, At

LEMMA CountInvStep == ASSUME ListInv, CountInv, [Next]_vars PROVE CountInv'
<1> USE DEF ListInv, TypeInv, TypeOK, CallType
<1>1. ASSUME NEW t \in Task, KernelStep(t) PROVE CountInv'
  <2>1. pc[t] \notin {"uncreated", "dead"}
    BY <1>1, KernelLabels
  <2>2. UNCHANGED <<CurrentNumberOfTasks, DeletedTasksWaitingCleanUp>>
    BY <1>1 DEF KernelStep, DelayEnlist, DelayUntilEnlist, PlaceOnEventList, NotifyEnlist, NotifyTest,
       NotifyReturn, TaskSuspendFinish, TaskCreateFinish, ResumeAll, ReplayTick, ResumeAllReturn,
       YieldWithinApi, UnlockScheduler, CatchUpPend, AbortGetState, AbortTestEvent, AbortTestNotify,
       AbortRemove, AbortEvent, AbortReady, countVars
  <2> QED
    BY <1>1, <2>1, <2>2, KernelFrame, CountKept
<1>2. ASSUME NEW t \in Task, ApiCall(t) PROVE CountInv'
  <2>0. pc[t] \in {"run", "locked"}
    BY <1>2, ApiFrame
  <2>1. CASE Delay(t) \/ DelayUntil(t) \/ WaitEvent(t) \/ NotifyTake(t) \/ NotifyWait(t)
             \/ LockScheduler(t) \/ CatchUpTicks(t) \/ AbortDelay(t)
    BY <2>0, <2>1, CountKept DEF Delay, DelayUntil, WaitEvent, NotifyTake, NotifyWait, LockScheduler,
       CatchUpTicks, AbortDelay, SuspendAllFor, Begin, countVars
  <2>2. CASE TaskDeleteSelf(t)
    <3>1. /\ pc' = [pc EXCEPT ![t] = "dead"] /\ UNCHANGED CurrentNumberOfTasks
          /\ DeletedTasksWaitingCleanUp' = DeletedTasksWaitingCleanUp + 1
      BY <2>2 DEF TaskDeleteSelf, Leave
    <3>2. Known' = Known /\ Dead' = Dead \cup {t} /\ t \notin Dead
      BY <2>0, <3>1 DEF Known, Dead
    <3> QED
      BY <3>1, <3>2, OneMore DEF CountInv, Dead
  <2>3. CASE SignalEvent(t)
    BY <2>3, CountKept DEF SignalEvent, callVars, countVars
  <2>4. ASSUME NEW u \in Task, TaskSuspend(t, u) \/ TaskResume(t, u) \/ NotifyStateClear(t, u)
        PROVE  CountInv'
    BY <2>0, <2>4, CountKept DEF TaskSuspend, TaskResume, NotifyStateClear, callVars, countVars
  <2>5. ASSUME NEW u \in Task, TaskDelete(t, u) PROVE CountInv'
    <3>1. /\ pc' = [pc EXCEPT ![u] = "uncreated"] /\ UNCHANGED DeletedTasksWaitingCleanUp
          /\ CurrentNumberOfTasks' = CurrentNumberOfTasks - 1 /\ u \in Live
      BY <2>5 DEF TaskDelete, Leave
    <3>2. Known' = Known \ {u} /\ u \in Known /\ Dead' = Dead
      BY <3>1 DEF Known, Dead, Live
    <3> QED
      BY <3>1, <3>2, OneLess DEF CountInv, Known
  <2>6. ASSUME NEW u \in Task, TaskCreate(t, u) PROVE CountInv'
    BY <2>0, <2>6, CreateCounts DEF TaskCreate
  <2>7. ASSUME NEW u \in Task, NEW p \in Prio, TaskPrioritySet(t, u, p) PROVE CountInv'
    BY <2>7, CountKept DEF TaskPrioritySet, callVars, countVars
  <2>8. ASSUME NEW u \in Task, NEW a \in NotifyAction, NEW v \in ValuesFor(a),
               GenericNotify(t, u, a, v)
        PROVE  CountInv'
    BY <2>8, CountKept DEF GenericNotify, callVars, countVars
  <2> QED
    BY <1>2, <2>1, <2>2, <2>3, <2>4, <2>5, <2>6, <2>7, <2>8 DEF ApiCall
<1>3. CASE Start
  <2>1. PICK u \in Task : AddNewTaskToReadyList(u, NULL, "run") /\ UNCHANGED DeletedTasksWaitingCleanUp
    BY <1>3, SchedulerAssumption DEF Start, TaskStartScheduler, TaskCreateBeforeStart
  <2> QED
    BY <2>1, CreateCounts, SchedulerAssumption
<1>4. CASE TickISR \/ SignalFromISR \/ SwitchContext \/ IdleYield
  BY <1>4, CountKept DEF TickISR, SignalFromISR, SwitchContext, IdleYield, callVars, countVars
<1>5. ASSUME NEW u \in Task, TaskResumeFromISR(u) PROVE CountInv'
  BY <1>5, CountKept DEF TaskResumeFromISR, callVars, countVars
<1>6. ASSUME NEW u \in Task, NEW a \in NotifyAction, NEW v \in ValuesFor(a), NotifyFromISR(u, a, v)
      PROVE  CountInv'
  BY <1>6, CountKept DEF NotifyFromISR, callVars, countVars
<1>7. CASE IdleCleanUp
  <2>1. PICK u \in Task : StateList[u] = TasksWaitingTermination /\ pc' = [pc EXCEPT ![u] = "uncreated"]
    BY <1>7 DEF IdleCleanUp, Leave
  <2>2. /\ CurrentNumberOfTasks' = CurrentNumberOfTasks - 1
        /\ DeletedTasksWaitingCleanUp' = DeletedTasksWaitingCleanUp - 1
    BY <1>7 DEF IdleCleanUp
  <2>3. /\ Known' = Known \ {u} /\ u \in Known
        /\ Dead' = Dead \ {u} /\ u \in Dead
    BY <2>1 DEF Known, Dead, NoTaskLost
  <2> QED
    BY <2>2, <2>3, OneLess DEF CountInv, Known, Dead
<1>8. CASE UNCHANGED vars
  BY <1>8, CountKept DEF vars, callVars, countVars
<1> QED
  BY <1>1, <1>2, <1>3, <1>4, <1>5, <1>6, <1>7, <1>8 DEF Next, Interrupt

\* The counters agree with the tasks they count: the idle task, which takes the head of
\* TasksWaitingTermination on the word of its counter, finds a task there, and frees each task
\* that deleted itself once.
THEOREM CountersExact == Spec => []CountsExact
<1>1. Init => CountInv
  <2> SUFFICES ASSUME Init PROVE CountInv
    OBVIOUS
  <2>1. Known = {} /\ Dead = {}
    BY DEF Init, Known, Dead
  <2> QED
    BY <2>1, FS_EmptySet DEF Init, CountInv
<1>2. ListInv /\ CountInv => CountsExact
  <2> SUFFICES ASSUME ListInv, CountInv PROVE CountsExact
    OBVIOUS
  <2>1. Dead = {t \in Task : StateList[t] = TasksWaitingTermination}
    BY DEF ListInv, NoTaskLost, Dead
  <2> QED
    BY <2>1 DEF CountInv, CountsExact, Known
<1> QED
  BY <1>1, <1>2, ListInvInit, ListInvStep, CountInvStep, PTL DEF Spec

=============================================================================
