-------------------------- MODULE Scheduler_proofs --------------------------
(***************************************************************************)
(* Theorems about Scheduler, for every set of tasks, every priority range, *)
(* every width of the tick count and every choice of API calls.            *)
(***************************************************************************)
EXTENDS Scheduler, TLAPS

(* The operators the actions are built from. *)

\* TickType_t arithmetic stays in the range of TickType_t.
LEMMA ModTick == ASSUME NEW n \in Int PROVE n % TickMod \in Tick
  BY SchedulerAssumption DEF TickMod, Tick

\* taskYIELD_ANY_CORE_IF_USING_PREEMPTION's condition is a truth value.
LEMMA PreemptsType == ASSUME NEW u PROVE Preempts(u) \in BOOLEAN
  BY DEF Preempts

\* ResetNextTaskUnblockTime sets a tick.
LEMMA HeadValueType ==
  ASSUME NEW list, ResetNextTaskUnblockTime(list) PROVE NextTaskUnblockTime' \in Tick
  BY DEF ResetNextTaskUnblockTime

\* TaskIncrementTick keeps the types of the lists and the times.
LEMMA IncrementTickType ==
  ASSUME TypeOK, NEW switch \in BOOLEAN, IncrementTick(switch)
  PROVE  ListType' /\ (PendedTicks' \in Nat => TimeType')
  BY ModTick DEF TypeOK, ListType, TimeType, IncrementTick, ResetNextTaskUnblockTime,
     StateContainer, EventContainer, SwitchDelayedLists, EnsureRemoved, Tick

\* AddCurrentTaskToDelayedList keeps the types of all it writes.
LEMMA AddCurrentType ==
  ASSUME TypeOK, CurrentTCB \in Task, NEW n \in Nat, NEW b \in BOOLEAN,
         AddCurrentTaskToDelayedList(n, b)
  PROVE  /\ DelayAborted' \in [Task -> BOOLEAN]
         /\ StateList' \in [Task -> StateContainer]
         /\ TopReadyPriority' \subseteq Prio
         /\ WakeTime' \in [Task -> Tick]
         /\ NextTaskUnblockTime' \in Tick
  BY ModTick DEF TypeOK, ListType, TimeType, NoticeType, AddCurrentTaskToDelayedList,
     StateContainer, Relinked, Tick

\* The locals of the API calls keep their types through each form of step.
LEMMA GotoType == ASSUME NEW t \in Task, NEW l \in Label, CallType, Goto(t, l) PROVE CallType'
  BY DEF CallType, Goto

\* ... the end of a call,
LEMMA LeaveType == ASSUME NEW t \in Task, NEW l \in Label, CallType, Leave(t, l) PROVE CallType'
  BY DEF CallType, Leave, Operation

\* ... what follows ResumeAll,
LEMMA ContinueType == ASSUME NEW t \in Task, CallType, Continue(t) PROVE CallType'
  BY LeaveType, GotoType DEF Continue, Label

\* ... and TaskSuspendAll, which keeps every type.
LEMMA SuspendAllForType ==
  ASSUME TypeOK, NEW t \in Task, NEW l \in Label, NEW o \in Operation, NEW n \in Nat,
         NEW u \in Task \cup {NULL}, SuspendAllFor(t, l, o, n, u)
  PROVE  TypeOK'
  BY DEF TypeOK, SwitchType, ListType, TimeType, CountType, NoticeType, CallType,
     SuspendAllFor, Begin, listVars, prioVars, timeVars, countVars, noticeVars

\* AddTaskToReadyList and taskRESET_READY_PRIORITY keep the types of the ready lists.
LEMMA MakeReadyType ==
  ASSUME ListType, NEW u \in Task, MakeReady(u)
  PROVE  StateList' \in [Task -> StateContainer] /\ TopReadyPriority' \subseteq Prio
  BY DEF ListType, MakeReady, Relinked, StateContainer

\* ... the latter's part.
LEMMA ResetReadyPriorityType ==
  ASSUME ListType, NEW u, ResetReadyPriority(u) PROVE TopReadyPriority' \subseteq Prio
  BY DEF ListType, ResetReadyPriority

\* A notification is a state and a bounded value, whatever its action.
LEMMA SetNotificationType ==
  ASSUME NoticeType, NEW u \in Task, NEW a \in NotifyAction, NEW v \in ValuesFor(a),
         SetNotification(u, a, v), UNCHANGED DelayAborted
  PROVE  NoticeType'
<1>1. v \in 0 .. MaxNotified
  BY SchedulerAssumption DEF ValuesFor
<1> QED
  BY <1>1, SchedulerAssumption DEF NoticeType, SetNotification

\* TaskRemoveFromEventList moves a waiter to a list.
LEMMA RemoveFromEventListType ==
  ASSUME TypeOK, NEW u \in Task, RemoveFromEventList(u), UNCHANGED Priority
  PROVE  ListType' /\ YieldPending' \in BOOLEAN
  BY MakeReadyType, PreemptsType DEF TypeOK, ListType, SwitchType, RemoveFromEventList,
     EventContainer, EventAppended, EventUnlinked

\* So does an ISR.
LEMMA WakeFromISRType ==
  ASSUME ListType, NEW u \in Task, WakeFromISR(u), UNCHANGED Priority PROVE ListType'
  BY MakeReadyType DEF ListType, WakeFromISR, EventContainer, EventAppended

\* The target of an AbortDelay is a task from its first step to its last.
AbortSteps == {"abortState", "abortTest", "abortNotify", "abortRemove", "abortEvent",
               "abortReady"}
AbortTargets == \A t \in Task : pc[t] \in AbortSteps => target[t] \in Task
TypeInv == TypeOK /\ AbortTargets

\* A task is created with values of the right types.
LEMMA AddNewTaskType ==
  ASSUME TypeOK, NEW u \in Task, NEW caller, NEW next \in Label,
         AddNewTaskToReadyList(u, caller, next)
  PROVE  /\ ListType' /\ NoticeType' /\ CurrentTCB' \in Task \cup {NULL}
         /\ CurrentNumberOfTasks' \in Int /\ pc' \in [Task -> Label]
         /\ WakeTime' \in [Task -> Tick]
<1> USE DEF TypeOK, AddNewTaskToReadyList
<1>1. ListType'
  BY SchedulerAssumption DEF ListType, StateContainer, EventContainer
<1>2. NoticeType'
  BY SchedulerAssumption DEF NoticeType
<1>3. WakeTime' \in [Task -> Tick]
  BY SchedulerAssumption DEF TimeType, Tick
<1>4. pc' \in [Task -> Label]
  BY DEF CallType, Label
<1> QED
  BY <1>1, <1>2, <1>3, <1>4 DEF SwitchType, CountType

\* The steps inside the kernel keep the types.
LEMMA KernelStepType == ASSUME TypeInv, NEW t \in Task, KernelStep(t) PROVE TypeOK'
<1> USE DEF TypeInv, TypeOK, At, Runs
<1>1. CASE DelayEnlist(t)
  BY <1>1, AddCurrentType DEF DelayEnlist, SwitchType, ListType, TimeType, CountType, NoticeType,
     CallType, switchVars, countVars, Label
<1>2. CASE DelayUntilEnlist(t)
  <2>1. \/ AddCurrentTaskToDelayedList((arg[t] - TickCount) % TickMod, FALSE)
        \/ UNCHANGED <<StateList, TopReadyPriority, WakeTime, NextTaskUnblockTime,
                       DelayAborted>>
    BY <1>2 DEF DelayUntilEnlist
  <2>2. (arg[t] - TickCount) % TickMod \in Nat
    BY ModTick, SchedulerAssumption DEF TimeType, Tick, CallType
  <2> QED
    BY <1>2, <2>1, <2>2, AddCurrentType DEF DelayUntilEnlist, SwitchType, ListType, TimeType,
       CountType, NoticeType, CallType, switchVars, countVars, Label
<1>3. CASE PlaceOnEventList(t)
  BY <1>3, AddCurrentType DEF PlaceOnEventList, SwitchType, ListType, TimeType, CountType,
     NoticeType, CallType, listVars, switchVars, countVars, Label, EventContainer, EventAppended
<1>4. CASE NotifyTest(t)
  BY <1>4, SchedulerAssumption DEF NotifyTest, SwitchType, ListType, TimeType, CountType,
     NoticeType, CallType, listVars, prioVars, timeVars, switchVars, countVars, Label
<1>5. CASE NotifyEnlist(t)
  BY <1>5, AddCurrentType DEF NotifyEnlist, SwitchType, ListType, TimeType, CountType, NoticeType,
     CallType, switchVars, countVars, Label
<1>6. CASE NotifyReturn(t)
  <2>1. NoticeType'
    BY <1>6, SchedulerAssumption DEF NotifyReturn, NoticeType
  <2>2. CallType'
    BY <1>6, LeaveType DEF NotifyReturn, Label
  <2> QED BY <1>6, <2>1, <2>2 DEF NotifyReturn, SwitchType, ListType, TimeType, CountType,
       listVars, prioVars, timeVars, switchVars, countVars
<1>7. CASE ResumeAll(t)
  <2>1. CallType'
    BY <1>7, ContinueType, GotoType DEF ResumeAll, Label
  <2>2. ListType'
    BY <1>7 DEF ResumeAll, ListType, PendingReady, Relinked, StateContainer, EventContainer, listVars
  <2>3. SwitchType'
    <3>1. UNCHANGED <<SchedulerRunning, CurrentTCB, yieldReq>>
      BY <1>7 DEF ResumeAll, countVars
    <3>2. SchedulerSuspended' \in BOOLEAN
      BY <1>7 DEF ResumeAll
    <3>3. YieldPending' \in BOOLEAN
      BY <1>7 DEF ResumeAll, SwitchType
    <3> QED BY <3>1, <3>2, <3>3 DEF SwitchType
  <2>4. TimeType'
    BY <1>7 DEF ResumeAll, TimeType, ResetNextTaskUnblockTime
  <2> QED BY <1>7, <2>1, <2>2, <2>3, <2>4 DEF ResumeAll, CountType, NoticeType, countVars, noticeVars
<1>8. CASE ReplayTick(t)
  BY <1>8, IncrementTickType DEF ReplayTick, SwitchType, TimeType, CountType, NoticeType, CallType,
     countVars, noticeVars, callVars
<1>9. CASE ResumeAllReturn(t)
  <2>1. CallType'
    BY <1>9, ContinueType, GotoType DEF ResumeAllReturn, Label
  <2> QED BY <1>9, <2>1 DEF ResumeAllReturn, SwitchType, ListType, TimeType, CountType, NoticeType,
       listVars, prioVars, timeVars, countVars, noticeVars
<1>10. CASE YieldWithinApi(t)
  BY <1>10, ContinueType DEF YieldWithinApi, SwitchType, ListType, TimeType, CountType, NoticeType,
     listVars, prioVars, timeVars, countVars, noticeVars
<1>11. CASE UnlockScheduler(t) \/ CatchUpPend(t)
  <2>1. CallType'
    BY <1>11, GotoType DEF UnlockScheduler, CatchUpPend, Label
  <2> QED BY <1>11, <2>1 DEF UnlockScheduler, CatchUpPend, SwitchType, ListType, TimeType,
       CountType, NoticeType, CallType, listVars, prioVars, timeVars, switchVars, countVars,
       noticeVars
<1>12. CASE AbortGetState(t) \/ AbortTestEvent(t) \/ AbortTestNotify(t)
  <2>1. CallType'
    BY <1>12, GotoType DEF AbortGetState, AbortTestEvent, AbortTestNotify, Label
  <2> QED BY <1>12, <2>1 DEF AbortGetState, AbortTestEvent, AbortTestNotify, SwitchType, ListType,
       TimeType, CountType, NoticeType, listVars, prioVars, timeVars, switchVars, countVars,
       noticeVars
<1>13. CASE AbortRemove(t) \/ AbortEvent(t)
  <2>1. CallType'
    BY <1>13, GotoType DEF AbortRemove, AbortEvent, Label
  <2>2. ListType' /\ NoticeType'
    BY <1>13 DEF AbortRemove, AbortEvent, ListType, NoticeType, Unlinked, EventUnlinked,
       StateContainer, EventContainer, prioVars, noticeVars
  <2> QED BY <1>13, <2>1, <2>2 DEF AbortRemove, AbortEvent, SwitchType, TimeType, CountType,
       timeVars, switchVars, countVars
<1>14. CASE AbortReady(t)
  <2>1. CallType'
    BY <1>14, GotoType DEF AbortReady, Label
  <2>2. ListType'
    BY <1>14 DEF AbortReady, ListType, Appended, StateContainer, AbortTargets, AbortSteps
  <2> QED BY <1>14, <2>1, <2>2 DEF AbortReady, SwitchType, TimeType, CountType, NoticeType,
       timeVars, countVars, noticeVars
<1>15. CASE TaskSuspendFinish(t)
  <2>1. CallType'
    BY <1>15, LeaveType DEF TaskSuspendFinish, Label
  <2> QED BY <1>15, <2>1, HeadValueType DEF TaskSuspendFinish, SwitchType, ListType, TimeType,
       CountType, NoticeType, listVars, prioVars, countVars, noticeVars
<1>16. CASE TaskCreateFinish(t)
  <2>1. CallType'
    BY <1>16, LeaveType DEF TaskCreateFinish, Label
  <2> QED BY <1>16, <2>1, PreemptsType DEF TaskCreateFinish, SwitchType, ListType, TimeType,
       CountType, NoticeType, listVars, prioVars, timeVars, countVars, noticeVars
<1> QED
  BY <1>1, <1>2, <1>3, <1>4, <1>5, <1>6, <1>7, <1>8, <1>9, <1>10, <1>11, <1>12, <1>13, <1>14,
     <1>15, <1>16 DEF KernelStep

\* So do the first steps of the calls.
LEMMA ApiCallType == ASSUME TypeInv, NEW t \in Task, ApiCall(t) PROVE TypeOK'
<1> USE DEF TypeInv, TypeOK, CallsApi, CallsApiLocked, Runs
<1>1. CASE Delay(t) \/ DelayUntil(t) \/ WaitEvent(t) \/ NotifyTake(t) \/ NotifyWait(t)
             \/ LockScheduler(t) \/ CatchUpTicks(t)
  BY <1>1, SuspendAllForType, SchedulerAssumption DEF Delay, DelayUntil, WaitEvent, NotifyTake,
     NotifyWait, LockScheduler, CatchUpTicks, Label, Operation, Tick
<1>2. CASE AbortDelay(t)
  BY <1>2, SuspendAllForType DEF AbortDelay, Label, Operation, Live
<1>3. CASE TaskDeleteSelf(t)
  <2>1. CallType'
    BY <1>3, LeaveType DEF TaskDeleteSelf, Label
  <2>2. ListType'
    BY <1>3, ResetReadyPriorityType DEF TaskDeleteSelf, ListType, Relinked, EnsureRemoved,
       StateContainer, EventContainer
  <2> QED BY <1>3, <2>1, <2>2 DEF TaskDeleteSelf, SwitchType, TimeType, CountType, NoticeType,
       timeVars, noticeVars
<1>4. CASE SignalEvent(t)
  BY <1>4, RemoveFromEventListType, PreemptsType DEF SignalEvent, SwitchType, TimeType, CountType,
     NoticeType, CallType, timeVars, countVars, noticeVars, callVars
<1>5. ASSUME NEW u \in Task, TaskSuspend(t, u) PROVE TypeOK'
  <2>1. ListType'
    BY <1>5, ResetReadyPriorityType DEF TaskSuspend, ListType, Relinked, EnsureRemoved,
       StateContainer, EventContainer
  <2>2. NoticeType' /\ CallType'
    BY <1>5 DEF TaskSuspend, NoticeType, CallType, Label
  <2> QED BY <1>5, <2>1, <2>2 DEF TaskSuspend, SwitchType, TimeType, CountType, timeVars,
       switchVars, countVars
<1>6. ASSUME NEW u \in Task, TaskResume(t, u) PROVE TypeOK'
  BY <1>6, MakeReadyType, PreemptsType DEF TaskResume, SwitchType, ListType, TimeType, CountType,
     NoticeType, CallType, timeVars, countVars, noticeVars, callVars
<1>7. ASSUME NEW u \in Task, TaskDelete(t, u) PROVE TypeOK'
  <2>1. CallType'
    BY <1>7, LeaveType DEF TaskDelete, Label
  <2>2. ListType'
    BY <1>7, ResetReadyPriorityType DEF TaskDelete, ListType, Unlinked, EnsureRemoved,
       StateContainer, EventContainer
  <2>3. TimeType'
    BY <1>7 DEF TaskDelete, TimeType, ResetNextTaskUnblockTime
  <2> QED BY <1>7, <2>1, <2>2, <2>3 DEF TaskDelete, SwitchType, CountType, NoticeType, switchVars,
       noticeVars
<1>8. ASSUME NEW u \in Task, TaskCreate(t, u) PROVE TypeOK'
  BY <1>8, AddNewTaskType DEF TaskCreate, TimeType, SwitchType, CountType, CallType, Label
<1>9. ASSUME NEW u \in Task, NotifyStateClear(t, u) PROVE TypeOK'
  BY <1>9 DEF NotifyStateClear, SwitchType, ListType, TimeType, CountType, NoticeType, CallType,
     listVars, prioVars, timeVars, switchVars, countVars, callVars
<1>10. ASSUME NEW u \in Task, NEW p \in Prio, TaskPrioritySet(t, u, p) PROVE TypeOK'
  BY <1>10 DEF TaskPrioritySet, SwitchType, ListType, TimeType, CountType, NoticeType, CallType,
     StateContainer, timeVars, countVars, noticeVars, callVars
<1>11. ASSUME NEW u \in Task, NEW a \in NotifyAction, NEW v \in ValuesFor(a),
              GenericNotify(t, u, a, v)
       PROVE  TypeOK'
  <2>1. NoticeType'
    BY <1>11, SetNotificationType DEF GenericNotify
  <2> QED BY <1>11, <2>1, MakeReadyType, PreemptsType DEF GenericNotify, SwitchType, ListType,
       TimeType, CountType, CallType, timeVars, countVars, callVars
<1> QED
  BY <1>1, <1>2, <1>3, <1>4, <1>5, <1>6, <1>7, <1>8, <1>9, <1>10, <1>11 DEF ApiCall

\* So do start-up, the interrupts and the idle task.
LEMMA OutsideTasksType ==
  ASSUME TypeInv, Start \/ Interrupt \/ IdleCleanUp \/ IdleYield PROVE TypeOK'
<1> USE DEF TypeInv, TypeOK
<1>1. CASE Start
  <2>1. ASSUME NEW u \in Task, TaskCreateBeforeStart(u) PROVE TypeOK'
    BY <2>1, AddNewTaskType DEF TaskCreateBeforeStart, TimeType, SwitchType, CountType, CallType,
       Label
  <2>2. CASE TaskStartScheduler
    BY <2>2, AddNewTaskType, SchedulerAssumption DEF TaskStartScheduler, TimeType, SwitchType,
       CountType, CallType, Label, Tick
  <2> QED BY <1>1, <2>1, <2>2 DEF Start
<1>2. CASE TickISR
  BY <1>2, IncrementTickType DEF TickISR, SwitchType, ListType, TimeType, CountType, NoticeType,
     CallType, listVars, prioVars, countVars, noticeVars, callVars
<1>3. CASE SignalFromISR
  BY <1>3, RemoveFromEventListType, PreemptsType DEF SignalFromISR, MayRequestSwitch, SwitchType,
     TimeType, CountType, NoticeType, CallType, timeVars, countVars, noticeVars, callVars
<1>4. CASE SwitchContext
  BY <1>4 DEF SwitchContext, SelectHighestPriorityTask, SwitchType, ListType, TimeType, CountType,
     NoticeType, CallType, listVars, prioVars, timeVars, countVars, noticeVars, callVars
<1>5. ASSUME NEW u \in Task, TaskResumeFromISR(u) PROVE TypeOK'
  BY <1>5, WakeFromISRType, PreemptsType DEF TaskResumeFromISR, MayRequestSwitch, SwitchType,
     TimeType, CountType, NoticeType, CallType, timeVars, countVars, noticeVars, callVars
<1>6. ASSUME NEW u \in Task, NEW a \in NotifyAction, NEW v \in ValuesFor(a), NotifyFromISR(u, a, v)
      PROVE  TypeOK'
  <2>1. NoticeType'
    BY <1>6, SetNotificationType DEF NotifyFromISR
  <2>2. ListType'
    BY <1>6, WakeFromISRType DEF NotifyFromISR, ListType, listVars
  <2> QED BY <1>6, <2>1, <2>2, PreemptsType DEF NotifyFromISR, MayRequestSwitch, SwitchType,
       TimeType, CountType, CallType, timeVars, countVars, callVars
<1>7. CASE IdleCleanUp
  <2>1. CallType'
    BY <1>7, LeaveType DEF IdleCleanUp, Label
  <2> QED BY <1>7, <2>1 DEF IdleCleanUp, SwitchType, ListType, TimeType, CountType, NoticeType,
       Unlinked, StateContainer, prioVars, timeVars, switchVars, noticeVars
<1>8. CASE IdleYield
  BY <1>8 DEF IdleYield, SwitchType, ListType, TimeType, CountType, NoticeType, CallType, listVars,
     prioVars, timeVars, countVars, noticeVars, callVars
<1> QED
  BY <1>1, <1>2, <1>3, <1>4, <1>5, <1>6, <1>7, <1>8 DEF Interrupt

\* The initial state has the types.
LEMMA TypeInvInit == Init => TypeInv
<1> SUFFICES ASSUME Init PROVE TypeInv
  OBVIOUS
<1> USE SchedulerAssumption DEF Init
<1>1. ListType
  BY DEF ListType, StateContainer, EventContainer
<1>2. TimeType
  BY DEF TimeType, Tick
<1>3. NoticeType
  BY DEF NoticeType
<1>4. CallType /\ AbortTargets
  BY DEF CallType, Label, Operation, AbortTargets, AbortSteps
<1>5. SwitchType
  BY Zenon DEF SwitchType
<1>6. CountType
  BY DEF CountType
<1> QED
  BY <1>1, <1>2, <1>3, <1>4, <1>5, <1>6 DEF TypeInv, TypeOK

-----------------------------------------------------------------------------

\* No form of a call's step but a Begin reaches the steps of an AbortDelay from outside.
LEMMA LeaveTargets ==
  ASSUME CallType, AbortTargets, NEW t \in Task, NEW l \in Label \ AbortSteps, Leave(t, l)
  PROVE  AbortTargets'
  BY DEF CallType, AbortTargets, Leave

\* ... nor a Goto,
LEMMA GotoTargets ==
  ASSUME CallType, AbortTargets, NEW t \in Task, NEW l \in Label, Goto(t, l),
         l \in AbortSteps => pc[t] \in AbortSteps
  PROVE  AbortTargets'
  BY DEF CallType, AbortTargets, Goto

\* ... nor what follows ResumeAll.
LEMMA ContinueTargets ==
  ASSUME CallType, AbortTargets, NEW t \in Task, Continue(t) PROVE AbortTargets'
  BY LeaveTargets, GotoTargets DEF Continue, Label, AbortSteps

\* The steps inside the kernel keep the targets of aborts.
LEMMA KernelStepTargets == ASSUME TypeInv, NEW t \in Task, KernelStep(t) PROVE AbortTargets'
<1> USE DEF TypeInv, TypeOK
<1>1. CASE DelayEnlist(t) \/ DelayUntilEnlist(t) \/ PlaceOnEventList(t) \/ NotifyTest(t)
             \/ NotifyEnlist(t)
  BY <1>1 DEF DelayEnlist, DelayUntilEnlist, PlaceOnEventList, NotifyTest, NotifyEnlist, CallType,
     AbortTargets, AbortSteps
<1>2. CASE NotifyReturn(t) \/ TaskSuspendFinish(t) \/ TaskCreateFinish(t)
  BY <1>2, LeaveTargets DEF NotifyReturn, TaskSuspendFinish, TaskCreateFinish, Label, AbortSteps
<1>3. CASE ResumeAll(t) \/ ResumeAllReturn(t) \/ YieldWithinApi(t)
  BY <1>3, ContinueTargets, GotoTargets DEF ResumeAll, ResumeAllReturn, YieldWithinApi, Label,
     AbortSteps
<1>4. CASE UnlockScheduler(t) \/ CatchUpPend(t)
  BY <1>4, GotoTargets DEF UnlockScheduler, CatchUpPend, Label, AbortSteps
<1>5. CASE AbortGetState(t) \/ AbortTestEvent(t) \/ AbortTestNotify(t) \/ AbortRemove(t)
             \/ AbortEvent(t) \/ AbortReady(t)
  BY <1>5, GotoTargets DEF AbortGetState, AbortTestEvent, AbortTestNotify, AbortRemove, AbortEvent,
     AbortReady, At, Label, AbortSteps
<1>6. CASE ReplayTick(t)
  BY <1>6 DEF ReplayTick, callVars, AbortTargets
<1> QED
  BY <1>1, <1>2, <1>3, <1>4, <1>5, <1>6 DEF KernelStep

\* So do the first steps of the calls.
LEMMA ApiCallTargets == ASSUME TypeInv, NEW t \in Task, ApiCall(t) PROVE AbortTargets'
<1> USE DEF TypeInv, TypeOK
<1>1. CASE Delay(t) \/ DelayUntil(t) \/ WaitEvent(t) \/ NotifyTake(t) \/ NotifyWait(t)
             \/ LockScheduler(t) \/ CatchUpTicks(t) \/ AbortDelay(t)
  BY <1>1 DEF Delay, DelayUntil, WaitEvent, NotifyTake, NotifyWait, LockScheduler, CatchUpTicks,
     AbortDelay, SuspendAllFor, Begin, CallType, AbortTargets, AbortSteps, Live
<1>2. CASE TaskDeleteSelf(t)
  BY <1>2, LeaveTargets DEF TaskDeleteSelf, Label, AbortSteps
<1>3. CASE SignalEvent(t)
  BY <1>3 DEF SignalEvent, callVars, AbortTargets
<1>4. ASSUME NEW u \in Task, TaskSuspend(t, u) \/ TaskCreate(t, u) PROVE AbortTargets'
  BY <1>4 DEF TaskSuspend, TaskCreate, AddNewTaskToReadyList, CallType, AbortTargets, AbortSteps
<1>5. ASSUME NEW u \in Task, TaskDelete(t, u) PROVE AbortTargets'
  BY <1>5, LeaveTargets DEF TaskDelete, Label, AbortSteps
<1>6. ASSUME NEW u \in Task, TaskResume(t, u) \/ NotifyStateClear(t, u) PROVE AbortTargets'
  BY <1>6 DEF TaskResume, NotifyStateClear, callVars, AbortTargets
<1>7. ASSUME NEW u \in Task, NEW p \in Prio, TaskPrioritySet(t, u, p) PROVE AbortTargets'
  BY <1>7 DEF TaskPrioritySet, callVars, AbortTargets
<1>8. ASSUME NEW u \in Task, NEW a \in NotifyAction, NEW v \in ValuesFor(a),
             GenericNotify(t, u, a, v)
      PROVE  AbortTargets'
  BY <1>8 DEF GenericNotify, callVars, AbortTargets
<1> QED
  BY <1>1, <1>2, <1>3, <1>4, <1>5, <1>6, <1>7, <1>8 DEF ApiCall

\* So do start-up, the interrupts and the idle task.
LEMMA OutsideTasksTargets ==
  ASSUME TypeInv, Start \/ Interrupt \/ IdleCleanUp \/ IdleYield PROVE AbortTargets'
<1> USE DEF TypeInv, TypeOK
<1>1. CASE Start
  BY <1>1, SchedulerAssumption DEF Start, TaskStartScheduler, TaskCreateBeforeStart,
     AddNewTaskToReadyList, CallType, AbortTargets, AbortSteps
<1>2. CASE Interrupt
  BY <1>2 DEF Interrupt, TickISR, SignalFromISR, SwitchContext, TaskResumeFromISR, NotifyFromISR,
     callVars, AbortTargets
<1>3. CASE IdleCleanUp
  BY <1>3, LeaveTargets DEF IdleCleanUp, Label, AbortSteps
<1>4. CASE IdleYield
  BY <1>4 DEF IdleYield, callVars, AbortTargets
<1> QED
  BY <1>1, <1>2, <1>3, <1>4

\* The strengthened type invariant is inductive.
LEMMA TypeInvStep == TypeInv /\ [Next]_vars => TypeInv'
<1> SUFFICES ASSUME TypeInv, [Next]_vars PROVE TypeInv'
  OBVIOUS
<1>1. CASE Next
  BY <1>1, KernelStepType, ApiCallType, OutsideTasksType, KernelStepTargets, ApiCallTargets,
     OutsideTasksTargets DEF Next, TypeInv
<1>2. CASE UNCHANGED vars
  BY <1>2 DEF vars, listVars, prioVars, timeVars, switchVars, countVars, noticeVars, callVars,
     TypeInv, TypeOK, AbortTargets, SwitchType, ListType, TimeType, CountType, NoticeType, CallType
<1> QED
  BY <1>1, <1>2

\* TypeOK is an invariant: the tick count, the wake times and the time of the next
\* wake-up stay in the range of TickType_t whatever its width, and AbortDelay always
\* has a task to abort.
THEOREM TypeCorrect == Spec => []TypeOK
<1>1. TypeInv => TypeOK
  BY DEF TypeInv
<1> QED
  BY <1>1, TypeInvInit, TypeInvStep, PTL DEF Spec

-----------------------------------------------------------------------------
(* Suspended sections.  Exclusion is not inductive by itself: ResumeAll ends *)
(* the section before the replay of the pended ticks, which goes on with     *)
(* interrupts disabled, and nothing is suspended before the scheduler runs.  *)

\* The task that replays pended ticks is the running one, and the scheduler runs again.
ReplayExclusive == \A t \in Task : pc[t] = "replay" => t = CurrentTCB /\ ~SchedulerSuspended
\* Before TaskStartScheduler no call of a task is under way.
QuietBeforeStart ==
  ~SchedulerRunning => ~SchedulerSuspended /\ \A t \in Task : pc[t] \in {"uncreated", "run"}
SectionInv == SuspendedSectionsExclusive /\ ReplayExclusive /\ QuietBeforeStart

\* It holds before anything has been called.
LEMMA SectionInvInit == Init => SectionInv
  BY DEF Init, SectionInv, SuspendedSectionsExclusive, ReplayExclusive, QuietBeforeStart,
     SuspendedSection

\* A step that leaves the calls, the running task and the suspension alone.
LEMMA SectionsUntouched ==
  ASSUME SectionInv, UNCHANGED <<pc, CurrentTCB, SchedulerSuspended, SchedulerRunning>>
  PROVE  SectionInv'
  BY DEF SectionInv, SuspendedSectionsExclusive, ReplayExclusive, QuietBeforeStart

\* A step of the running task t from inside a suspended section to inside it.
LEMMA SectionStays ==
  ASSUME CallType, SectionInv, NEW t \in Task, Runs(t), NEW l \in SuspendedSection,
         pc[t] \in SuspendedSection, pc' = [pc EXCEPT ![t] = l],
         UNCHANGED <<CurrentTCB, SchedulerSuspended, SchedulerRunning>>
  PROVE  SectionInv'
  BY DEF CallType, Runs, SectionInv, SuspendedSectionsExclusive, ReplayExclusive,
     QuietBeforeStart, SuspendedSection

\* ... and from outside to outside, a call that suspends nothing.
LEMMA NoSectionStays ==
  ASSUME CallType, SectionInv, NEW t \in Task, NEW l \in Label \ (SuspendedSection \cup {"replay"}),
         pc[t] \notin SuspendedSection, pc' = [pc EXCEPT ![t] = l], SchedulerRunning,
         UNCHANGED <<CurrentTCB, SchedulerSuspended, SchedulerRunning>>,
         ~SchedulerSuspended
  PROVE  SectionInv'
  BY DEF CallType, SectionInv, SuspendedSectionsExclusive, ReplayExclusive, QuietBeforeStart

\* TaskSuspendAll opens a section where there was none.
LEMMA SuspendAllForSection ==
  ASSUME CallType, SectionInv, NEW t \in Task, At(t, "run"), NEW l \in SuspendedSection,
         NEW o, NEW n, NEW u, SuspendAllFor(t, l, o, n, u)
  PROVE  SectionInv'
  BY DEF CallType, SectionInv, SuspendedSectionsExclusive, ReplayExclusive, QuietBeforeStart,
     SuspendedSection, At, Runs, SuspendAllFor, Begin, countVars

\* The steps inside the kernel keep the sections exclusive.
LEMMA KernelStepSection ==
  ASSUME TypeInv, SectionInv, NEW t \in Task, KernelStep(t) PROVE SectionInv'
<1> USE DEF TypeInv, TypeOK, At, switchVars, countVars
<1>1. CASE DelayEnlist(t) \/ DelayUntilEnlist(t) \/ PlaceOnEventList(t) \/ NotifyEnlist(t)
  BY <1>1, SectionStays DEF DelayEnlist, DelayUntilEnlist, PlaceOnEventList, NotifyEnlist,
     SuspendedSection
<1>2. CASE NotifyTest(t)
  BY <1>2, SectionStays DEF NotifyTest, SuspendedSection
<1>3. CASE UnlockScheduler(t) \/ CatchUpPend(t)
  BY <1>3, SectionStays DEF UnlockScheduler, CatchUpPend, Goto, SuspendedSection
<1>4. CASE AbortGetState(t) \/ AbortTestEvent(t) \/ AbortTestNotify(t) \/ AbortRemove(t)
             \/ AbortEvent(t) \/ AbortReady(t)
  BY <1>4, SectionStays DEF AbortGetState, AbortTestEvent, AbortTestNotify, AbortRemove, AbortEvent,
     AbortReady, Goto, SuspendedSection
<1>5. CASE ResumeAll(t)
  <2>1. SchedulerSuspended /\ ~SchedulerSuspended' /\ pc' = [pc EXCEPT ![t] = "replay"]
    BY <1>5 DEF ResumeAll, Goto, Runs, SectionInv, SuspendedSectionsExclusive, SuspendedSection
  <2> QED
    BY <1>5, <2>1 DEF ResumeAll, Runs, CallType, SectionInv, SuspendedSectionsExclusive,
       ReplayExclusive, QuietBeforeStart, SuspendedSection
<1>6. CASE ReplayTick(t)
  BY <1>6, SectionsUntouched DEF ReplayTick, callVars
<1>7. CASE ResumeAllReturn(t) \/ YieldWithinApi(t)
  <2>1. ~SchedulerSuspended /\ pc[t] \notin SuspendedSection
    BY <1>7 DEF ResumeAllReturn, YieldWithinApi, Runs, SectionInv, SuspendedSectionsExclusive,
       SuspendedSection
  <2>2. PICK l \in {"yield", "notified", "run"} : pc' = [pc EXCEPT ![t] = l]
    BY <1>7 DEF ResumeAllReturn, YieldWithinApi, Continue, Goto, Leave
  <2> QED
    BY <1>7, <2>1, <2>2, NoSectionStays DEF ResumeAllReturn, YieldWithinApi, Runs,
       SuspendedSection, Label
<1>8. CASE NotifyReturn(t) \/ TaskSuspendFinish(t) \/ TaskCreateFinish(t)
  <2>1. ~SchedulerSuspended /\ pc[t] \notin SuspendedSection
    BY <1>8 DEF NotifyReturn, TaskSuspendFinish, TaskCreateFinish, Runs, SectionInv,
       SuspendedSectionsExclusive, SuspendedSection
  <2> QED
    BY <1>8, <2>1, NoSectionStays DEF NotifyReturn, TaskSuspendFinish, TaskCreateFinish, Leave,
       Runs, SuspendedSection, Label
<1> QED
  BY <1>1, <1>2, <1>3, <1>4, <1>5, <1>6, <1>7, <1>8 DEF KernelStep

\* So do the first steps of the calls.
LEMMA ApiCallSection ==
  ASSUME TypeInv, SectionInv, NEW t \in Task, ApiCall(t) PROVE SectionInv'
<1> USE DEF TypeInv, TypeOK
<1> DEFINE Outside == ~SchedulerSuspended /\ SchedulerRunning /\ \A u \in Task : pc[u] \notin SuspendedSection
<1>0. At(t, "run") => Outside
  BY DEF At, Runs, SectionInv, SuspendedSectionsExclusive, SuspendedSection
<1>1. CASE Delay(t) \/ DelayUntil(t) \/ WaitEvent(t) \/ NotifyTake(t) \/ NotifyWait(t)
             \/ LockScheduler(t) \/ CatchUpTicks(t) \/ AbortDelay(t)
  BY <1>1, SuspendAllForSection DEF CallsApi, Delay, DelayUntil, WaitEvent, NotifyTake, NotifyWait,
     LockScheduler, CatchUpTicks, AbortDelay, SuspendedSection
<1>2. CASE TaskDeleteSelf(t)
  BY <1>0, <1>2, NoSectionStays DEF TaskDeleteSelf, CallsApi, Leave, SuspendedSection, Label
<1>3. CASE SignalEvent(t)
  BY <1>3, SectionsUntouched DEF SignalEvent, callVars, countVars
<1>4. ASSUME NEW u \in Task, TaskSuspend(t, u) PROVE SectionInv'
  BY <1>0, <1>4, NoSectionStays DEF TaskSuspend, CallsApi, SuspendedSection, Label, switchVars,
     countVars
<1>5. ASSUME NEW u \in Task, TaskDelete(t, u) PROVE SectionInv'
  BY <1>0, <1>5, NoSectionStays DEF TaskDelete, CallsApi, Leave, SuspendedSection, Label, switchVars
<1>6. ASSUME NEW u \in Task, TaskCreate(t, u) PROVE SectionInv'
  <2>1. \A v \in Task : pc'[v] \in {pc[v], "run", "created"}
    BY <1>6 DEF TaskCreate, AddNewTaskToReadyList, CallType
  <2> QED
    BY <1>0, <1>6, <2>1 DEF TaskCreate, CallsApi, At, Runs, AddNewTaskToReadyList, SectionInv,
       SuspendedSectionsExclusive, ReplayExclusive, QuietBeforeStart, SuspendedSection
<1>7. ASSUME NEW u \in Task, TaskResume(t, u) \/ NotifyStateClear(t, u) PROVE SectionInv'
  BY <1>7, SectionsUntouched DEF TaskResume, NotifyStateClear, callVars, countVars, switchVars
<1>8. ASSUME NEW u \in Task, NEW p \in Prio, TaskPrioritySet(t, u, p) PROVE SectionInv'
  BY <1>8, SectionsUntouched DEF TaskPrioritySet, callVars, countVars
<1>9. ASSUME NEW u \in Task, NEW a \in NotifyAction, NEW v \in ValuesFor(a),
             GenericNotify(t, u, a, v)
      PROVE  SectionInv'
  BY <1>9, SectionsUntouched DEF GenericNotify, callVars, countVars
<1> QED
  BY <1>1, <1>2, <1>3, <1>4, <1>5, <1>6, <1>7, <1>8, <1>9 DEF ApiCall

\* So do start-up, the interrupts and the idle task.
LEMMA OutsideTasksSection ==
  ASSUME TypeInv, SectionInv, Start \/ Interrupt \/ IdleCleanUp \/ IdleYield PROVE SectionInv'
<1> USE DEF TypeInv, TypeOK
<1>1. CASE Start
  <2>1. \A v \in Task : pc'[v] \in {"uncreated", "run"}
    BY <1>1, SchedulerAssumption DEF Start, TaskCreateBeforeStart, TaskStartScheduler,
       AddNewTaskToReadyList, SectionInv, QuietBeforeStart
  <2> QED
    BY <1>1, <2>1 DEF Start, TaskCreateBeforeStart, TaskStartScheduler, SectionInv,
       SuspendedSectionsExclusive, ReplayExclusive, QuietBeforeStart, SuspendedSection
<1>2. CASE SwitchContext
  BY <1>2 DEF SwitchContext, InterruptsEnabled, SectionInv, SuspendedSectionsExclusive,
     ReplayExclusive, QuietBeforeStart, countVars, callVars
<1>3. CASE TickISR \/ SignalFromISR
  BY <1>3, SectionsUntouched DEF TickISR, SignalFromISR, callVars, countVars
<1>4. ASSUME NEW u \in Task, TaskResumeFromISR(u) PROVE SectionInv'
  BY <1>4, SectionsUntouched DEF TaskResumeFromISR, callVars, countVars
<1>5. ASSUME NEW u \in Task, NEW a \in NotifyAction, NEW v \in ValuesFor(a), NotifyFromISR(u, a, v)
      PROVE  SectionInv'
  BY <1>5, SectionsUntouched DEF NotifyFromISR, callVars, countVars
<1>6. CASE IdleCleanUp
  <2>1. ~SchedulerSuspended /\ SchedulerRunning
    BY <1>6, SchedulerAssumption DEF IdleCleanUp, At, Runs, SectionInv,
       SuspendedSectionsExclusive, SuspendedSection
  <2>2. \A v \in Task : pc'[v] \in {pc[v], "uncreated"}
    BY <1>6 DEF IdleCleanUp, Leave, CallType
  <2> QED
    BY <1>6, <2>1, <2>2 DEF IdleCleanUp, switchVars, SectionInv, SuspendedSectionsExclusive,
       ReplayExclusive, QuietBeforeStart, SuspendedSection
<1>7. CASE IdleYield
  BY <1>7, SectionsUntouched DEF IdleYield, callVars, countVars
<1> QED
  BY <1>1, <1>2, <1>3, <1>4, <1>5, <1>6, <1>7 DEF Interrupt

\* The strengthened exclusion is inductive.
LEMMA SectionInvStep == TypeInv /\ SectionInv /\ [Next]_vars => SectionInv'
<1> SUFFICES ASSUME TypeInv, SectionInv, [Next]_vars PROVE SectionInv'
  OBVIOUS
<1>1. CASE Next
  BY <1>1, KernelStepSection, ApiCallSection, OutsideTasksSection DEF Next
<1>2. CASE UNCHANGED vars
  BY <1>2, SectionsUntouched DEF vars, switchVars, countVars, callVars
<1> QED
  BY <1>1, <1>2

\* Suspended sections exclude one another: however many tasks there are and whatever
\* interrupts and pended yields come, only the running task is between a
\* TaskSuspendAll and the end of its ResumeAll, and only then is the scheduler suspended.
THEOREM SectionsExclude == Spec => []SuspendedSectionsExclusive
<1>1. SectionInv => SuspendedSectionsExclusive
  BY DEF SectionInv
<1> QED
  BY <1>1, TypeInvInit, TypeInvStep, SectionInvInit, SectionInvStep, PTL DEF Spec
=============================================================================
