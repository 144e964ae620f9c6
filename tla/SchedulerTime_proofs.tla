------------------------- MODULE SchedulerTime_proofs -------------------------
(***************************************************************************)
(* Theorems about the time in Scheduler, for every width of the tick       *)
(* count: the two delayed lists cover every wake-up through the wraps, and *)
(* together they implement the countdowns of DelayClock.                   *)
(***************************************************************************)
EXTENDS SchedulerLists_proofs

(* The inductive invariant. *)

\* A call that blocks for a number of ticks blocks for one at least, and for no more than
\* TickType_t holds; DelayUntil asks for a tick count.
ArgInv ==
  \A t \in Task : /\ pc[t] \in {"delay", "event", "enlist"} => arg[t] \in 1 .. MaxDelay
                  /\ pc[t] \in {"until", "take", "wait"} => arg[t] \in Tick

\* The tasks in DelayedTasks wake after the tick count, in this epoch of it, and not before the
\* time the tick looks at them; those in OverflowDelayed wake below it, in the next.
Covered ==
  \A t \in Task :
    /\ StateList[t] = DelayedTasks => TickCount < WakeTime[t] /\ NextTaskUnblockTime <= WakeTime[t]
    /\ StateList[t] = OverflowDelayed => WakeTime[t] < TickCount

\* TaskStartScheduler sets the tick count to what it is.
BootTick == ~SchedulerRunning => TickCount = InitialTick

TimeInv == ListInv /\ ArgInv /\ Covered /\ BootTick

-----------------------------------------------------------------------------
(* What a step does to the delayed lists: it is a tick, the running task blocks, or the *)
(* tasks that sleep go on as they were or stop.                                         *)

\* Tick counts are numbers.
LEMMA Times ==
  ASSUME TypeOK
  PROVE  /\ MaxDelay \in Nat \ {0} /\ TickMod = MaxDelay + 1
         /\ TickCount \in 0 .. MaxDelay /\ NextTaskUnblockTime \in 0 .. MaxDelay
         /\ \A t \in Task : WakeTime[t] \in 0 .. MaxDelay
  BY SchedulerAssumption DEF TypeOK, TimeType, Tick, TickMod

\* The remainder of a sum of two tick counts, or of a difference.
LEMMA WrapOnce ==
  ASSUME NEW n \in Int, -TickMod <= n, n < 2 * TickMod
  PROVE  n % TickMod = IF n < 0 THEN n + TickMod ELSE IF n < TickMod THEN n ELSE n - TickMod
<1>0. TickMod \in Nat \ {0}
  BY SchedulerAssumption DEF TickMod
<1>1. CASE n < 0
  BY <1>0, <1>1
<1>2. CASE 0 <= n /\ n < TickMod
  BY <1>0, <1>2
<1>3. CASE TickMod <= n
  BY <1>0, <1>3
<1> QED
  BY <1>0, <1>1, <1>2, <1>3

\* The running task t goes to sleep for n ticks, or for good if n is MaxDelay and b allows it.
Blocking(t, n, b) ==
  /\ StateList[t] \in Prio /\ n \in 1 .. MaxDelay
  /\ UNCHANGED TickCount
  /\ \E L \in {DelayedTasks, OverflowDelayed, SuspendedTasks} :
       /\ StateList' = [StateList EXCEPT ![t] = L]
       /\ L = SuspendedTasks <=> n = MaxDelay /\ b
       /\ L = DelayedTasks => TickCount + n <= MaxDelay
                              /\ WakeTime' = [WakeTime EXCEPT ![t] = TickCount + n]
       /\ L = OverflowDelayed => MaxDelay < TickCount + n
                                 /\ WakeTime' = [WakeTime EXCEPT ![t] = TickCount + n - TickMod]
       /\ L = SuspendedTasks => UNCHANGED WakeTime
       /\ NextTaskUnblockTime' = IF L = DelayedTasks /\ TickCount + n < NextTaskUnblockTime
                                 THEN TickCount + n ELSE NextTaskUnblockTime

\* Where a call asks for time.
AskLabels == {"delay", "until", "event", "enlist"}

\* n is what the call of t asks for, and b tells whether it may wait for good; the call goes on.
Answers(t, n, b) ==
  /\ pc[t] \in AskLabels
  /\ b <=> pc[t] \in {"event", "enlist"}
  /\ n = IF pc[t] = "until" THEN (arg[t] - TickCount) % TickMod ELSE arg[t]
  /\ pc' = [pc EXCEPT ![t] = "resume"]
  /\ UNCHANGED arg

\* The call of t goes on without blocking.
Forgoing(t) ==
  /\ pc[t] \in {"until", "event"}
  /\ pc' = [pc EXCEPT ![t] = "resume"]
  /\ UNCHANGED <<arg, StateList, WakeTime, TickCount, NextTaskUnblockTime>>

\* A call of the running task t comes to where it asks for time.
AsksFor(t) ==
  /\ pc[t] \notin AskLabels /\ StateList[t] \in Prio
  /\ \E label \in AskLabels, n \in 0 .. MaxDelay :
       pc' = [pc EXCEPT ![t] = label] /\ arg' = [arg EXCEPT ![t] = n]
  /\ UNCHANGED <<StateList, WakeTime, TickCount, NextTaskUnblockTime>>

\* No task begins to ask, or stops asking, or asks for something else.
AsksKept ==
  \A t \in Task : pc[t] \in AskLabels \/ pc'[t] \in AskLabels =>
                     pc'[t] = pc[t] /\ arg'[t] = arg[t]

\* No task falls asleep, none that sleeps on sees its time change, no tick is counted.
Resting ==
  /\ UNCHANGED TickCount
  /\ \A t \in Task : \/ ~Delayed(t)'
                     \/ StateList'[t] = StateList[t] /\ WakeTime'[t] = WakeTime[t]
  /\ \A t \in Task : StateList'[t] = DelayedTasks =>
                       NextTaskUnblockTime' = NextTaskUnblockTime \/ NextTaskUnblockTime' <= WakeTime'[t]

Ticking == \E switch \in BOOLEAN : IncrementTick(switch)

\* AddCurrentTaskToDelayedList of a task that has not blocked yet.
LEMMA BlockTimes ==
  ASSUME ListInv, CurrentTCB \in Task, StateList[CurrentTCB] \in Prio, UNCHANGED TickCount,
         NEW n \in 1 .. MaxDelay, NEW b \in BOOLEAN, AddCurrentTaskToDelayedList(n, b)
  PROVE  Blocking(CurrentTCB, n, b)
<1> DEFINE wake == (TickCount + n) % TickMod
           list == IF n = MaxDelay /\ b THEN SuspendedTasks
                   ELSE IF wake < TickCount THEN OverflowDelayed ELSE DelayedTasks
<1>1. /\ StateList' = [StateList EXCEPT ![CurrentTCB] = Relinked(@, list)]
      /\ WakeTime' = IF list = SuspendedTasks THEN WakeTime ELSE [WakeTime EXCEPT ![CurrentTCB] = wake]
      /\ NextTaskUnblockTime' = IF list = DelayedTasks /\ wake < NextTaskUnblockTime THEN wake
                                ELSE NextTaskUnblockTime
  BY DEF AddCurrentTaskToDelayedList
<1>2. /\ MaxDelay \in Nat \ {0} /\ TickMod = MaxDelay + 1
      /\ TickCount \in 0 .. MaxDelay /\ NextTaskUnblockTime \in 0 .. MaxDelay
  BY Times DEF ListInv, TypeInv
<1>3. wake = IF TickCount + n < TickMod THEN TickCount + n ELSE TickCount + n - TickMod
  <2> DEFINE k == TickCount + n
  <2>1. k \in Int /\ -TickMod <= k /\ k < 2 * TickMod /\ ~(k < 0)
    BY <1>2
  <2> HIDE DEF k
  <2>2. k % TickMod = IF k < TickMod THEN k ELSE k - TickMod
    BY <2>1, WrapOnce
  <2> QED
    BY <1>2, <2>2 DEF k
<1>4. list \in {DelayedTasks, OverflowDelayed, SuspendedTasks}
  OBVIOUS
<1>5. StateList' = [StateList EXCEPT ![CurrentTCB] = list]
  BY <1>1, Apart DEF Relinked
<1>6. list = DelayedTasks => wake = TickCount + n /\ TickCount + n <= MaxDelay
  BY <1>2, <1>3, Apart
<1>7. list = OverflowDelayed => wake = TickCount + n - TickMod /\ MaxDelay < TickCount + n
  BY <1>2, <1>3, Apart
<1>8. list = SuspendedTasks <=> n = MaxDelay /\ b
  BY Apart
<1> HIDE DEF wake, list
<1> QED
  BY <1>1, <1>4, <1>5, <1>6, <1>7, <1>8, Apart DEF Blocking

\* A step that leaves the tick count and the times alone and puts no task in a delayed list.
LEMMA RestingIf ==
  ASSUME UNCHANGED TickCount,
         \A t \in Task : \/ StateList'[t] = StateList[t] /\ WakeTime'[t] = WakeTime[t]
                         \/ StateList'[t] \notin {DelayedTasks, OverflowDelayed},
         \/ UNCHANGED NextTaskUnblockTime
         \/ ResetNextTaskUnblockTime(StateList') /\ UNCHANGED WakeTime
  PROVE  Resting
<1>1. ResetNextTaskUnblockTime(StateList') /\ UNCHANGED WakeTime =>
        \A t \in Task : StateList'[t] = DelayedTasks => NextTaskUnblockTime' <= WakeTime'[t]
  BY DEF ResetNextTaskUnblockTime, IsHeadValue
<1> QED
  BY <1>1 DEF Resting, Delayed

\* A list that is not one of the delayed lists.
LEMMA NotDelayed ==
  ASSUME NEW c \in Prio \cup {NoList, SuspendedTasks, TasksWaitingTermination, Corrupt}
  PROVE  c \notin {DelayedTasks, OverflowDelayed}
  BY Apart

\* The steps that call AddCurrentTaskToDelayedList, or find that they need not: the task sleeps
\* for what its call asks for.
BlockStep(t) == DelayEnlist(t) \/ DelayUntilEnlist(t) \/ PlaceOnEventList(t) \/ NotifyEnlist(t)
LEMMA BlockStepTimes ==
  ASSUME ListInv, ArgInv, NEW t \in Task, BlockStep(t)
  PROVE  \/ \E n \in 1 .. MaxDelay, b \in BOOLEAN : Blocking(t, n, b) /\ Answers(t, n, b)
         \/ Forgoing(t)
<1> USE DEF ListInv, TypeInv, TypeOK, ListType, CallType, At
<1>0. CurrentTCB = t /\ StateList[t] \in Prio
  BY RunnerIsReady DEF BlockStep, DelayEnlist, DelayUntilEnlist, PlaceOnEventList, NotifyEnlist,
     SuspendedSection
<1>1. pc' = [pc EXCEPT ![t] = "resume"] /\ UNCHANGED <<arg, TickCount>>
  BY DEF BlockStep, DelayEnlist, DelayUntilEnlist, PlaceOnEventList, NotifyEnlist
<1>2. CASE DelayEnlist(t)
  <2>1. arg[t] \in 1 .. MaxDelay /\ pc[t] = "delay" /\ AddCurrentTaskToDelayedList(arg[t], FALSE)
    BY <1>2 DEF DelayEnlist, ArgInv
  <2>2. Blocking(t, arg[t], FALSE)
    BY <1>0, <1>1, <2>1, BlockTimes
  <2> QED
    BY <1>1, <2>1, <2>2 DEF Answers, AskLabels
<1>3. CASE NotifyEnlist(t)
  <2>1. arg[t] \in 1 .. MaxDelay /\ pc[t] = "enlist" /\ AddCurrentTaskToDelayedList(arg[t], TRUE)
    BY <1>3 DEF NotifyEnlist, ArgInv
  <2>2. Blocking(t, arg[t], TRUE)
    BY <1>0, <1>1, <2>1, BlockTimes
  <2> QED
    BY <1>1, <2>1, <2>2 DEF Answers, AskLabels
<1>4. CASE PlaceOnEventList(t)
  <2>1. arg[t] \in 1 .. MaxDelay /\ pc[t] = "event"
    BY <1>4 DEF PlaceOnEventList, ArgInv
  <2>2. \/ AddCurrentTaskToDelayedList(arg[t], TRUE)
        \/ UNCHANGED <<StateList, WakeTime, NextTaskUnblockTime>>
    BY <1>4 DEF PlaceOnEventList, listVars
  <2>3. CASE AddCurrentTaskToDelayedList(arg[t], TRUE)
    <3>1. Blocking(t, arg[t], TRUE)
      BY <1>0, <1>1, <2>1, <2>3, BlockTimes
    <3> QED
      BY <1>1, <2>1, <3>1 DEF Answers, AskLabels
  <2> QED
    BY <1>1, <2>1, <2>2, <2>3 DEF Forgoing
<1>5. CASE DelayUntilEnlist(t)
  <2> DEFINE n == (arg[t] - TickCount) % TickMod
  <2>0. /\ MaxDelay \in Nat \ {0} /\ TickMod = MaxDelay + 1 /\ TickCount \in 0 .. MaxDelay
        /\ pc[t] = "until" /\ arg[t] \in 0 .. MaxDelay
    BY <1>5, Times DEF DelayUntilEnlist, ArgInv, Tick
  <2>1. PICK prev \in Tick :
          LET wake == arg[t]
              xShouldDelay == IF TickCount < prev THEN wake < prev /\ wake > TickCount
                              ELSE wake < prev \/ wake > TickCount
          IN  IF xShouldDelay
              THEN AddCurrentTaskToDelayedList((wake - TickCount) % TickMod, FALSE)
              ELSE UNCHANGED <<StateList, TopReadyPriority, WakeTime, NextTaskUnblockTime,
                               DelayAborted>>
    BY <1>5 DEF DelayUntilEnlist
  <2>2. arg[t] # TickCount => n \in 1 .. MaxDelay
    <3>1. /\ arg[t] - TickCount \in Int /\ -TickMod <= arg[t] - TickCount
          /\ arg[t] - TickCount < 2 * TickMod
      BY <2>0
    <3>2. n = IF arg[t] - TickCount < 0 THEN arg[t] - TickCount + TickMod
              ELSE IF arg[t] - TickCount < TickMod THEN arg[t] - TickCount
              ELSE arg[t] - TickCount - TickMod
      BY <3>1, WrapOnce
    <3> HIDE DEF n
    <3> QED
      BY <2>0, <3>2
  <2>3. \/ arg[t] # TickCount /\ AddCurrentTaskToDelayedList(n, FALSE)
        \/ UNCHANGED <<StateList, WakeTime, NextTaskUnblockTime>>
    <3>1. \/ /\ AddCurrentTaskToDelayedList(n, FALSE)
             /\ arg[t] > TickCount \/ (arg[t] < prev /\ ~(TickCount < prev))
          \/ UNCHANGED <<StateList, WakeTime, NextTaskUnblockTime>>
      BY <2>1
    <3> HIDE DEF n
    <3>2. arg[t] > TickCount \/ (arg[t] < prev /\ ~(TickCount < prev)) => arg[t] # TickCount
      BY <2>0 DEF Tick
    <3> QED
      BY <3>1, <3>2
  <2>4. CASE arg[t] # TickCount /\ AddCurrentTaskToDelayedList(n, FALSE)
    <3>1. n \in 1 .. MaxDelay
      BY <2>2, <2>4
    <3>2. Answers(t, n, FALSE)
      BY <1>1, <2>0 DEF Answers, AskLabels
    <3> HIDE DEF n
    <3>3. Blocking(t, n, FALSE)
      BY <1>0, <1>1, <2>4, <3>1, BlockTimes
    <3> QED
      BY <3>1, <3>2, <3>3
  <2>5. CASE UNCHANGED <<StateList, WakeTime, NextTaskUnblockTime>>
    BY <1>1, <2>0, <2>5 DEF Forgoing
  <2> QED
    BY <2>3, <2>4, <2>5
<1> QED
  BY <1>2, <1>3, <1>4, <1>5 DEF BlockStep

\* The steps after which a call asks for time.
AskStep(t) == Delay(t) \/ DelayUntil(t) \/ WaitEvent(t) \/ NotifyTest(t)
LEMMA AskStepTimes ==
  ASSUME ListInv, ArgInv, NEW t \in Task, AskStep(t) PROVE AsksFor(t) \/ AsksKept
<1> USE DEF ListInv, TypeInv, TypeOK, CallType, At
<1>1. CASE Delay(t) \/ DelayUntil(t) \/ WaitEvent(t)
  <2>1. PICK label \in AskLabels, n \in 0 .. MaxDelay, o \in Operation :
          SuspendAllFor(t, label, o, n, NULL)
    BY <1>1, SchedulerAssumption DEF Delay, DelayUntil, WaitEvent, AskLabels, Operation, Tick
  <2>2. pc[t] = "run" /\ StateList[t] \in Prio
    BY <1>1, RunnerIsReady DEF Delay, DelayUntil, WaitEvent, CallsApi
  <2> QED
    BY <2>1, <2>2 DEF AsksFor, AskLabels, SuspendAllFor, Begin, listVars, timeVars
<1>2. CASE NotifyTest(t)
  <2>1. /\ pc[t] \in {"take", "wait"} /\ arg[t] \in 0 .. MaxDelay
        /\ UNCHANGED <<arg, StateList, WakeTime, TickCount, NextTaskUnblockTime>>
    BY <1>2 DEF NotifyTest, ArgInv, Tick, listVars, timeVars
  <2>2. pc' \in {[pc EXCEPT ![t] = "resume"], [pc EXCEPT ![t] = "enlist"]}
    BY <1>2 DEF NotifyTest
  <2>3. StateList[t] \in Prio
    BY <1>2, RunnerIsReady DEF NotifyTest, SuspendedSection
  <2>4. CASE pc' = [pc EXCEPT ![t] = "resume"]
    BY <2>1, <2>4 DEF AsksKept, AskLabels
  <2>5. CASE pc' = [pc EXCEPT ![t] = "enlist"]
    <3>1. arg' = [arg EXCEPT ![t] = arg[t]]
      BY <2>1
    <3> QED
      BY <2>1, <2>3, <2>5, <3>1 DEF AsksFor, AskLabels
  <2> QED
    BY <2>2, <2>4, <2>5
<1> QED
  BY <1>1, <1>2 DEF AskStep

\* The other steps inside the kernel.
LEMMA KernelStepTimes ==
  ASSUME ListInv, NEW t \in Task, KernelStep(t), ~BlockStep(t)
  PROVE  Ticking \/ Resting
<1> USE DEF ListInv, TypeInv, TypeOK, ListType, CallType, At
<1>4. CASE NotifyTest(t) \/ NotifyReturn(t) \/ ResumeAllReturn(t) \/ YieldWithinApi(t)
           \/ UnlockScheduler(t) \/ CatchUpPend(t) \/ AbortGetState(t) \/ AbortTestEvent(t)
           \/ AbortTestNotify(t) \/ TaskCreateFinish(t) \/ AbortEvent(t)
  BY <1>4, RestingIf DEF NotifyTest, NotifyReturn, ResumeAllReturn, YieldWithinApi, UnlockScheduler,
     CatchUpPend, AbortGetState, AbortTestEvent, AbortTestNotify, TaskCreateFinish, AbortEvent, listVars,
     timeVars
<1>5. CASE TaskSuspendFinish(t)
  <2>1. UNCHANGED <<StateList, WakeTime, TickCount>> /\ ResetNextTaskUnblockTime(StateList)
    BY <1>5 DEF TaskSuspendFinish, listVars
  <2>2. ResetNextTaskUnblockTime(StateList')
    BY <2>1
  <2> QED
    BY <2>1, <2>2, RestingIf
<1>6. CASE ResumeAll(t)
  <2>1. UNCHANGED <<TickCount, WakeTime>>
    BY <1>6 DEF ResumeAll
  <2>2. ~SchedulerSuspended'
    BY <1>6, ResumeEffect
  <2>3. UNCHANGED NextTaskUnblockTime \/ ResetNextTaskUnblockTime(StateList')
    BY <1>6, <2>2 DEF ResumeAll
  <2>4. \A u \in Task : \/ StateList'[u] = StateList[u] /\ WakeTime'[u] = WakeTime[u]
                        \/ StateList'[u] \notin {DelayedTasks, OverflowDelayed}
    BY <1>6, <2>1, ResumeEffect, NotDelayed
  <2> QED
    BY <2>1, <2>3, <2>4, RestingIf
<1>7. CASE ReplayTick(t)
  BY <1>7 DEF ReplayTick, Ticking
<1>8. CASE AbortRemove(t) \/ AbortReady(t)
  <2>1. UNCHANGED <<TickCount, WakeTime, NextTaskUnblockTime>>
    BY <1>8 DEF AbortRemove, AbortReady, timeVars
  <2>2. \A u \in Task : u # target[t] => StateList'[u] = StateList[u]
    BY <1>8 DEF AbortRemove, AbortReady
  <2>3. \A u \in Task : u = target[t] => StateList'[u] \in Prio \cup {NoList, Corrupt}
    BY <1>8 DEF AbortRemove, AbortReady, Unlinked, Appended
  <2>4. \A u \in Task : \/ StateList'[u] = StateList[u] /\ WakeTime'[u] = WakeTime[u]
                        \/ StateList'[u] \notin {DelayedTasks, OverflowDelayed}
    BY <2>1, <2>2, <2>3, NotDelayed
  <2> QED
    BY <2>1, <2>4, RestingIf
<1> QED
  BY <1>4, <1>5, <1>6, <1>7, <1>8 DEF KernelStep, BlockStep

\* The first steps of the calls: only those that suspend, delete or create a task touch the
\* lists of the sleepers, and none puts a task there.
LEMMA ApiCallTimes == ASSUME ListInv, NEW t \in Task, ApiCall(t) PROVE Resting
<1> USE DEF ListInv, TypeInv, TypeOK, ListType, CallType
<1>1. CASE Delay(t) \/ DelayUntil(t) \/ WaitEvent(t) \/ NotifyTake(t) \/ NotifyWait(t)
             \/ LockScheduler(t) \/ CatchUpTicks(t) \/ AbortDelay(t)
  BY <1>1, RestingIf DEF Delay, DelayUntil, WaitEvent, NotifyTake, NotifyWait, LockScheduler,
     CatchUpTicks, AbortDelay, SuspendAllFor, listVars, timeVars
<1>2. CASE TaskDeleteSelf(t)
  <2>1. UNCHANGED timeVars /\ StateList' = [StateList EXCEPT ![t] = Relinked(@, TasksWaitingTermination)]
    BY <1>2 DEF TaskDeleteSelf
  <2>2. StateList'[t] \in {TasksWaitingTermination, Corrupt}
    BY <2>1 DEF Relinked
  <2> QED
    BY <2>1, <2>2, NotDelayed, RestingIf DEF timeVars
<1>3. CASE SignalEvent(t)
  <2>1. PICK u \in Task : RemoveFromEventList(u) /\ UNCHANGED timeVars
    BY <1>3 DEF SignalEvent
  <2> QED
    BY <2>1, RemoveEffect, NotDelayed, RestingIf DEF timeVars
<1>4. ASSUME NEW u \in Task, TaskSuspend(t, u) PROVE Resting
  <2>1. UNCHANGED timeVars /\ StateList' = [StateList EXCEPT ![u] = Relinked(@, SuspendedTasks)]
    BY <1>4 DEF TaskSuspend
  <2>2. StateList'[u] \in {SuspendedTasks, Corrupt}
    BY <2>1 DEF Relinked
  <2> QED
    BY <2>1, <2>2, NotDelayed, RestingIf DEF timeVars
<1>5. ASSUME NEW u \in Task, TaskDelete(t, u) PROVE Resting
  <2>1. /\ UNCHANGED <<TickCount, WakeTime>> /\ ResetNextTaskUnblockTime(StateList')
        /\ StateList' = [StateList EXCEPT ![u] = Unlinked(@)]
    BY <1>5 DEF TaskDelete
  <2>2. StateList'[u] \in {NoList, Corrupt}
    BY <2>1 DEF Unlinked
  <2> QED
    BY <2>1, <2>2, NotDelayed, RestingIf
<1>6. ASSUME NEW u \in Task, TaskResume(t, u) PROVE Resting
  <2>1. UNCHANGED timeVars /\ StateList' = [StateList EXCEPT ![u] = Priority[u]]
    BY <1>6, Apart DEF TaskResume, Suspended, MakeReady, Relinked
  <2> QED
    BY <2>1, NotDelayed, RestingIf DEF timeVars
<1>7. ASSUME NEW u \in Task, NotifyStateClear(t, u) PROVE Resting
  BY <1>7, RestingIf DEF NotifyStateClear, listVars, timeVars
<1>8. ASSUME NEW u \in Task, TaskCreate(t, u) PROVE Resting
  <2>1. /\ UNCHANGED <<TickCount, NextTaskUnblockTime>>
        /\ StateList' = [StateList EXCEPT ![u] = CreatePriority[u]] /\ CreatePriority[u] \in Prio
    BY <1>8, CreateEffect DEF TaskCreate
  <2>2. WakeTime' = [WakeTime EXCEPT ![u] = 0]
    BY <1>8 DEF TaskCreate, AddNewTaskToReadyList
  <2> QED
    BY <2>1, <2>2, NotDelayed, RestingIf DEF TimeType
<1>9. ASSUME NEW u \in Task, NEW p \in Prio, TaskPrioritySet(t, u, p) PROVE Resting
  <2>1. UNCHANGED timeVars /\ StateList' \in {StateList, [StateList EXCEPT ![u] = p]}
    BY <1>9 DEF TaskPrioritySet
  <2> QED
    BY <2>1, NotDelayed, RestingIf DEF timeVars
<1>10. ASSUME NEW u \in Task, NEW a \in NotifyAction, NEW v \in ValuesFor(a),
              GenericNotify(t, u, a, v)
       PROVE  Resting
  <2>1. /\ UNCHANGED timeVars
        /\ \/ UNCHANGED StateList
           \/ StateList' = [StateList EXCEPT ![u] = Relinked(@, Priority[u])]
    BY <1>10 DEF GenericNotify, MakeReady
  <2>2. StateList'[u] = StateList[u] \/ StateList'[u] \in Prio \cup {Corrupt}
    BY <2>1 DEF Relinked
  <2> QED
    BY <2>1, <2>2, NotDelayed, RestingIf DEF timeVars
<1> QED
  BY <1>1, <1>2, <1>3, <1>4, <1>5, <1>6, <1>7, <1>8, <1>9, <1>10 DEF ApiCall

\* Start-up, the interrupts and the idle task: TaskStartScheduler sets the tick count, when no
\* task sleeps yet; the tick counts.
LEMMA OutsideTasksTimes ==
  ASSUME ListInv, BootTick, Start \/ Interrupt \/ IdleCleanUp \/ IdleYield
  PROVE  Ticking \/ Resting
<1> USE DEF ListInv, TypeInv, TypeOK, ListType, CallType
<1>1. CASE Start
  <2>1. PICK u \in Task : AddNewTaskToReadyList(u, NULL, "run") /\ ~SchedulerRunning
    BY <1>1, SchedulerAssumption DEF Start, TaskStartScheduler, TaskCreateBeforeStart
  <2>2. \A w \in Task : StateList[w] \in Prio \cup {NoList}
    BY <2>1 DEF Booted
  <2>3. StateList' = [StateList EXCEPT ![u] = CreatePriority[u]] /\ CreatePriority[u] \in Prio
    BY <2>1, CreateEffect
  <2>4. \A w \in Task : StateList'[w] \in Prio \cup {NoList}
    BY <2>2, <2>3
  <2>5. \A w \in Task : StateList'[w] \notin {DelayedTasks, OverflowDelayed}
    BY <2>4, NotDelayed
  <2>6. UNCHANGED TickCount
    BY <1>1, <2>1 DEF Start, TaskStartScheduler, TaskCreateBeforeStart, BootTick
  <2> QED
    BY <2>5, <2>6, Apart DEF Resting, Delayed
<1>2. CASE TickISR
  <2>1. CASE SchedulerSuspended
    BY <1>2, <2>1, RestingIf DEF TickISR, listVars
  <2>2. CASE ~SchedulerSuspended
    BY <1>2, <2>2 DEF TickISR, Ticking
  <2> QED
    BY <2>1, <2>2
<1>3. CASE SignalFromISR
  <2>1. PICK u \in Task : RemoveFromEventList(u) /\ UNCHANGED timeVars
    BY <1>3 DEF SignalFromISR
  <2> QED
    BY <2>1, RemoveEffect, NotDelayed, RestingIf DEF timeVars
<1>4. CASE SwitchContext \/ IdleYield
  BY <1>4, RestingIf DEF SwitchContext, IdleYield, listVars, timeVars
<1>5. ASSUME NEW u \in Task, TaskResumeFromISR(u) PROVE Resting
  <2>1. UNCHANGED timeVars
    BY <1>5 DEF TaskResumeFromISR
  <2>2. StateList' \in {StateList, [StateList EXCEPT ![u] = Priority[u]]}
    BY <1>5, WakeEffect DEF TaskResumeFromISR
  <2> QED
    BY <2>1, <2>2, NotDelayed, RestingIf DEF timeVars
<1>6. ASSUME NEW u \in Task, NEW a \in NotifyAction, NEW v \in ValuesFor(a), NotifyFromISR(u, a, v)
      PROVE  Resting
  <2>1. UNCHANGED timeVars
    BY <1>6 DEF NotifyFromISR
  <2>2. StateList' \in {StateList, [StateList EXCEPT ![u] = Priority[u]]}
    BY <1>6, WakeEffect DEF NotifyFromISR, Waiting, listVars
  <2> QED
    BY <2>1, <2>2, NotDelayed, RestingIf DEF timeVars
<1>7. CASE IdleCleanUp
  <2>1. PICK u \in Task : StateList' = [StateList EXCEPT ![u] = Unlinked(@)]
    BY <1>7 DEF IdleCleanUp
  <2>2. UNCHANGED timeVars /\ StateList'[u] \in {NoList, Corrupt}
    BY <1>7, <2>1 DEF IdleCleanUp, Unlinked
  <2> QED
    BY <2>1, <2>2, NotDelayed, RestingIf DEF timeVars
<1> QED
  BY <1>1, <1>2, <1>3, <1>4, <1>5, <1>6, <1>7 DEF Interrupt

\* The other steps leave alone what the calls ask for: only the running task moves inside a
\* call, and a task deleted is not in a suspended section.
Silent == \A t \in Task : ~BlockStep(t) /\ ~AskStep(t)
LEMMA SilentSteps == ASSUME ListInv, [Next]_vars, Silent PROVE AsksKept
<1> USE DEF ListInv, TypeInv, TypeOK, CallType, At, AsksKept, AskLabels
<1>1. ASSUME NEW t \in Task, KernelStep(t) PROVE AsksKept
  <2>1. CASE NotifyReturn(t) \/ TaskSuspendFinish(t) \/ TaskCreateFinish(t)
    BY <2>1 DEF NotifyReturn, TaskSuspendFinish, TaskCreateFinish, Leave
  <2>2. CASE ResumeAll(t)
    BY <2>2, ResumeEffect DEF Goto
  <2>3. CASE ReplayTick(t)
    BY <2>3 DEF ReplayTick, callVars
  <2>4. CASE ResumeAllReturn(t) \/ YieldWithinApi(t)
    BY <2>4 DEF ResumeAllReturn, YieldWithinApi, Goto, Leave, Continue
  <2>5. CASE UnlockScheduler(t) \/ CatchUpPend(t) \/ AbortGetState(t) \/ AbortTestEvent(t)
             \/ AbortTestNotify(t) \/ AbortRemove(t) \/ AbortEvent(t) \/ AbortReady(t)
    BY <2>5 DEF UnlockScheduler, CatchUpPend, AbortGetState, AbortTestEvent, AbortTestNotify,
       AbortRemove, AbortEvent, AbortReady, Goto
  <2> QED
    BY <1>1, <2>1, <2>2, <2>3, <2>4, <2>5 DEF KernelStep, Silent, BlockStep, AskStep
<1>2. ASSUME NEW t \in Task, ApiCall(t) PROVE AsksKept
  <2>0. CurrentTCB = t /\ pc[t] \in {"run", "locked"}
    BY <1>2, ApiFrame
  <2>1. CASE NotifyTake(t) \/ NotifyWait(t) \/ LockScheduler(t) \/ CatchUpTicks(t) \/ AbortDelay(t)
    BY <2>0, <2>1 DEF NotifyTake, NotifyWait, LockScheduler, CatchUpTicks, AbortDelay, SuspendAllFor,
       Begin
  <2>2. CASE TaskDeleteSelf(t)
    BY <2>0, <2>2 DEF TaskDeleteSelf, Leave
  <2>3. CASE SignalEvent(t)
    BY <2>3 DEF SignalEvent, callVars
  <2>4. ASSUME NEW u \in Task, TaskSuspend(t, u) \/ TaskResume(t, u) \/ NotifyStateClear(t, u)
        PROVE  AsksKept
    BY <2>0, <2>4 DEF TaskSuspend, TaskResume, NotifyStateClear, callVars
  <2>5. ASSUME NEW u \in Task, TaskDelete(t, u) PROVE AsksKept
    <3>1. pc[u] \notin SuspendedSection
      BY <2>0, <2>5 DEF TaskDelete, SectionInv, SuspendedSectionsExclusive
    <3> QED
      BY <2>5, <3>1 DEF TaskDelete, Leave, SuspendedSection
  <2>6. ASSUME NEW u \in Task, TaskCreate(t, u) PROVE AsksKept
    BY <2>0, <2>6, CreateEffect DEF TaskCreate
  <2>7. ASSUME NEW u \in Task, NEW p \in Prio, TaskPrioritySet(t, u, p) PROVE AsksKept
    BY <2>7 DEF TaskPrioritySet, callVars
  <2>8. ASSUME NEW u \in Task, NEW a \in NotifyAction, NEW v \in ValuesFor(a),
               GenericNotify(t, u, a, v)
        PROVE  AsksKept
    BY <2>8 DEF GenericNotify, callVars
  <2> QED
    BY <1>2, <2>1, <2>2, <2>3, <2>4, <2>5, <2>6, <2>7, <2>8 DEF ApiCall, Silent, AskStep
<1>3. CASE Start
  <2>1. PICK u \in Task : AddNewTaskToReadyList(u, NULL, "run") /\ UNCHANGED arg
    BY <1>3, SchedulerAssumption DEF Start, TaskStartScheduler, TaskCreateBeforeStart
  <2> QED
    BY <2>1, CreateEffect, SchedulerAssumption
<1>4. CASE TickISR \/ SignalFromISR \/ SwitchContext \/ IdleYield
  BY <1>4 DEF TickISR, SignalFromISR, SwitchContext, IdleYield, callVars
<1>5. ASSUME NEW u \in Task, TaskResumeFromISR(u) PROVE AsksKept
  BY <1>5 DEF TaskResumeFromISR, callVars
<1>6. ASSUME NEW u \in Task, NEW a \in NotifyAction, NEW v \in ValuesFor(a), NotifyFromISR(u, a, v)
      PROVE  AsksKept
  BY <1>6 DEF NotifyFromISR, callVars
<1>7. CASE IdleCleanUp
  <2>1. PICK u \in Task : StateList[u] = TasksWaitingTermination /\ Leave(u, "uncreated")
    BY <1>7 DEF IdleCleanUp
  <2>2. pc[u] = "dead"
    BY <2>1 DEF NoTaskLost
  <2> QED
    BY <2>1, <2>2 DEF Leave
<1>8. CASE UNCHANGED vars
  BY <1>8 DEF vars, callVars
<1> QED
  BY <1>1, <1>2, <1>3, <1>4, <1>5, <1>6, <1>7, <1>8 DEF Next, Interrupt

\* So every step is of one of these kinds.
LEMMA StepTimes ==
  ASSUME TimeInv, [Next]_vars
  PROVE  \/ \E t \in Task, n \in 1 .. MaxDelay, b \in BOOLEAN : Blocking(t, n, b) /\ Answers(t, n, b)
         \/ \E t \in Task : Forgoing(t) \/ AsksFor(t)
         \/ AsksKept /\ (Ticking \/ Resting)
<1> USE DEF TimeInv
<1>1. ASSUME NEW t \in Task, BlockStep(t)
      PROVE  \/ \E n \in 1 .. MaxDelay, b \in BOOLEAN : Blocking(t, n, b) /\ Answers(t, n, b)
             \/ Forgoing(t)
  BY <1>1, BlockStepTimes
<1>2. ASSUME NEW t \in Task, AskStep(t) PROVE AsksFor(t) \/ (AsksKept /\ (Ticking \/ Resting))
  <2>1. Resting
    <3>1. UNCHANGED <<StateList, WakeTime, TickCount, NextTaskUnblockTime>>
      BY <1>2 DEF AskStep, Delay, DelayUntil, WaitEvent, NotifyTest, SuspendAllFor, listVars, timeVars
    <3> QED
      BY <3>1, RestingIf
  <2> QED
    BY <1>2, <2>1, AskStepTimes
<1>3. CASE Silent
  <2>1. ASSUME UNCHANGED vars PROVE Resting
    BY <2>1, RestingIf DEF vars, listVars, timeVars
  <2>2. ASSUME Next PROVE Ticking \/ Resting
    BY <1>3, <2>2, KernelStepTimes, ApiCallTimes, OutsideTasksTimes DEF Next, Silent
  <2> QED
    BY <1>3, <2>1, <2>2, SilentSteps
<1> QED
  BY <1>1, <1>2, <1>3 DEF Silent

-----------------------------------------------------------------------------
(* Countdowns. *)

\* The ticks t still sleeps: what DelayClock counts.
Left(t) == CASE StateList[t] = DelayedTasks -> WakeTime[t] - TickCount
             [] StateList[t] = OverflowDelayed -> WakeTime[t] + TickMod - TickCount
             [] OTHER -> 0

LEMMA LeftIs ==
  ASSUME NEW t \in Task
  PROVE  /\ StateList[t] = DelayedTasks => Left(t) = WakeTime[t] - TickCount
         /\ StateList[t] = OverflowDelayed => Left(t) = WakeTime[t] + TickMod - TickCount
         /\ ~Delayed(t) => Left(t) = 0
         /\ StateList'[t] = DelayedTasks => Left(t)' = WakeTime'[t] - TickCount'
         /\ StateList'[t] = OverflowDelayed => Left(t)' = WakeTime'[t] + TickMod - TickCount'
         /\ ~Delayed(t)' => Left(t)' = 0
  BY Apart DEF Left, Delayed

\* A tick takes one off every countdown, through the wrap too, when the lists change places
\* and DelayedTasks is empty; it wakes those whose countdown ends, and no other.
LEMMA TickTimes ==
  ASSUME ListInv, Covered, Ticking
  PROVE  /\ Covered'
         /\ \A t \in Task : Left(t)' = IF Left(t) > 0 THEN Left(t) - 1 ELSE 0
<1> DEFINE tick == (TickCount + 1) % TickMod
           list == IF tick = 0 THEN SwitchDelayedLists(StateList) ELSE StateList
<1>1. PICK switch \in BOOLEAN : IncrementTick(switch)
  BY DEF Ticking
<1>2. PICK next \in Tick :
        /\ IF tick = 0 THEN IsHeadValue(next, list, WakeTime) ELSE next = NextTaskUnblockTime
        /\ LET due == IF tick < next THEN {}
                      ELSE {t \in Task : list[t] = DelayedTasks /\ WakesBy(t, tick)}
           IN  /\ TickCount' = tick
               /\ StateList' = [t \in Task |-> IF t \in due THEN Priority[t] ELSE list[t]]
               /\ IF tick < next THEN NextTaskUnblockTime' = next
                  ELSE ResetNextTaskUnblockTime(StateList')
  BY <1>1 DEF IncrementTick
<1> DEFINE due == IF tick < next THEN {}
                  ELSE {t \in Task : list[t] = DelayedTasks /\ WakesBy(t, tick)}
<1>3. UNCHANGED WakeTime
  BY <1>1 DEF IncrementTick
<1>4. /\ MaxDelay \in Nat \ {0} /\ TickMod = MaxDelay + 1 /\ TickCount \in 0 .. MaxDelay
      /\ \A t \in Task : WakeTime[t] \in 0 .. MaxDelay /\ Priority[t] \in Prio
  BY Times DEF ListInv, TypeInv, TypeOK, ListType
<1>5. next \in 0 .. MaxDelay
  BY DEF Tick
<1>6. tick = IF TickCount = MaxDelay THEN 0 ELSE TickCount + 1
  <2> DEFINE k == TickCount + 1
  <2>1. k \in Int /\ -TickMod <= k /\ k < 2 * TickMod /\ ~(k < 0)
    BY <1>4
  <2> HIDE DEF k
  <2>2. k % TickMod = IF k < TickMod THEN k ELSE k - TickMod
    BY <2>1, WrapOnce
  <2> QED
    BY <1>4, <2>2 DEF k
\* The lists as the tick finds them, after the change of places.
<1>7. ASSUME NEW t \in Task
      PROVE  /\ list[t] = DelayedTasks => /\ Left(t) = WakeTime[t] - tick + 1
                                         /\ tick <= WakeTime[t] /\ next <= WakeTime[t]
             /\ list[t] = OverflowDelayed => /\ Left(t) = WakeTime[t] + TickMod - tick + 1
                                            /\ WakeTime[t] < tick
             /\ list[t] \notin {DelayedTasks, OverflowDelayed} => Left(t) = 0
  <2>1. CASE TickCount = MaxDelay
    <3>1. tick = 0
      BY <1>6, <2>1
    <3>2. list[t] = IF StateList[t] = DelayedTasks THEN OverflowDelayed
                    ELSE IF StateList[t] = OverflowDelayed THEN DelayedTasks ELSE StateList[t]
      BY <3>1 DEF SwitchDelayedLists
    <3>3. list[t] = DelayedTasks => next <= WakeTime[t]
      BY <1>2, <3>1 DEF IsHeadValue
    <3>4. StateList[t] # DelayedTasks
      BY <1>4, <2>1 DEF Covered
    <3>5. list[t] = DelayedTasks => StateList[t] = OverflowDelayed
      BY <3>2, <3>4, Apart
    <3>6. list[t] # OverflowDelayed
      BY <3>2, <3>4, Apart
    <3>7. list[t] # DelayedTasks => ~Delayed(t)
      BY <3>2, <3>4, Apart DEF Delayed
    <3> HIDE DEF list, tick
    <3> QED
      BY <1>4, <2>1, <3>1, <3>3, <3>5, <3>6, <3>7, LeftIs
  <2>2. CASE TickCount # MaxDelay
    <3>1. tick = TickCount + 1 /\ tick # 0
      BY <1>4, <1>6, <2>2
    <3>2. list[t] = StateList[t] /\ next = NextTaskUnblockTime
      BY <1>2, <3>1
    <3>3. list[t] \notin {DelayedTasks, OverflowDelayed} => ~Delayed(t)
      BY <3>2 DEF Delayed
    <3>4. /\ list[t] = DelayedTasks => TickCount < WakeTime[t] /\ next <= WakeTime[t]
          /\ list[t] = OverflowDelayed => WakeTime[t] < TickCount
      BY <3>2 DEF Covered
    <3> HIDE DEF list, tick
    <3> QED
      BY <1>4, <1>5, <3>1, <3>2, <3>3, <3>4, LeftIs
  <2> QED
    BY <2>1, <2>2
\* Those that are due, and the others.
<1>8. \A t \in due : t \in Task /\ list[t] = DelayedTasks /\ WakeTime[t] <= tick
  BY DEF WakesBy
<1>9. \A t \in Task \ due : list[t] = DelayedTasks => tick < WakeTime[t]
  <2> SUFFICES ASSUME NEW t \in Task \ due, list[t] = DelayedTasks PROVE tick < WakeTime[t]
    OBVIOUS
  <2>1. CASE tick < next
    <3>1. next <= WakeTime[t]
      BY <1>7
    <3>2. tick \in Int
      BY <1>4, <1>6
    <3> HIDE DEF tick, list, due
    <3> QED
      BY <1>4, <1>5, <2>1, <3>1, <3>2
  <2>2. CASE ~(tick < next)
    <3>1. ~(WakeTime[t] <= tick)
      BY <2>2 DEF WakesBy
    <3>2. tick \in Int
      BY <1>4, <1>6
    <3> HIDE DEF tick, list, due
    <3> QED
      BY <1>4, <3>1, <3>2
  <2> QED
    BY <2>1, <2>2
<1>10. /\ TickCount' = tick
       /\ StateList' = [t \in Task |-> IF t \in due THEN Priority[t] ELSE list[t]]
       /\ IF tick < next THEN NextTaskUnblockTime' = next ELSE ResetNextTaskUnblockTime(StateList')
  BY <1>2
<1>11. tick \in 0 .. MaxDelay
  BY <1>4, <1>6
<1> HIDE DEF due, list, tick
<1>12. ASSUME NEW t \in due PROVE ~Delayed(t)' /\ Left(t)' = 0 /\ Left(t) = 1
  <2>1. t \in Task /\ list[t] = DelayedTasks /\ WakeTime[t] <= tick
    BY <1>8
  <2>2. StateList'[t] \in Prio
    BY <1>4, <1>10, <2>1
  <2>3. ~Delayed(t)'
    BY <2>2, NotDelayed DEF Delayed
  <2>4. Left(t) = WakeTime[t] - tick + 1 /\ tick <= WakeTime[t]
    BY <1>7, <2>1
  <2> QED
    BY <1>4, <1>11, <2>1, <2>3, <2>4, LeftIs
<1>13. ASSUME NEW t \in Task \ due
       PROVE  /\ Left(t)' = IF Left(t) > 0 THEN Left(t) - 1 ELSE 0
              /\ StateList'[t] = DelayedTasks => TickCount' < WakeTime'[t] /\ NextTaskUnblockTime' <= WakeTime'[t]
              /\ StateList'[t] = OverflowDelayed => WakeTime'[t] < TickCount'
  <2>1. StateList'[t] = list[t] /\ TickCount' = tick /\ WakeTime'[t] = WakeTime[t]
    BY <1>3, <1>10
  <2>2. CASE list[t] = DelayedTasks
    <3>1. Left(t) = WakeTime[t] - tick + 1 /\ tick < WakeTime[t] /\ Left(t)' = WakeTime[t] - tick
      BY <1>7, <1>9, <2>1, <2>2, LeftIs
    <3>2. NextTaskUnblockTime' <= WakeTime'[t]
      <4>1. CASE tick < next
        BY <1>7, <1>10, <2>1, <2>2, <4>1
      <4>2. CASE ~(tick < next)
        BY <1>3, <1>10, <2>1, <2>2, <4>2 DEF ResetNextTaskUnblockTime, IsHeadValue
      <4> QED
        BY <4>1, <4>2
    <3> QED
      BY <1>4, <1>11, <2>1, <2>2, <3>1, <3>2, Apart
  <2>3. CASE list[t] = OverflowDelayed
    <3>1. /\ Left(t) = WakeTime[t] + TickMod - tick + 1 /\ WakeTime[t] < tick
          /\ Left(t)' = WakeTime[t] + TickMod - tick
      BY <1>7, <2>1, <2>3, LeftIs
    <3> QED
      BY <1>4, <1>11, <2>1, <2>3, <3>1, Apart
  <2>4. CASE list[t] \notin {DelayedTasks, OverflowDelayed}
    <3>1. Left(t) = 0 /\ Left(t)' = 0
      BY <1>7, <2>1, <2>4, LeftIs DEF Delayed
    <3> QED
      BY <2>1, <2>4, <3>1
  <2> QED
    BY <2>2, <2>3, <2>4
<1>14. Covered'
  BY <1>12, <1>13 DEF Covered, Delayed
<1> QED
  BY <1>12, <1>13, <1>14

\* A task that blocks for n ticks, and not for good, gets a countdown of n.
LEMMA BlockingTimes ==
  ASSUME ListInv, Covered, NEW t \in Task, NEW n \in 1 .. MaxDelay, NEW b \in BOOLEAN,
         Blocking(t, n, b)
  PROVE  /\ Covered'
         /\ Left(t) = 0 /\ Left(t)' = IF n = MaxDelay /\ b THEN 0 ELSE n
         /\ \A u \in Task \ {t} : Left(u)' = Left(u)
<1>1. /\ MaxDelay \in Nat \ {0} /\ TickMod = MaxDelay + 1 /\ TickCount \in 0 .. MaxDelay
      /\ NextTaskUnblockTime \in 0 .. MaxDelay
      /\ \A u \in Task : WakeTime[u] \in 0 .. MaxDelay
      /\ StateList \in [Task -> StateContainer] /\ WakeTime \in [Task -> Tick]
  BY Times DEF ListInv, TypeInv, TypeOK, ListType, TimeType
<1>2. PICK L \in {DelayedTasks, OverflowDelayed, SuspendedTasks} :
       /\ StateList' = [StateList EXCEPT ![t] = L]
       /\ L = SuspendedTasks <=> n = MaxDelay /\ b
       /\ L = DelayedTasks => TickCount + n <= MaxDelay
                              /\ WakeTime' = [WakeTime EXCEPT ![t] = TickCount + n]
       /\ L = OverflowDelayed => MaxDelay < TickCount + n
                                 /\ WakeTime' = [WakeTime EXCEPT ![t] = TickCount + n - TickMod]
       /\ L = SuspendedTasks => UNCHANGED WakeTime
       /\ NextTaskUnblockTime' = IF L = DelayedTasks /\ TickCount + n < NextTaskUnblockTime
                                 THEN TickCount + n ELSE NextTaskUnblockTime
  BY DEF Blocking
<1>3. UNCHANGED TickCount /\ StateList[t] \in Prio
  BY DEF Blocking
<1>4. Left(t) = 0
  BY <1>3, NotDelayed, LeftIs DEF Delayed
<1>5. NextTaskUnblockTime' <= NextTaskUnblockTime /\ NextTaskUnblockTime' \in 0 .. MaxDelay
  BY <1>1, <1>2
<1>6. ASSUME NEW u \in Task \ {t}
      PROVE  /\ Left(u)' = Left(u)
             /\ StateList'[u] = DelayedTasks => TickCount' < WakeTime'[u] /\ NextTaskUnblockTime' <= WakeTime'[u]
             /\ StateList'[u] = OverflowDelayed => WakeTime'[u] < TickCount'
  <2>1. StateList'[u] = StateList[u] /\ WakeTime'[u] = WakeTime[u]
    BY <1>1, <1>2
  <2>2. Left(u)' = Left(u)
    BY <1>3, <2>1 DEF Left
  <2>3. /\ StateList[u] = DelayedTasks => TickCount < WakeTime[u] /\ NextTaskUnblockTime <= WakeTime[u]
        /\ StateList[u] = OverflowDelayed => WakeTime[u] < TickCount
    BY DEF Covered
  <2>4. WakeTime[u] \in 0 .. MaxDelay
    BY <1>1
  <2> QED
    BY <1>1, <1>3, <1>5, <2>1, <2>2, <2>3, <2>4
<1>7. /\ Left(t)' = IF n = MaxDelay /\ b THEN 0 ELSE n
      /\ StateList'[t] = DelayedTasks => TickCount' < WakeTime'[t] /\ NextTaskUnblockTime' <= WakeTime'[t]
      /\ StateList'[t] = OverflowDelayed => WakeTime'[t] < TickCount'
  <2>1. StateList'[t] = L
    BY <1>1, <1>2
  <2>0. L = SuspendedTasks <=> n = MaxDelay /\ b
    BY <1>2
  <2>2. CASE L = DelayedTasks
    <3>1. WakeTime'[t] = TickCount + n /\ Left(t)' = WakeTime'[t] - TickCount
      BY <1>1, <1>2, <1>3, <2>1, <2>2, LeftIs
    <3>2. NextTaskUnblockTime' <= TickCount + n
      BY <1>1, <1>2, <2>2
    <3> QED
      BY <1>1, <1>3, <2>0, <2>1, <2>2, <3>1, <3>2, Apart
  <2>3. CASE L = OverflowDelayed
    <3>1. WakeTime'[t] = TickCount + n - TickMod /\ Left(t)' = WakeTime'[t] + TickMod - TickCount
      BY <1>1, <1>2, <1>3, <2>1, <2>3, LeftIs
    <3> QED
      BY <1>1, <1>3, <2>0, <2>1, <2>3, <3>1, Apart
  <2>4. CASE L = SuspendedTasks
    <3>1. ~Delayed(t)' /\ StateList'[t] \notin {DelayedTasks, OverflowDelayed}
      BY <2>1, <2>4, NotDelayed DEF Delayed
    <3> QED
      BY <2>0, <2>4, <3>1, LeftIs
  <2> QED
    BY <2>2, <2>3, <2>4
<1>8. Covered'
  BY <1>6, <1>7 DEF Covered
<1> QED
  BY <1>4, <1>6, <1>7, <1>8

\* Tasks that sleep on keep their countdown, the others lose it.
LEMMA RestingTimes ==
  ASSUME ListInv, ListInv', Covered, Resting
  PROVE  Covered' /\ \A t \in Task : Left(t)' = IF Delayed(t)' THEN Left(t) ELSE 0
<1>1. /\ MaxDelay \in Nat /\ NextTaskUnblockTime \in 0 .. MaxDelay
      /\ NextTaskUnblockTime' \in 0 .. MaxDelay
      /\ \A t \in Task : WakeTime[t] \in 0 .. MaxDelay
  BY Times, SchedulerAssumption DEF ListInv, TypeInv, TypeOK, TimeType, Tick
<1>2. Covered'
  BY <1>1 DEF Resting, Covered, Delayed
<1>3. ASSUME NEW t \in Task PROVE Left(t)' = IF Delayed(t)' THEN Left(t) ELSE 0
  <2>1. CASE Delayed(t)'
    BY <2>1 DEF Resting, Left
  <2>2. CASE ~Delayed(t)'
    BY <2>2, LeftIs
  <2> QED
    BY <2>1, <2>2
<1> QED
  BY <1>2, <1>3

-----------------------------------------------------------------------------
(* The invariant is inductive. *)

\* A step that begins or goes on with a call that blocks has a number of ticks to block for.
LEMMA ArgInvStep == ASSUME ListInv, ArgInv, [Next]_vars PROVE ArgInv'
<1> USE DEF ListInv, TypeInv, TypeOK, CallType, ArgInv
<1>1. ASSUME NEW t \in Task, KernelStep(t) PROVE ArgInv'
  <2> USE <1>1
  <2>1. CASE DelayEnlist(t) \/ DelayUntilEnlist(t) \/ PlaceOnEventList(t) \/ NotifyEnlist(t)
    BY <2>1 DEF DelayEnlist, DelayUntilEnlist, PlaceOnEventList, NotifyEnlist
  <2>2. CASE NotifyTest(t)
    <3>1. arg[t] \in Tick /\ UNCHANGED arg
      BY <2>2 DEF NotifyTest, At
    <3>2. \/ pc' = [pc EXCEPT ![t] = "resume"]
          \/ arg[t] > 0 /\ pc' = [pc EXCEPT ![t] = "enlist"]
      BY <2>2 DEF NotifyTest
    <3>3. arg[t] > 0 => arg[t] \in 1 .. MaxDelay
      BY <3>1, SchedulerAssumption DEF Tick
    <3> QED
      BY <3>1, <3>2, <3>3
  <2>3. CASE NotifyReturn(t) \/ TaskSuspendFinish(t) \/ TaskCreateFinish(t)
    BY <2>3 DEF NotifyReturn, TaskSuspendFinish, TaskCreateFinish, Leave
  <2>4. CASE ResumeAll(t)
    BY <2>4, ResumeEffect DEF Goto
  <2>5. CASE ReplayTick(t)
    BY <2>5 DEF ReplayTick, callVars
  <2>6. CASE ResumeAllReturn(t) \/ YieldWithinApi(t)
    BY <2>6 DEF ResumeAllReturn, YieldWithinApi, Goto, Leave, Continue
  <2>7. CASE UnlockScheduler(t) \/ CatchUpPend(t) \/ AbortGetState(t) \/ AbortTestEvent(t)
             \/ AbortTestNotify(t) \/ AbortRemove(t) \/ AbortEvent(t) \/ AbortReady(t)
    BY <2>7 DEF UnlockScheduler, CatchUpPend, AbortGetState, AbortTestEvent, AbortTestNotify,
       AbortRemove, AbortEvent, AbortReady, Goto
  <2> QED
    BY <2>1, <2>2, <2>3, <2>4, <2>5, <2>6, <2>7 DEF KernelStep
<1>2. ASSUME NEW t \in Task, ApiCall(t) PROVE ArgInv'
  <2>1. CASE Delay(t) \/ DelayUntil(t) \/ WaitEvent(t) \/ NotifyTake(t) \/ NotifyWait(t)
             \/ LockScheduler(t) \/ CatchUpTicks(t) \/ AbortDelay(t)
    BY <2>1 DEF Delay, DelayUntil, WaitEvent, NotifyTake, NotifyWait, LockScheduler, CatchUpTicks,
       AbortDelay, SuspendAllFor, Begin
  <2>2. CASE TaskDeleteSelf(t)
    BY <2>2 DEF TaskDeleteSelf, Leave
  <2>3. CASE SignalEvent(t)
    BY <2>3 DEF SignalEvent, callVars
  <2>4. ASSUME NEW u \in Task, TaskSuspend(t, u) \/ TaskResume(t, u) \/ NotifyStateClear(t, u)
        PROVE  ArgInv'
    BY <2>4 DEF TaskSuspend, TaskResume, NotifyStateClear, callVars
  <2>5. ASSUME NEW u \in Task, TaskDelete(t, u) PROVE ArgInv'
    BY <2>5 DEF TaskDelete, Leave
  <2>6. ASSUME NEW u \in Task, TaskCreate(t, u) PROVE ArgInv'
    BY <2>6, CreateEffect DEF TaskCreate
  <2>7. ASSUME NEW u \in Task, NEW p \in Prio, TaskPrioritySet(t, u, p) PROVE ArgInv'
    BY <2>7 DEF TaskPrioritySet, callVars
  <2>8. ASSUME NEW u \in Task, NEW a \in NotifyAction, NEW v \in ValuesFor(a),
               GenericNotify(t, u, a, v)
        PROVE  ArgInv'
    BY <2>8 DEF GenericNotify, callVars
  <2> QED
    BY <1>2, <2>1, <2>2, <2>3, <2>4, <2>5, <2>6, <2>7, <2>8 DEF ApiCall
<1>3. CASE Start
  <2>1. PICK u \in Task : AddNewTaskToReadyList(u, NULL, "run") /\ UNCHANGED arg
    BY <1>3, SchedulerAssumption DEF Start, TaskStartScheduler, TaskCreateBeforeStart
  <2> QED
    BY <2>1, CreateEffect, SchedulerAssumption
<1>4. CASE TickISR \/ SignalFromISR \/ SwitchContext \/ IdleYield
  BY <1>4 DEF TickISR, SignalFromISR, SwitchContext, IdleYield, callVars
<1>5. ASSUME NEW u \in Task, TaskResumeFromISR(u) PROVE ArgInv'
  BY <1>5 DEF TaskResumeFromISR, callVars
<1>6. ASSUME NEW u \in Task, NEW a \in NotifyAction, NEW v \in ValuesFor(a), NotifyFromISR(u, a, v)
      PROVE  ArgInv'
  BY <1>6 DEF NotifyFromISR, callVars
<1>7. CASE IdleCleanUp
  BY <1>7 DEF IdleCleanUp, Leave
<1>8. CASE UNCHANGED vars
  BY <1>8 DEF vars, callVars
<1> QED
  BY <1>1, <1>2, <1>3, <1>4, <1>5, <1>6, <1>7, <1>8 DEF Next, Interrupt

\* The tick count changes only once the scheduler runs.
LEMMA BootTickStep == ASSUME ListInv, BootTick, [Next]_vars PROVE BootTick'
<1>1. ASSUME NEW t \in Task, KernelStep(t) \/ ApiCall(t) PROVE BootTick'
  <2>1. SchedulerRunning'
    BY <1>1, KernelFrame, ApiFrame DEF Runs
  <2> QED
    BY <2>1 DEF BootTick
<1>2. CASE Interrupt \/ IdleCleanUp \/ IdleYield
  <2>1. SchedulerRunning'
    BY <1>2 DEF Interrupt, TickISR, SignalFromISR, SwitchContext, TaskResumeFromISR, NotifyFromISR,
       IdleCleanUp, IdleYield, InterruptsEnabled, At, Runs, countVars
  <2> QED
    BY <2>1 DEF BootTick
<1>3. CASE Start
  BY <1>3 DEF Start, TaskStartScheduler, TaskCreateBeforeStart, BootTick
<1>4. CASE UNCHANGED vars
  BY <1>4 DEF vars, timeVars, countVars, BootTick
<1> QED
  BY <1>1, <1>2, <1>3, <1>4 DEF Next

LEMMA TimeInvInit == Init => TimeInv
<1> SUFFICES ASSUME Init PROVE TimeInv
  OBVIOUS
<1>1. ArgInv
  BY DEF Init, ArgInv
<1>2. Covered
  BY Apart DEF Init, Covered
<1>3. BootTick
  BY DEF Init, BootTick
<1> QED
  BY <1>1, <1>2, <1>3, ListInvInit DEF TimeInv

LEMMA TimeInvStep == TimeInv /\ [Next]_vars => TimeInv'
<1> SUFFICES ASSUME TimeInv, [Next]_vars PROVE TimeInv'
  OBVIOUS
<1>1. ListInv' /\ ArgInv' /\ BootTick'
  BY ListInvStep, ArgInvStep, BootTickStep DEF TimeInv
<1>2. Covered'
  <2>1. ASSUME NEW t \in Task, Forgoing(t) \/ AsksFor(t) PROVE Resting
    BY <2>1, RestingIf DEF Forgoing, AsksFor
  <2>2. \/ \E t \in Task, n \in 1 .. MaxDelay, b \in BOOLEAN : Blocking(t, n, b)
        \/ Ticking \/ Resting
    BY <2>1, StepTimes
  <2> QED
    BY <1>1, <2>2, BlockingTimes, TickTimes, RestingTimes DEF TimeInv
<1> QED
  BY <1>1, <1>2 DEF TimeInv

LEMMA TimeInvariance == Spec => []TimeInv
  BY TimeInvInit, TimeInvStep, PTL DEF Spec

\* No wake-up is missed, whatever the width of the tick count: the delayed lists stay on their
\* side of it through each wrap, and the tick looks at DelayedTasks by the first time in it.
THEOREM WakeUpsStayCovered == Spec => []WakeUpsCovered
<1>1. TimeInv => WakeUpsCovered
  BY DEF TimeInv, Covered, WakeUpsCovered
<1> QED
  BY <1>1, TimeInvariance, PTL

-----------------------------------------------------------------------------
(* No sleep ends early but for a cause. *)

\* The causes, as DelayClock names them.
Came(t) == Awaited(t) \ Awaited(t)' # {}
Aborting(t) == \E c \in Task : pc[c] = "abortRemove" /\ target[c] = t
Stopped(t) == StateList[t] = SuspendedTasks \/ pc[t] \in {"uncreated", "dead"}
Caused(t) == Came(t) \/ t \in PendingReady \/ Aborting(t) \/ Stopped(t)'

\* t sleeps on, or stops for a cause; its wake-up is held back if what it waits for came.
Kept(t) ==
  /\ Delayed(t) => Delayed(t)' \/ Caused(t)
  /\ Delayed(t) /\ EventList'[t] = "PendingReady" => Came(t) \/ EventList[t] = "PendingReady"

\* Signals and notifications take away what the task waited for.
LEMMA Comes ==
  ASSUME NEW t \in Task,
         \/ EventList[t] = "waiting" /\ EventList'[t] # "waiting"
         \/ NotifyState[t] = "waiting" /\ NotifyState'[t] # "waiting"
  PROVE  Came(t)
  BY DEF Came, Awaited

\* A task whose items stay where they are sleeps on; one that does not sleep has nothing to keep.
LEMMA KeptIf ==
  ASSUME NEW t \in Task,
         \/ ~Delayed(t)
         \/ StateList'[t] = StateList[t] /\ EventList'[t] \in {EventList[t], "none", "waiting", "corrupt"}
  PROVE  Kept(t)
  BY DEF Kept, Delayed

\* The steps inside the kernel.
LEMMA KernelStepKept ==
  ASSUME ListInv, NEW t \in Task, KernelStep(t), ~ReplayTick(t), NEW w \in Task
  PROVE  Kept(w)
<1> USE DEF ListInv, TypeInv, TypeOK, ListType, CallType, At
<1>1. CASE BlockStep(t)
  <2>1. CurrentTCB = t /\ StateList[t] \in Prio
    BY <1>1, RunnerIsReady DEF BlockStep, DelayEnlist, DelayUntilEnlist, PlaceOnEventList, NotifyEnlist,
       SuspendedSection
  <2>2. ~Delayed(t)
    BY <2>1, NotDelayed DEF Delayed
  <2>3. w # t => StateList'[w] = StateList[w]
    BY <1>1, <2>1 DEF BlockStep, DelayEnlist, DelayUntilEnlist, PlaceOnEventList, NotifyEnlist,
       AddCurrentTaskToDelayedList, listVars
  <2>4. w # t => EventList'[w] = EventList[w]
    BY <1>1 DEF BlockStep, DelayEnlist, DelayUntilEnlist, PlaceOnEventList, NotifyEnlist, listVars
  <2> QED
    BY <2>2, <2>3, <2>4, KeptIf
<1>2. CASE NotifyTest(t) \/ NotifyReturn(t) \/ ResumeAllReturn(t) \/ YieldWithinApi(t)
           \/ UnlockScheduler(t) \/ CatchUpPend(t) \/ AbortGetState(t) \/ AbortTestEvent(t)
           \/ AbortTestNotify(t) \/ TaskCreateFinish(t) \/ TaskSuspendFinish(t)
  BY <1>2, KeptIf DEF NotifyTest, NotifyReturn, ResumeAllReturn, YieldWithinApi, UnlockScheduler,
     CatchUpPend, AbortGetState, AbortTestEvent, AbortTestNotify, TaskCreateFinish,
     TaskSuspendFinish, listVars
<1>3. CASE ResumeAll(t)
  <2>1. CASE w \in PendingReady
    BY <2>1 DEF Kept, Caused, PendingReady
  <2>2. CASE w \notin PendingReady
    BY <1>3, <2>2, ResumeEffect, KeptIf
  <2> QED
    BY <2>1, <2>2
<1>4. CASE AbortRemove(t)
  <2>1. pc[t] = "abortRemove" /\ UNCHANGED EventList
    BY <1>4 DEF AbortRemove
  <2>2. w # target[t] => StateList'[w] = StateList[w]
    BY <1>4 DEF AbortRemove
  <2>3. CASE w = target[t]
    BY <2>1, <2>3 DEF Kept, Caused, Aborting
  <2> QED
    BY <2>1, <2>2, <2>3, KeptIf
<1>5. CASE AbortEvent(t)
  BY <1>5, KeptIf DEF AbortEvent, EventUnlinked
<1>6. CASE AbortReady(t)
  <2>1. StateList[target[t]] = NoList /\ UNCHANGED EventList
    BY <1>6 DEF AbortReady, AbortHolds, AbortUnderWay
  <2>2. w # target[t] => StateList'[w] = StateList[w]
    BY <1>6 DEF AbortReady
  <2>3. w = target[t] => ~Delayed(w)
    BY <2>1, NotDelayed DEF Delayed
  <2> QED
    BY <2>1, <2>2, <2>3, KeptIf
<1> QED
  BY <1>1, <1>2, <1>3, <1>4, <1>5, <1>6 DEF KernelStep, BlockStep

\* A waiter taken off its event list.
LEMMA SignalKept ==
  ASSUME ListInv, NEW u \in Task, RemoveFromEventList(u), NEW w \in Task PROVE Kept(w)
<1> USE DEF ListInv, TypeInv, TypeOK, ListType
<1>1. CASE w = u
  <2>1. EventList[u] = "waiting" /\ EventList'[u] # "waiting"
    BY RemoveEffect
  <2> QED
    BY <1>1, <2>1, Comes DEF Kept, Caused
<1>2. CASE w # u
  BY <1>2, RemoveEffect, KeptIf
<1> QED
  BY <1>1, <1>2

\* The first steps of the calls.
LEMMA ApiCallKept ==
  ASSUME ListInv, NEW t \in Task, ApiCall(t), NEW w \in Task PROVE Kept(w)
<1> USE DEF ListInv, TypeInv, TypeOK, ListType, CallType
<1>1. CASE Delay(t) \/ DelayUntil(t) \/ WaitEvent(t) \/ NotifyTake(t) \/ NotifyWait(t)
             \/ LockScheduler(t) \/ CatchUpTicks(t) \/ AbortDelay(t)
  BY <1>1, KeptIf DEF Delay, DelayUntil, WaitEvent, NotifyTake, NotifyWait, LockScheduler,
     CatchUpTicks, AbortDelay, SuspendAllFor, listVars
<1>2. CASE TaskDeleteSelf(t)
  <2>1. /\ pc'[t] = "dead" /\ EventList'[t] # "PendingReady"
        /\ w # t => StateList'[w] = StateList[w] /\ EventList'[w] = EventList[w]
    BY <1>2 DEF TaskDeleteSelf, Leave, EnsureRemoved
  <2> QED
    BY <2>1, KeptIf DEF Kept, Caused, Stopped
<1>3. CASE SignalEvent(t)
  BY <1>3, SignalKept DEF SignalEvent
<1>4. ASSUME NEW u \in Task, TaskSuspend(t, u) PROVE Kept(w)
  <2>1. /\ StateList' = [StateList EXCEPT ![u] = Relinked(@, SuspendedTasks)]
        /\ EventList'[u] # "PendingReady"
        /\ w # u => StateList'[w] = StateList[w] /\ EventList'[w] = EventList[w]
    BY <1>4 DEF TaskSuspend, EnsureRemoved
  <2>2. Delayed(u) => StateList'[u] = SuspendedTasks
    BY <2>1, Apart DEF Relinked, Delayed
  <2> QED
    BY <2>1, <2>2, KeptIf DEF Kept, Caused, Stopped
<1>5. ASSUME NEW u \in Task, TaskDelete(t, u) PROVE Kept(w)
  <2>1. /\ pc'[u] = "uncreated" /\ EventList'[u] # "PendingReady"
        /\ w # u => StateList'[w] = StateList[w] /\ EventList'[w] = EventList[w]
    BY <1>5 DEF TaskDelete, Leave, EnsureRemoved
  <2> QED
    BY <2>1, KeptIf DEF Kept, Caused, Stopped
<1>6. ASSUME NEW u \in Task, TaskResume(t, u) PROVE Kept(w)
  <2>1. UNCHANGED EventList /\ (w # u => StateList'[w] = StateList[w])
    BY <1>6 DEF TaskResume, MakeReady
  <2>2. ~Delayed(u)
    BY <1>6, NotDelayed DEF TaskResume, Suspended, Delayed
  <2> QED
    BY <2>1, <2>2, KeptIf
<1>7. ASSUME NEW u \in Task, NotifyStateClear(t, u) PROVE Kept(w)
  BY <1>7, KeptIf DEF NotifyStateClear, listVars
<1>8. ASSUME NEW u \in Task, TaskCreate(t, u) PROVE Kept(w)
  <2>1. /\ StateList[u] = NoList
        /\ w # u => StateList'[w] = StateList[w] /\ EventList'[w] = EventList[w]
    BY <1>8, CreateEffect DEF TaskCreate
  <2>2. ~Delayed(u)
    BY <2>1, NotDelayed DEF Delayed
  <2> QED
    BY <2>1, <2>2, KeptIf
<1>9. ASSUME NEW u \in Task, NEW p \in Prio, TaskPrioritySet(t, u, p) PROVE Kept(w)
  <2>1. /\ UNCHANGED EventList
        /\ StateList'[w] = StateList[w] \/ (w = u /\ StateList[u] = Priority[u])
    BY <1>9 DEF TaskPrioritySet
  <2>2. StateList[u] = Priority[u] => ~Delayed(u)
    BY NotDelayed DEF Delayed
  <2> QED
    BY <2>1, <2>2, KeptIf
<1>10. ASSUME NEW u \in Task, NEW a \in NotifyAction, NEW v \in ValuesFor(a),
              GenericNotify(t, u, a, v)
       PROVE  Kept(w)
  <2>1. /\ UNCHANGED EventList
        /\ \/ StateList'[w] = StateList[w]
           \/ w = u /\ NotifyState[u] = "waiting" /\ NotifyState'[u] = "received"
    BY <1>10 DEF GenericNotify, MakeReady, SetNotification, NoticeType
  <2>2. CASE StateList'[w] = StateList[w]
    BY <2>1, <2>2, KeptIf
  <2>3. CASE w = u /\ NotifyState[u] = "waiting" /\ NotifyState'[u] = "received"
    BY <2>3, Comes DEF Kept, Caused
  <2> QED
    BY <2>1, <2>2, <2>3
<1> QED
  BY <1>1, <1>2, <1>3, <1>4, <1>5, <1>6, <1>7, <1>8, <1>9, <1>10 DEF ApiCall

\* Start-up, the interrupts other than a tick that is counted, and the idle task.
LEMMA OutsideTasksKept ==
  ASSUME ListInv, Start \/ Interrupt \/ IdleCleanUp \/ IdleYield, ~Ticking, NEW w \in Task
  PROVE  Kept(w)
<1> USE DEF ListInv, TypeInv, TypeOK, ListType, NoticeType
<1>1. CASE Start
  <2>1. PICK u \in Task : AddNewTaskToReadyList(u, NULL, "run")
    BY <1>1, SchedulerAssumption DEF Start, TaskStartScheduler, TaskCreateBeforeStart
  <2>2. /\ StateList[u] = NoList
        /\ w # u => StateList'[w] = StateList[w] /\ EventList'[w] = EventList[w]
    BY <2>1, CreateEffect
  <2>3. ~Delayed(u)
    BY <2>2, NotDelayed DEF Delayed
  <2> QED
    BY <2>2, <2>3, KeptIf
<1>2. CASE TickISR
  BY <1>2, KeptIf DEF TickISR, Ticking, listVars
<1>3. CASE SignalFromISR
  BY <1>3, SignalKept DEF SignalFromISR
<1>4. CASE SwitchContext \/ IdleYield
  BY <1>4, KeptIf DEF SwitchContext, IdleYield, listVars
<1>5. ASSUME NEW u \in Task, TaskResumeFromISR(u) PROVE Kept(w)
  <2>1. w # u => StateList'[w] = StateList[w] /\ EventList'[w] = EventList[w]
    BY <1>5, WakeEffect DEF TaskResumeFromISR
  <2>2. ~Delayed(u)
    BY <1>5, NotDelayed DEF TaskResumeFromISR, Suspended, Delayed
  <2> QED
    BY <2>1, <2>2, KeptIf
<1>6. ASSUME NEW u \in Task, NEW a \in NotifyAction, NEW v \in ValuesFor(a), NotifyFromISR(u, a, v)
      PROVE  Kept(w)
  <2>1. CASE NotifyState[u] # "waiting"
    BY <1>6, <2>1, KeptIf DEF NotifyFromISR, listVars
  <2>2. CASE NotifyState[u] = "waiting"
    <3>1. NotifyState'[u] = "received"
      BY <1>6 DEF NotifyFromISR, SetNotification
    <3>2. Came(u)
      BY <2>2, <3>1, Comes
    <3>3. w # u => StateList'[w] = StateList[w] /\ EventList'[w] = EventList[w]
      BY <1>6, <2>2, WakeEffect DEF NotifyFromISR, Waiting
    <3> QED
      BY <3>2, <3>3, KeptIf DEF Kept, Caused
  <2> QED
    BY <2>1, <2>2
<1>7. CASE IdleCleanUp
  <2>1. PICK u \in Task : /\ StateList[u] = TasksWaitingTermination /\ UNCHANGED EventList
                         /\ StateList' = [StateList EXCEPT ![u] = Unlinked(@)]
    BY <1>7 DEF IdleCleanUp
  <2>2. ~Delayed(u)
    BY <2>1, NotDelayed DEF Delayed
  <2> QED
    BY <2>1, <2>2, KeptIf
<1> QED
  BY <1>1, <1>2, <1>3, <1>4, <1>5, <1>6, <1>7 DEF Interrupt

\* No step but a counted tick ends a sleep without a cause.
LEMMA StepKept == ASSUME ListInv, [Next]_vars, ~Ticking PROVE \A w \in Task : Kept(w)
<1>1. CASE UNCHANGED vars
  BY <1>1, KeptIf DEF vars, listVars
<1>2. CASE Next
  <2>1. \A t \in Task : ~ReplayTick(t)
    BY DEF ReplayTick, Ticking
  <2> QED
    BY <1>2, <2>1, KernelStepKept, ApiCallKept, OutsideTasksKept DEF Next
<1> QED
  BY <1>1, <1>2

\* And no step holds back the wake-up of a sleeping task whose event has not come.
LEMMA StepRouses ==
  ASSUME ListInv, [Next]_vars
  PROVE  \A t \in Task : EventList'[t] = "PendingReady" /\ EventList[t] # "PendingReady" /\ Delayed(t)
                         => Came(t)
<1> SUFFICES ASSUME NEW t \in Task, EventList'[t] = "PendingReady", EventList[t] # "PendingReady",
                    Delayed(t)
             PROVE  Came(t)
  OBVIOUS
<1>1. CASE Ticking
  <2>1. PICK switch \in BOOLEAN : IncrementTick(switch)
    BY <1>1 DEF Ticking
  <2>2. EventList'[t] = EnsureRemoved(EventList[t]) \/ EventList'[t] = EventList[t]
    BY <2>1, TickEffect DEF ListInv, TypeInv, TypeOK
  <2> QED
    BY <2>2 DEF EnsureRemoved
<1>2. CASE ~Ticking
  <2>1. Kept(t)
    BY <1>2, StepKept
  <2> QED
    BY <2>1 DEF Kept
<1> QED
  BY <1>1, <1>2

-----------------------------------------------------------------------------
(* The delayed lists implement the countdowns. *)

\* What is substituted for the variables of DelayClock that make the promise, and its causes.
Countdowns == [t \in Task |->
                 CASE StateList[t] = DelayedTasks -> WakeTime[t] - TickCount
                   [] StateList[t] = OverflowDelayed -> WakeTime[t] + TickMod - TickCount
                   [] OTHER -> 0]
Asks == [t \in Task |-> IF Asking(t) THEN [kind |-> pc[t], n |-> arg[t]] ELSE NoAsk]
Aborted == {u \in Task : \E t \in Task : pc[t] = "abortRemove" /\ target[t] = u}
Halted == {t \in Task : StateList[t] = SuspendedTasks \/ pc[t] \in {"uncreated", "dead"}}

LEMMA CountdownsAre ==
  /\ Countdowns = [t \in Task |-> Left(t)]
  /\ Countdowns' = [t \in Task |-> Left(t)']
  BY DEF Countdowns, Left

\* The steps of the clock, for these.
LEMMA ClockSteps ==
  /\ \A t \in Task, k \in AskLabels, n \in 0 .. MaxDelay :
       /\ Asks[t] = NoAsk /\ Countdowns[t] = 0
       /\ Asks' = [Asks EXCEPT ![t] = [kind |-> k, n |-> n]]
       /\ UNCHANGED <<TickCount, Countdowns>>
       => Clock!Ask(t)
  /\ \A t \in Task, n \in 1 .. MaxDelay :
       /\ Asks[t] # NoAsk /\ Countdowns[t] = 0
       /\ n = IF Asks[t].kind = "until" THEN (Asks[t].n - TickCount) % TickMod ELSE Asks[t].n
       /\ Countdowns' = [Countdowns EXCEPT ![t] = n]
       /\ Asks' = [Asks EXCEPT ![t] = NoAsk] /\ UNCHANGED TickCount
       => Clock!Sleep(t)
  /\ \A t \in Task :
       /\ Asks[t] # NoAsk /\ Asks[t].kind \in {"until", "event"}
       /\ Asks' = [Asks EXCEPT ![t] = NoAsk] /\ UNCHANGED <<TickCount, Countdowns>>
       => Clock!Forgo(t)
  /\ /\ TickCount' = (TickCount + 1) % TickMod
     /\ Countdowns' = [t \in Task |-> IF Countdowns[t] > 0 THEN Countdowns[t] - 1 ELSE 0]
     /\ UNCHANGED Asks
     => Clock!Elapse
  /\ \A S \in SUBSET Task :
       /\ \A t \in S : [u \in Task |-> Awaited(u)][t] \ [u \in Task |-> Awaited(u)'][t] # {}
                        \/ t \in PendingReady \cup Aborted \/ t \in Halted'
       /\ Countdowns' = [t \in Task |-> IF t \in S THEN 0 ELSE Countdowns[t]]
       /\ UNCHANGED <<TickCount, Asks>>
       => Clock!Cancel(S)
  /\ (\A t \in PendingReady' \ PendingReady :
         Countdowns[t] > 0 => [u \in Task |-> Awaited(u)][t] \ [u \in Task |-> Awaited(u)'][t] # {})
     => Clock!Rouse
<1> USE DEF Countdowns, Asks, Aborted, Halted, AskLabels, TickMod
<1>1. \A t \in Task, k \in AskLabels, n \in 0 .. MaxDelay :
       /\ Asks[t] = NoAsk /\ Countdowns[t] = 0
       /\ Asks' = [Asks EXCEPT ![t] = [kind |-> k, n |-> n]]
       /\ UNCHANGED <<TickCount, Countdowns>>
       => Clock!Ask(t)
  BY DEF Clock!Ask
<1>2. \A t \in Task, n \in 1 .. MaxDelay :
       /\ Asks[t] # NoAsk /\ Countdowns[t] = 0
       /\ n = IF Asks[t].kind = "until" THEN (Asks[t].n - TickCount) % TickMod ELSE Asks[t].n
       /\ Countdowns' = [Countdowns EXCEPT ![t] = n]
       /\ Asks' = [Asks EXCEPT ![t] = NoAsk] /\ UNCHANGED TickCount
       => Clock!Sleep(t)
  BY SchedulerAssumption DEF Clock!Sleep, Clock!Ticks
<1>3. \A t \in Task :
       /\ Asks[t] # NoAsk /\ Asks[t].kind \in {"until", "event"}
       /\ Asks' = [Asks EXCEPT ![t] = NoAsk] /\ UNCHANGED <<TickCount, Countdowns>>
       => Clock!Forgo(t)
  BY DEF Clock!Forgo
<1>4. /\ TickCount' = (TickCount + 1) % TickMod
      /\ Countdowns' = [t \in Task |-> IF Countdowns[t] > 0 THEN Countdowns[t] - 1 ELSE 0]
      /\ UNCHANGED Asks
      => Clock!Elapse
  BY DEF Clock!Elapse
<1>5. \A S \in SUBSET Task :
       /\ \A t \in S : [u \in Task |-> Awaited(u)][t] \ [u \in Task |-> Awaited(u)'][t] # {}
                        \/ t \in PendingReady \cup Aborted \/ t \in Halted'
       /\ Countdowns' = [t \in Task |-> IF t \in S THEN 0 ELSE Countdowns[t]]
       /\ UNCHANGED <<TickCount, Asks>>
       => Clock!Cancel(S)
  BY DEF Clock!Cancel, Clock!Comes
<1>6. (\A t \in PendingReady' \ PendingReady :
         Countdowns[t] > 0 => [u \in Task |-> Awaited(u)][t] \ [u \in Task |-> Awaited(u)'][t] # {})
      => Clock!Rouse
  BY DEF Clock!Rouse, Clock!Comes
<1> QED
  BY <1>1, <1>2, <1>3, <1>4, <1>5, <1>6

\* What the calls ask for.
LEMMA AsksAre ==
  ASSUME NEW t \in Task
  PROVE  /\ pc[t] \notin AskLabels => Asks[t] = NoAsk
         /\ pc[t] \in AskLabels /\ ~(pc[t] \in {"event", "enlist"} /\ arg[t] = MaxDelay) =>
              Asks[t] = [kind |-> pc[t], n |-> arg[t]] /\ Asks[t] # NoAsk
         /\ pc[t] \in {"event", "enlist"} /\ arg[t] = MaxDelay => Asks[t] = NoAsk
         /\ pc'[t] \notin AskLabels => Asks'[t] = NoAsk
         /\ pc'[t] \in AskLabels /\ ~(pc'[t] \in {"event", "enlist"} /\ arg'[t] = MaxDelay) =>
              Asks'[t] = [kind |-> pc'[t], n |-> arg'[t]]
         /\ pc'[t] \in {"event", "enlist"} /\ arg'[t] = MaxDelay => Asks'[t] = NoAsk
  BY DEF Asks, Asking, NoAsk, AskLabels

\* A step of one task leaves what the others ask for.
LEMMA AsksOf ==
  ASSUME TypeOK, NEW t \in Task, NEW l, NEW n, pc' = [pc EXCEPT ![t] = l],
         arg' = [arg EXCEPT ![t] = n]
  PROVE  Asks' = [Asks EXCEPT ![t] = Asks'[t]] /\ pc'[t] = l /\ arg'[t] = n
<1>1. \A u \in Task \ {t} : pc'[u] = pc[u] /\ arg'[u] = arg[u]
  BY DEF TypeOK, CallType
<1>2. pc'[t] = l /\ arg'[t] = n
  BY DEF TypeOK, CallType
<1>3. \A u \in Task \ {t} : Asks'[u] = Asks[u]
  BY <1>1 DEF Asks, Asking
<1>4. Asks' = [u \in Task |-> Asks'[u]] /\ Asks = [u \in Task |-> Asks[u]]
  BY DEF Asks
<1> QED
  BY <1>2, <1>3, <1>4

\* A step that neither counts a tick nor puts a task to sleep ends some sleeps, for a cause each.
LEMMA RestCancels ==
  ASSUME TimeInv, [Next]_vars, AsksKept, Resting, ~Ticking,
         NEW S \in SUBSET Task, S = {t \in Task : Delayed(t) /\ ~Delayed(t)'}
  PROVE  Clock!Cancel(S)
<1> USE DEF TimeInv
<1>1. \A t \in Task : Left(t)' = IF t \in S THEN 0 ELSE Left(t)
  BY TimeInvStep, RestingTimes, LeftIs
<1>2. ASSUME NEW t \in S
      PROVE  \/ [u \in Task |-> Awaited(u)][t] \ [u \in Task |-> Awaited(u)'][t] # {}
             \/ t \in PendingReady \cup Aborted \/ t \in Halted'
  <2>1. t \in Task /\ Delayed(t) /\ ~Delayed(t)'
    OBVIOUS
  <2>2. Came(t) \/ t \in PendingReady \/ Aborting(t) \/ Stopped(t)'
    BY <2>1, StepKept DEF Kept, Caused
  <2> QED
    BY <2>1, <2>2 DEF Came, Aborting, Aborted, Stopped, Halted
<1>3. Countdowns' = [t \in Task |-> IF t \in S THEN 0 ELSE Countdowns[t]]
  BY <1>1, CountdownsAre
<1>4. UNCHANGED Asks
  BY DEF AsksKept, Asks, Asking, AskLabels
<1>5. UNCHANGED TickCount
  BY DEF Resting
<1> QED
  BY <1>2, <1>3, <1>4, <1>5, ClockSteps

\* Every step of the scheduler is one of the clock, or keeps its promise as it stands.
LEMMA StepCounts ==
  TimeInv /\ [Next]_vars => Clock!Next \/ UNCHANGED <<TickCount, Asks, Countdowns>>
<1> SUFFICES ASSUME TimeInv, [Next]_vars
             PROVE  Clock!Next \/ UNCHANGED <<TickCount, Asks, Countdowns>>
  OBVIOUS
<1> USE DEF TimeInv
<1>0. TypeOK
  BY DEF ListInv, TypeInv
<1>1. ASSUME AsksKept, Ticking PROVE Clock!Next
  <2>1. Countdowns' = [t \in Task |-> IF Countdowns[t] > 0 THEN Countdowns[t] - 1 ELSE 0]
    BY <1>1, TickTimes, CountdownsAre
  <2>2. TickCount' = (TickCount + 1) % TickMod
    BY <1>1 DEF Ticking, IncrementTick
  <2>3. UNCHANGED Asks
    BY <1>1 DEF AsksKept, Asks, Asking, AskLabels
  <2> QED
    BY <2>1, <2>2, <2>3, ClockSteps DEF Clock!Next
<1>2. ASSUME AsksKept, Resting, ~Ticking PROVE Clock!Next
  <2>1. PICK S \in SUBSET Task : S = {t \in Task : Delayed(t) /\ ~Delayed(t)'}
    OBVIOUS
  <2>2. Clock!Cancel(S)
    BY <1>2, <2>1, RestCancels
  <2> QED
    BY <2>2 DEF Clock!Next
<1>3. ASSUME NEW t \in Task, NEW n \in 1 .. MaxDelay, NEW b \in BOOLEAN,
             Blocking(t, n, b), Answers(t, n, b)
      PROVE  Clock!Next \/ UNCHANGED <<TickCount, Asks, Countdowns>>
  <2>1. /\ Left(t) = 0 /\ Left(t)' = IF n = MaxDelay /\ b THEN 0 ELSE n
        /\ \A u \in Task \ {t} : Left(u)' = Left(u)
    BY <1>3, BlockingTimes
  <2>2. /\ pc[t] \in AskLabels
        /\ b <=> pc[t] \in {"event", "enlist"}
        /\ n = IF pc[t] = "until" THEN (arg[t] - TickCount) % TickMod ELSE arg[t]
        /\ pc' = [pc EXCEPT ![t] = "resume"] /\ UNCHANGED arg
    BY <1>3 DEF Answers
  <2>3. arg' = [arg EXCEPT ![t] = arg[t]]
    BY <1>0, <2>2 DEF TypeOK, CallType
  <2>4. Asks' = [Asks EXCEPT ![t] = Asks'[t]] /\ pc'[t] = "resume"
    BY <1>0, <2>2, <2>3, AsksOf
  <2>5. Asks'[t] = NoAsk
    BY <2>4, AsksAre DEF AskLabels
  <2>6. UNCHANGED TickCount
    BY <1>3 DEF Blocking
  <2>7. CASE n = MaxDelay /\ b
    <3>1. Asks[t] = NoAsk
      BY <2>2, <2>7, AsksAre
    <3>2. UNCHANGED Asks
      BY <2>4, <2>5, <3>1 DEF Asks
    <3>3. UNCHANGED Countdowns
      BY <2>1, <2>7, CountdownsAre
    <3> QED
      BY <2>6, <3>2, <3>3
  <2>8. CASE ~(n = MaxDelay /\ b)
    <3>0. ~(pc[t] \in {"event", "enlist"} /\ arg[t] = MaxDelay)
      BY <2>2, <2>8
    <3>1. Asks[t] = [kind |-> pc[t], n |-> arg[t]] /\ Asks[t] # NoAsk
      BY <2>2, <3>0, AsksAre
    <3>2. Countdowns[t] = 0 /\ Countdowns' = [Countdowns EXCEPT ![t] = n]
      BY <2>1, <2>8, CountdownsAre
    <3>3. n = IF Asks[t].kind = "until" THEN (Asks[t].n - TickCount) % TickMod ELSE Asks[t].n
      BY <2>2, <3>1
    <3>4. Asks' = [Asks EXCEPT ![t] = NoAsk]
      BY <2>4, <2>5
    <3>5. Clock!Sleep(t)
      BY <2>6, <3>1, <3>2, <3>3, <3>4, ClockSteps
    <3> QED
      BY <3>5 DEF Clock!Next
  <2> QED
    BY <2>7, <2>8
<1>4. ASSUME NEW t \in Task, Forgoing(t) PROVE Clock!Next \/ UNCHANGED <<TickCount, Asks, Countdowns>>
  <2>1. UNCHANGED <<TickCount, Countdowns>>
    BY <1>4 DEF Forgoing, Countdowns
  <2>2. pc[t] \in {"until", "event"} /\ pc' = [pc EXCEPT ![t] = "resume"]
    BY <1>4 DEF Forgoing
  <2>3. arg' = [arg EXCEPT ![t] = arg[t]]
    BY <1>0, <1>4 DEF Forgoing, TypeOK, CallType
  <2>4. Asks' = [Asks EXCEPT ![t] = Asks'[t]] /\ pc'[t] = "resume"
    BY <1>0, <2>2, <2>3, AsksOf
  <2>5. Asks'[t] = NoAsk
    BY <2>4, AsksAre DEF AskLabels
  <2>6. CASE Asks[t] = NoAsk
    <3>1. UNCHANGED Asks
      BY <2>4, <2>5, <2>6 DEF Asks
    <3> QED
      BY <2>1, <3>1
  <2>7. CASE Asks[t] # NoAsk
    <3>0. pc[t] \in AskLabels /\ ~(pc[t] \in {"event", "enlist"} /\ arg[t] = MaxDelay)
      BY <2>2, <2>7, AsksAre DEF AskLabels
    <3>1. Asks[t].kind \in {"until", "event"}
      <4>1. Asks[t] = [kind |-> pc[t], n |-> arg[t]]
        BY <3>0, AsksAre
      <4> QED
        BY <2>2, <4>1
    <3>2. Clock!Forgo(t)
      BY <2>1, <2>4, <2>5, <2>7, <3>1, ClockSteps
    <3> QED
      BY <3>2 DEF Clock!Next
  <2> QED
    BY <2>6, <2>7
<1>5. ASSUME NEW t \in Task, AsksFor(t) PROVE Clock!Next \/ UNCHANGED <<TickCount, Asks, Countdowns>>
  <2>1. UNCHANGED <<TickCount, Countdowns>>
    BY <1>5 DEF AsksFor, Countdowns
  <2>2. PICK label \in AskLabels, n \in 0 .. MaxDelay :
          pc' = [pc EXCEPT ![t] = label] /\ arg' = [arg EXCEPT ![t] = n]
    BY <1>5 DEF AsksFor
  <2>3. Asks' = [Asks EXCEPT ![t] = Asks'[t]] /\ pc'[t] = label /\ arg'[t] = n
    BY <1>0, <2>2, AsksOf
  <2>4. Asks[t] = NoAsk /\ Countdowns[t] = 0
    BY <1>5, NotDelayed, LeftIs, CountdownsAre, AsksAre DEF AsksFor, Delayed
  <2>5. CASE label \in {"event", "enlist"} /\ n = MaxDelay
    <3>1. UNCHANGED Asks
      BY <2>3, <2>4, <2>5, AsksAre DEF Asks
    <3> QED
      BY <2>1, <3>1
  <2>6. CASE ~(label \in {"event", "enlist"} /\ n = MaxDelay)
    <3>1. Asks' = [Asks EXCEPT ![t] = [kind |-> label, n |-> n]]
      BY <2>3, <2>6, AsksAre
    <3>2. Clock!Ask(t)
      BY <2>1, <2>4, <3>1, ClockSteps
    <3> QED
      BY <3>2 DEF Clock!Next
  <2> QED
    BY <2>5, <2>6
<1> QED
  BY <1>1, <1>2, <1>3, <1>4, <1>5, StepTimes

\* Every step holds back only the wake-ups that are due to a task.
LEMMA StepRousesClock == TimeInv /\ [Next]_vars => Clock!Rouse
<1> SUFFICES ASSUME TimeInv, [Next]_vars PROVE Clock!Rouse
  OBVIOUS
<1>1. ASSUME NEW t \in PendingReady' \ PendingReady, Countdowns[t] > 0
      PROVE  [u \in Task |-> Awaited(u)][t] \ [u \in Task |-> Awaited(u)'][t] # {}
  <2>1. t \in Task /\ EventList'[t] = "PendingReady" /\ EventList[t] # "PendingReady"
    BY DEF PendingReady
  <2>2. Delayed(t)
    BY <1>1, <2>1, CountdownsAre, LeftIs
  <2> QED
    BY <2>1, <2>2, StepRouses DEF TimeInv, Came
<1> QED
  BY <1>1, ClockSteps

\* A blocking call sleeps for exactly the ticks it asked for, or up to the wake time it asked
\* for, whatever the width of the tick count: through wraps, ticks that pend while the scheduler
\* is suspended and are replayed, and ticks caught up.  Only a signal or notification that came,
\* AbortDelay, TaskSuspend or TaskDelete ends a sleep sooner, and none ends sooner on a tick.
THEOREM SleepsImplementClock == Spec => SleepsExactly
<1>1. Init => Clock!Init
  <2> SUFFICES ASSUME Init PROVE Clock!Init
    OBVIOUS
  <2>1. Countdowns = [t \in Task |-> 0]
    BY CountdownsAre, LeftIs, Apart DEF Init, Delayed
  <2>2. Asks = [t \in Task |-> NoAsk]
    BY DEF Init, Asks, Asking
  <2>3. PendingReady = {} /\ TickCount \in 0 .. MaxDelay
    BY SchedulerAssumption DEF Init, PendingReady, Tick
  <2> QED
    BY <2>1, <2>2, <2>3 DEF Clock!Init, Countdowns, Asks
<1>2. TimeInv /\ [Next]_vars => [Clock!Next]_(Clock!promised)
  BY StepCounts DEF Clock!promised, Asks, Countdowns
<1>3. TimeInv /\ [Next]_vars => [Clock!Rouse]_PendingReady
  BY StepRousesClock
<1> QED
  BY <1>1, <1>2, <1>3, TimeInvariance, PTL DEF SleepsExactly, Clock!Spec, Spec
=============================================================================
