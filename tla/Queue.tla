-------------------------------- MODULE Queue --------------------------------
(***************************************************************************)
(* One queue or counting semaphore of queue.cpp that is in no queue set,   *)
(* used by tasks that may wait and by ISRs, with the time-outs of          *)
(* tasks.cpp that the waits are made of.                                   *)
(*                                                                         *)
(* Grain.  A critical section is one step.  Between the critical sections  *)
(* of a wait the scheduler is suspended: no other task runs and ticks are  *)
(* pended, but ISRs run.  Which tasks are ready and when a delayed task is *)
(* made ready again is the kernel's part (Scheduler); here any task that   *)
(* is ready may run.                                                       *)
(*                                                                         *)
(* The items are not modelled, only their number: as the code stands,      *)
(* copyFrom counts a sent item in a local that hides the member, so Send   *)
(* and SendFromISR leave nWaiting alone, and only GiveFromISR adds to it.  *)
(* InitAsQueue assigns its argument to itself: the member length is        *)
(* whatever was in the memory, at least 1 where Reset has its effect.      *)
(***************************************************************************)
EXTENDS Integers, FiniteSets

CONSTANTS
  Tasks, Nobody,
  Lengths,      \* what the member length may hold
  MaxItems,     \* the largest initial count
  TickValues,   \* TickType_t holds 0 .. TickValues - 1, of which the last is portMAX_DELAY
  Calls,        \* the calls that may wait: <<task, operation, ticks to wait>>
  Ops,          \* "abort", "reset": what tasks call besides
  IsrOps,       \* what ISRs call: "give", "send", "overwrite", "receive"
  MaxAge        \* ticks for which a ready task that waits may not be run

Forever == TickValues - 1
Sends == {"send", "overwrite"}
Receives == {"receive", "peek", "restricted"}

ASSUME QueueAssumption ==
  /\ IsFiniteSet(Tasks) /\ Nobody \notin Tasks
  /\ Lengths \subseteq Nat \ {0} /\ MaxItems \in Nat
  /\ TickValues \in Nat /\ TickValues > 2
  /\ Calls \subseteq Tasks \X (Sends \cup Receives) \X (0 .. Forever)
  /\ MaxAge \in 1 .. 2 * TickValues - 1

Label == {"idle", "test", "suspend", "check", "look", "place", "unlockTX", "unlockRX",
          "resume", "blocked", "final"}
Outcome == {"none", "placed", "again", "timedOut"}

VARIABLES
  nWaiting, length, rxLock, txLock,
  PendingRX, PendingTX,      \* the tasks in the queue's event lists
  pc, op, ticks,             \* each task's place in its call, the call, its ticks to wait
  outcome,                   \* what the locked part of the call came to
  TimeOnEntering, OverflowCount,    \* the call's TimeOut_t
  suspender,                 \* the task that has the scheduler suspended, or Nobody
  PendingReady,              \* the tasks on the kernel's PendingReady list
  wake,                      \* ticks until the tick readies a task; 0 when it is ready
  DelayAborted,              \* the tasks whose flag is set
  TickCount, NOverflows,     \* the latter modulo 2: it is compared for equality only
  left, aborted              \* history: ticks the call may still wait; tasks AbortDelay hit
                             \* in their last wait, or in an earlier one that left the flag set

queueVars == <<nWaiting, length, rxLock, txLock>>
listVars  == <<PendingRX, PendingTX, PendingReady, wake>>
callVars  == <<op, ticks, outcome, TimeOnEntering, OverflowCount, left>>
timeVars  == <<TickCount, NOverflows>>
abortVars == <<DelayAborted, aborted>>
vars == <<queueVars, listVars, pc, callVars, suspender, timeVars, abortVars>>

\* The object was created by QueueCreate, or by CreateCountingSemaphore with a count.
Init ==
  /\ length \in Lengths /\ nWaiting \in 0 .. MaxItems
  /\ rxLock = -1 /\ txLock = -1
  /\ PendingRX = {} /\ PendingTX = {} /\ PendingReady = {}
  /\ pc = [t \in Tasks |-> "idle"]
  /\ op = [t \in Tasks |-> "none"]
  /\ ticks = [t \in Tasks |-> 0]
  /\ outcome = [t \in Tasks |-> "none"]
  /\ TimeOnEntering = [t \in Tasks |-> 0]
  /\ OverflowCount = [t \in Tasks |-> 0]
  /\ left = [t \in Tasks |-> 0]
  /\ suspender = Nobody
  /\ wake = [t \in Tasks |-> 0]
  /\ DelayAborted = {} /\ aborted = {}
  /\ TickCount = 0 /\ NOverflows = 0

-----------------------------------------------------------------------------
(* Helpers. *)

Minimum(a, b) == IF a < b THEN a ELSE b

Full == nWaiting = length
Empty == nWaiting = 0

\* A task takes a step of its own: it is ready, and nobody else suspends the scheduler.
Runs(t) == wake[t] = 0 /\ suspender = Nobody
At(t, label) == pc[t] = label /\ (suspender = t \/ (suspender = Nobody /\ wake[t] = 0))
Goto(t, label) == pc' = [pc EXCEPT ![t] = label]

\* TaskRemoveFromEventList of a task in the list, which the caller has taken out of it.
RemoveFromEventList(woken) ==
  IF suspender = Nobody
    THEN /\ wake' = [u \in Tasks |-> IF u \in woken THEN 0 ELSE wake[u]]
         /\ UNCHANGED PendingReady
    ELSE PendingReady' = PendingReady \cup woken /\ UNCHANGED wake

\* One task is removed from a list, if there is one; "n" of them at most.
Some(list, n) == {s \in SUBSET list : Cardinality(s) = Minimum(n, Cardinality(list))}

WakeRX(n) == \E s \in Some(PendingRX, n) :
  PendingRX' = PendingRX \ s /\ RemoveFromEventList(s) /\ UNCHANGED PendingTX
WakeTX(n) == \E s \in Some(PendingTX, n) :
  PendingTX' = PendingTX \ s /\ RemoveFromEventList(s) /\ UNCHANGED PendingRX

CountedAlways(lock) == lock + 1    \* mutant: not bounded by the number of tasks
\* incTXLock, incRXLock.
Counted(lock) == IF lock < Cardinality(Tasks) THEN lock + 1 ELSE lock

\* The call returns, and its locals with it.
Return(t) ==
  /\ Goto(t, "idle")
  /\ op' = [op EXCEPT ![t] = "none"]
  /\ ticks' = [ticks EXCEPT ![t] = 0]
  /\ outcome' = [outcome EXCEPT ![t] = "none"]
  /\ TimeOnEntering' = [TimeOnEntering EXCEPT ![t] = 0]
  /\ OverflowCount' = [OverflowCount EXCEPT ![t] = 0]
  /\ left' = [left EXCEPT ![t] = 0]
  /\ aborted' = aborted \ ({t} \ DelayAborted)

-----------------------------------------------------------------------------
(* The critical section a call starts with, and starts again with after each wait. *)

\* A call; "restricted" is vQueueWaitForMessageRestricted with the receive that follows it.
Call(t, o, n) ==
  /\ pc[t] = "idle" /\ Runs(t)
  /\ op' = [op EXCEPT ![t] = o]
  /\ ticks' = [ticks EXCEPT ![t] = n]
  /\ Goto(t, IF o = "restricted" THEN "suspend" ELSE "test")
  /\ UNCHANGED <<queueVars, listVars, outcome, TimeOnEntering, OverflowCount, left,
                 suspender, timeVars, abortVars>>

Testing(t) == Runs(t) /\ pc[t] \in {"test", "blocked"}

\* Send writes, and wakes a task that waits to receive.
SendWrites(t) ==
  /\ Testing(t) /\ op[t] \in Sends
  /\ nWaiting < length \/ op[t] = "overwrite"
  /\ WakeRX(1)
  /\ Return(t)
  /\ UNCHANGED <<queueVars, suspender, timeVars, DelayAborted>>

\* Recv and QueueSemaphoreTake take one, and wake a task that waits to send.
ReceiveTakes(t) ==
  /\ Testing(t) /\ op[t] \in {"receive", "restricted"} /\ nWaiting > 0
  /\ nWaiting' = nWaiting - 1
  /\ WakeTX(1)
  /\ Return(t)
  /\ UNCHANGED <<length, rxLock, txLock, suspender, timeVars, DelayAborted>>

\* QueuePeek leaves the item, and wakes the next task that waits for one.
PeekReads(t) ==
  /\ Testing(t) /\ op[t] = "peek" /\ nWaiting > 0
  /\ WakeRX(1)
  /\ Return(t)
  /\ UNCHANGED <<queueVars, suspender, timeVars, DelayAborted>>

CannotProceed(t) ==
  IF op[t] \in Sends THEN op[t] = "send" /\ nWaiting >= length ELSE nWaiting = 0

Fails(t) ==
  /\ Testing(t) /\ CannotProceed(t)
  /\ ticks[t] = 0 \/ op[t] = "restricted"
  /\ Return(t)
  /\ UNCHANGED <<queueVars, listVars, suspender, timeVars, DelayAborted>>

\* The time-out starts at the first attempt only: outcome is "none" until then.
StartsToWait(t) ==
  /\ Testing(t) /\ CannotProceed(t)
  /\ ticks[t] > 0 /\ op[t] # "restricted"
  /\ IF outcome[t] = "none"
       THEN /\ TimeOnEntering' = [TimeOnEntering EXCEPT ![t] = TickCount]
            /\ OverflowCount' = [OverflowCount EXCEPT ![t] = NOverflows]
            /\ left' = [left EXCEPT ![t] = ticks[t]]
       ELSE UNCHANGED <<TimeOnEntering, OverflowCount, left>>
  /\ outcome' = [outcome EXCEPT ![t] = "again"]
  /\ Goto(t, "suspend")
  /\ UNCHANGED <<queueVars, listVars, op, ticks, suspender, timeVars, abortVars>>

-----------------------------------------------------------------------------
(* The locked part of a wait. *)

\* TaskSuspendAll and Lock.
SuspendAndLock(t) ==
  /\ At(t, "suspend")
  /\ suspender' = t
  /\ rxLock' = IF rxLock = -1 THEN 0 ELSE rxLock
  /\ txLock' = IF txLock = -1 THEN 0 ELSE txLock
  /\ Goto(t, IF op[t] = "restricted" THEN "look" ELSE "check")
  /\ UNCHANGED <<nWaiting, length, listVars, callVars, timeVars, abortVars>>

Elapsed(t) == (TickCount - TimeOnEntering[t]) % TickValues

ExpiredUnwrapped(t) ==    \* mutant: the elapsed time is not taken modulo the tick's width
  \/ NOverflows # OverflowCount[t] \/ TickCount - TimeOnEntering[t] >= ticks[t]
\* mutant: the count of wraps is not looked at
ExpiredByElapsed(t) == Elapsed(t) >= ticks[t]
Expired(t) ==
  \/ NOverflows # OverflowCount[t] /\ TickCount >= TimeOnEntering[t]
  \/ Elapsed(t) >= ticks[t]

\* CheckForTimeOut of a call whose delay was aborted.
CheckAborted(t) ==
  /\ At(t, "check") /\ t \in DelayAborted
  /\ DelayAborted' = DelayAborted \ {t}
  /\ outcome' = [outcome EXCEPT ![t] = "timedOut"]
  /\ Goto(t, "unlockTX")
  /\ UNCHANGED <<queueVars, listVars, op, ticks, TimeOnEntering, OverflowCount, left,
                 suspender, timeVars, aborted>>

CheckExpired(t) ==
  /\ At(t, "check") /\ t \notin DelayAborted /\ ticks[t] # Forever /\ Expired(t)
  /\ ticks' = [ticks EXCEPT ![t] = 0]
  /\ outcome' = [outcome EXCEPT ![t] = "timedOut"]
  /\ Goto(t, "unlockTX")
  /\ UNCHANGED <<queueVars, listVars, op, TimeOnEntering, OverflowCount, left, suspender,
                 timeVars, abortVars>>

\* What is left of the wait is counted from now.
CheckGoesOn(t) ==
  /\ At(t, "check") /\ t \notin DelayAborted
  /\ IF ticks[t] = Forever
       THEN UNCHANGED <<ticks, TimeOnEntering, OverflowCount>>
       ELSE /\ ~Expired(t)
            /\ ticks' = [ticks EXCEPT ![t] = @ - Elapsed(t)]
            /\ TimeOnEntering' = [TimeOnEntering EXCEPT ![t] = TickCount]
            /\ OverflowCount' = [OverflowCount EXCEPT ![t] = NOverflows]
  /\ Goto(t, "look")
  /\ UNCHANGED <<queueVars, listVars, op, outcome, left, suspender, timeVars, abortVars>>

\* Full, Empty.
Look(t) ==
  /\ At(t, "look")
  /\ Goto(t, IF IF op[t] \in Sends THEN Full ELSE Empty THEN "place" ELSE "unlockTX")
  /\ outcome' = [outcome EXCEPT ![t] = "again"]
  /\ UNCHANGED <<queueVars, listVars, op, ticks, TimeOnEntering, OverflowCount, left,
                 suspender, timeVars, abortVars>>

\* PlaceOnEventList, PlaceOnEventListRestricted: the task is delayed, by no ticks until the
\* next one, but still runs.
Place(t) ==
  /\ At(t, "place")
  /\ IF op[t] \in Sends
       THEN PendingTX' = PendingTX \cup {t} /\ UNCHANGED PendingRX
       ELSE PendingRX' = PendingRX \cup {t} /\ UNCHANGED PendingTX
  /\ wake' = [wake EXCEPT ![t] = IF ticks[t] = 0 THEN 1 ELSE ticks[t]]
  /\ DelayAborted' = DelayAborted \ {t} /\ aborted' = aborted \ {t}
  /\ outcome' = [outcome EXCEPT ![t] = "placed"]
  /\ Goto(t, "unlockTX")
  /\ UNCHANGED <<queueVars, PendingReady, op, ticks, TimeOnEntering, OverflowCount, left,
                 suspender, timeVars>>

\* Unlock wakes a task for each item that ISRs counted in txLock...
WokenByUnlockOnce(lock) == IF lock > 0 THEN 1 ELSE 0    \* mutant: "if" for "while"
WokenByUnlock(lock) == IF lock > 0 THEN lock ELSE 0

UnlockTX(t) ==
  /\ At(t, "unlockTX")
  /\ WakeRX(WokenByUnlock(txLock))
  /\ txLock' = -1
  /\ Goto(t, "unlockRX")
  /\ UNCHANGED <<nWaiting, length, rxLock, callVars, suspender, timeVars, abortVars>>

\* ... and, in a critical section of its own, in rxLock.
UnlockRX(t) ==
  /\ At(t, "unlockRX")
  /\ WakeTX(WokenByUnlock(rxLock))
  /\ rxLock' = -1
  /\ Goto(t, "resume")
  /\ UNCHANGED <<nWaiting, length, txLock, callVars, suspender, timeVars, abortVars>>

\* ResumeAll readies the tasks on PendingReady; a task that is not ready then yields.
ResumeAll(t) ==
  /\ At(t, "resume")
  /\ suspender' = Nobody
  /\ wake' = [u \in Tasks |-> IF u \in PendingReady THEN 0 ELSE wake[u]]
  /\ PendingReady' = {}
  /\ UNCHANGED <<queueVars, PendingRX, PendingTX, timeVars, DelayAborted>>
  /\ IF outcome[t] = "timedOut" /\ op[t] \in Sends
       THEN Return(t)
       ELSE /\ Goto(t, CASE outcome[t] = "placed" -> "blocked"
                         [] outcome[t] = "again" -> "test"
                         [] outcome[t] = "timedOut" -> "final")
            /\ UNCHANGED <<callVars, aborted>>

\* A receive that timed out tries again when there is an item after all.
Final(t) ==
  /\ At(t, "final")
  /\ IF Empty THEN Return(t)
              ELSE /\ Goto(t, "test")
                   /\ outcome' = [outcome EXCEPT ![t] = "again"]
                   /\ UNCHANGED <<op, ticks, TimeOnEntering, OverflowCount, left, aborted>>
  /\ UNCHANGED <<queueVars, listVars, suspender, timeVars, DelayAborted>>

-----------------------------------------------------------------------------
(* ISRs, the tick, and the calls that do not wait. *)

\* An item has come: a waiting task is woken unless the queue is locked.
CountedTX == Counted(txLock)
ItemFromISR ==
  /\ IF txLock = -1 THEN WakeRX(1) /\ UNCHANGED txLock
                    ELSE txLock' = CountedTX /\ UNCHANGED listVars
  /\ UNCHANGED <<length, rxLock, pc, callVars, suspender, timeVars, abortVars>>

GiveFromISR ==
  /\ "give" \in IsrOps /\ nWaiting < length
  /\ nWaiting' = nWaiting + 1
  /\ ItemFromISR

SendFromISR ==
  /\ \/ "send" \in IsrOps /\ nWaiting < length
     \/ "overwrite" \in IsrOps
  /\ UNCHANGED nWaiting
  /\ ItemFromISR

RecvFromISR ==
  /\ "receive" \in IsrOps /\ nWaiting > 0
  /\ nWaiting' = nWaiting - 1
  /\ IF rxLock = -1 THEN WakeTX(1) /\ UNCHANGED rxLock
                    ELSE rxLock' = Counted(rxLock) /\ UNCHANGED listVars
  /\ UNCHANGED <<length, txLock, pc, callVars, suspender, timeVars, abortVars>>

\* Reset(false), by a task.
Reset ==
  /\ "reset" \in Ops /\ suspender = Nobody
  /\ nWaiting' = 0 /\ rxLock' = -1 /\ txLock' = -1
  /\ WakeTX(1)
  /\ UNCHANGED <<length, pc, callVars, suspender, timeVars, abortVars>>

\* AbortDelay of a task that waits on the queue.
AbortDelay(t) ==
  /\ "abort" \in Ops /\ suspender = Nobody /\ wake[t] # 0
  /\ wake' = [wake EXCEPT ![t] = 0]
  /\ PendingRX' = PendingRX \ {t}
  /\ PendingTX' = PendingTX \ {t}
  /\ DelayAborted' = DelayAborted \cup {t}
  /\ aborted' = aborted \cup {t}
  /\ UNCHANGED <<queueVars, PendingReady, pc, callVars, suspender, timeVars>>

\* The ticks since a call's TimeOut_t was set; its caller is not kept from running for ever.
Age(t) ==
  ((NOverflows - OverflowCount[t]) * TickValues + TickCount - TimeOnEntering[t])
    % (2 * TickValues)
Timed(t) == outcome[t] # "none" /\ op[t] # "restricted" /\ ticks[t] # Forever

\* The tick interrupt readies the tasks whose delay ends.  Ticks while no call with a finite
\* time-out waits are left out.
Tick ==
  /\ suspender = Nobody /\ \E t \in Tasks : Timed(t) \/ wake[t] \notin {0, Forever}
  /\ \A t \in Tasks : Timed(t) => Age(t) < MaxAge
  /\ TickCount' = (TickCount + 1) % TickValues
  /\ NOverflows' = IF TickCount' = 0 THEN 1 - NOverflows ELSE NOverflows
  /\ LET ends == {t \in Tasks : wake[t] = 1}
     IN  /\ PendingRX' = PendingRX \ ends
         /\ PendingTX' = PendingTX \ ends
  /\ wake' = [t \in Tasks |-> IF wake[t] \in {0, Forever} THEN wake[t] ELSE wake[t] - 1]
  /\ left' = [t \in Tasks |-> IF left[t] \in {0, Forever} THEN left[t] ELSE left[t] - 1]
  /\ UNCHANGED <<queueVars, PendingReady, pc, op, ticks, outcome, TimeOnEntering,
                 OverflowCount, suspender, abortVars>>

-----------------------------------------------------------------------------

TaskStep(t) ==
  \/ SendWrites(t) \/ ReceiveTakes(t) \/ PeekReads(t) \/ Fails(t) \/ StartsToWait(t)
  \/ SuspendAndLock(t) \/ CheckAborted(t) \/ CheckExpired(t) \/ CheckGoesOn(t)
  \/ Look(t) \/ Place(t) \/ UnlockTX(t) \/ UnlockRX(t) \/ ResumeAll(t) \/ Final(t)

Next ==
  \/ \E t \in Tasks : TaskStep(t) \/ AbortDelay(t)
  \/ \E c \in Calls : Call(c[1], c[2], c[3])
  \/ GiveFromISR \/ SendFromISR \/ RecvFromISR \/ Reset \/ Tick

Spec == Init /\ [][Next]_vars

-----------------------------------------------------------------------------
(* Properties. *)

TypeOK ==
  /\ nWaiting \in Nat /\ length \in Lengths
  /\ rxLock \in -1 .. Cardinality(Tasks) /\ txLock \in -1 .. Cardinality(Tasks)
  /\ PendingRX \subseteq Tasks /\ PendingTX \subseteq Tasks /\ PendingReady \subseteq Tasks
  /\ pc \in [Tasks -> Label]
  /\ op \in [Tasks -> Sends \cup Receives \cup {"none"}]
  /\ ticks \in [Tasks -> 0 .. Forever] /\ outcome \in [Tasks -> Outcome]
  /\ TimeOnEntering \in [Tasks -> 0 .. Forever] /\ OverflowCount \in [Tasks -> {0, 1}]
  /\ suspender \in Tasks \cup {Nobody}
  /\ wake \in [Tasks -> 0 .. Forever]
  /\ DelayAborted \subseteq aborted /\ aborted \subseteq Tasks
  /\ TickCount \in 0 .. Forever /\ NOverflows \in {0, 1}
  /\ left \in [Tasks -> 0 .. Forever]

\* The tasks that were woken from PendingRX and have not tested the queue since.
Woken ==
  {t \in Tasks \ PendingRX :
     /\ op[t] \in Receives /\ outcome[t] = "placed"
     /\ pc[t] \in {"unlockTX", "unlockRX", "resume", "blocked"}}

\* No wake-up is lost: as many tasks as there are items, or else all that waited for one, have
\* been woken or will be by the Unlock that is due.
WakeUpsOwed ==
  Cardinality(Woken) + (IF txLock > 0 THEN txLock ELSE 0) >= Minimum(nWaiting, Cardinality(PendingRX))

\* A wait ends by its time-out no earlier than it was told to, unless AbortDelay hit the task.
NeverEarly ==
  \A t \in Tasks : outcome[t] = "timedOut" => left[t] = 0 \/ t \in aborted

\* A wait does not outlast its time-out: the delay it starts is no longer than what is left.
\* It holds as long as no caller is kept from running for more than a wrap of the tick count.
NeverLate ==
  \A t \in Tasks : outcome[t] = "placed" /\ op[t] # "restricted" => wake[t] <= left[t]
=============================================================================
