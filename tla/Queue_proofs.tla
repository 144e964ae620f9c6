---------------------------- MODULE Queue_proofs ----------------------------
(***************************************************************************)
(* Theorems about Queue, for every set of tasks, every length of queue,    *)
(* every width of the tick count and every choice of calls.                *)
(***************************************************************************)
EXTENDS Queue, FiniteSetTheorems, TLAPS

-----------------------------------------------------------------------------
(* The inductive invariant. *)

Locked == {"check", "look", "place", "unlockTX", "unlockRX", "resume"}
Waiting == {"unlockTX", "unlockRX", "resume", "blocked"}

\* A task holds the scheduler suspended exactly in the locked part of its call, and the locks
\* are set where Lock and Unlock say.
LockInv ==
  /\ \A t \in Tasks : suspender = t <=> pc[t] \in Locked
  /\ suspender = Nobody => rxLock = -1 /\ txLock = -1
  /\ \A t \in Tasks :
       /\ pc[t] \in {"check", "look", "place", "unlockTX"} => txLock # -1
       /\ pc[t] \in {"unlockRX", "resume"} => txLock = -1
       /\ pc[t] = "resume" => rxLock = -1

\* What the outcome of a call tells about where the call is.
OutcomeInv ==
  \A t \in Tasks :
    /\ pc[t] # "idle" => op[t] # "none"
    /\ pc[t] = "idle" => outcome[t] = "none"
    /\ pc[t] \in {"unlockTX", "unlockRX", "resume"} => outcome[t] # "none"
    /\ outcome[t] = "placed" => pc[t] \in Waiting
    /\ pc[t] = "blocked" => outcome[t] = "placed"
    /\ outcome[t] = "timedOut" => pc[t] \in {"unlockTX", "unlockRX", "resume", "final"}
    /\ pc[t] = "final" => outcome[t] = "timedOut"
    /\ pc[t] = "suspend" => op[t] = "restricted" \/ outcome[t] = "again"
    /\ pc[t] = "check" => op[t] # "restricted" /\ outcome[t] = "again"
    /\ pc[t] \in {"look", "place"} => op[t] = "restricted" \/ outcome[t] = "again"

\* A task in a list of the queue waits, for what the list is for, until it is taken out of it.
ListInv ==
  /\ \A t \in PendingRX : op[t] \in Receives /\ outcome[t] = "placed" /\ wake[t] # 0
  /\ \A t \in PendingTX : op[t] \in Sends /\ outcome[t] = "placed" /\ wake[t] # 0
  /\ \A t \in PendingReady : outcome[t] = "placed" /\ t \notin PendingRX \cup PendingTX
  /\ PendingReady # {} => suspender # Nobody

Inv == TypeOK /\ LockInv /\ OutcomeInv /\ ListInv

\* WakeUpsOwed is not inductive: a task that was woken may take an item and leave the others
\* to the sleepers.  While a task sleeps, all items are spoken for, up to one for each task:
\* the sleepers found the queue empty, and each item since has woken one or is counted in
\* txLock, where the count saturates.
Counts(lock) == IF lock > 0 THEN lock ELSE 0
WakeInv ==
  /\ PendingRX # {} =>
       Cardinality(Woken) + Counts(txLock) >= Minimum(nWaiting, Cardinality(Tasks))
  /\ \A t \in Tasks : pc[t] = "place" /\ op[t] \in Receives =>
       txLock >= Minimum(nWaiting, Cardinality(Tasks))

-----------------------------------------------------------------------------
(* Helpers. *)

\* The number of tasks, and the number of them in a list.
LEMMA TaskCount ==
  /\ Cardinality(Tasks) \in Nat
  /\ \A S \in SUBSET Tasks : IsFiniteSet(S) /\ Cardinality(S) \in 0 .. Cardinality(Tasks)
<1>1. IsFiniteSet(Tasks)
  BY QueueAssumption
<1>2. Cardinality(Tasks) \in Nat
  BY <1>1, FS_CardinalityType
<1>3. ASSUME NEW S \in SUBSET Tasks
      PROVE  IsFiniteSet(S) /\ Cardinality(S) \in 0 .. Cardinality(Tasks)
  <2>1. IsFiniteSet(S) /\ Cardinality(S) <= Cardinality(Tasks)
    BY <1>1, FS_Subset
  <2>2. Cardinality(S) \in Nat
    BY <2>1, FS_CardinalityType
  <2> QED
    BY <1>2, <2>1, <2>2
<1> QED
  BY <1>2, <1>3

\* A remainder modulo the number of tick values is one of them.
LEMMA ModTicks == ASSUME NEW n \in Int PROVE n % TickValues \in 0 .. Forever
  BY QueueAssumption DEF Forever

\* A call that is elapsed by less than its time-out has some of it left.
LEMMA LeftType ==
  ASSUME TypeOK, NEW t \in Tasks, ~Expired(t)
  PROVE  Elapsed(t) \in 0 .. Forever /\ ticks[t] - Elapsed(t) \in 1 .. Forever
<1>1. Elapsed(t) \in 0 .. Forever
  BY ModTicks, QueueAssumption DEF TypeOK, Elapsed, Forever
<1> QED
  BY <1>1, QueueAssumption DEF TypeOK, Expired, Forever

\* What wakes a task takes it out of a list, and leaves the types alone.
LEMMA RemoveType ==
  ASSUME TypeOK, NEW s \in SUBSET Tasks, RemoveFromEventList(s)
  PROVE  wake' \in [Tasks -> 0 .. Forever] /\ PendingReady' \subseteq Tasks
  BY QueueAssumption DEF RemoveFromEventList, TypeOK, Forever

\* What unlocking wakes keeps the types of the lists and of the wake-up times.
LEMMA WakeType ==
  ASSUME TypeOK, NEW n, WakeRX(n) \/ WakeTX(n)
  PROVE  /\ wake' \in [Tasks -> 0 .. Forever] /\ PendingReady' \subseteq Tasks
         /\ PendingRX' \subseteq Tasks /\ PendingTX' \subseteq Tasks
<1>1. CASE WakeRX(n)
  <2>1. PICK s \in Some(PendingRX, n) :
          PendingRX' = PendingRX \ s /\ RemoveFromEventList(s) /\ UNCHANGED PendingTX
    BY <1>1 DEF WakeRX
  <2>2. s \in SUBSET Tasks
    BY <2>1 DEF Some, TypeOK
  <2> QED
    BY <2>1, <2>2, RemoveType DEF TypeOK
<1>2. CASE WakeTX(n)
  <2>1. PICK s \in Some(PendingTX, n) :
          PendingTX' = PendingTX \ s /\ RemoveFromEventList(s) /\ UNCHANGED PendingRX
    BY <1>2 DEF WakeTX
  <2>2. s \in SUBSET Tasks
    BY <2>1 DEF Some, TypeOK
  <2> QED
    BY <2>1, <2>2, RemoveType DEF TypeOK
<1> QED
  BY <1>1, <1>2

\* A call that returns leaves the types of what it had alone.
LEMMA ReturnType ==
  ASSUME TypeOK, NEW t \in Tasks, Return(t)
  PROVE  /\ pc' \in [Tasks -> Label] /\ op' \in [Tasks -> Sends \cup Receives \cup {"none"}]
         /\ ticks' \in [Tasks -> 0 .. Forever] /\ outcome' \in [Tasks -> Outcome]
         /\ TimeOnEntering' \in [Tasks -> 0 .. Forever]
         /\ OverflowCount' \in [Tasks -> {0, 1}] /\ left' \in [Tasks -> 0 .. Forever]
         /\ aborted' \subseteq Tasks
         /\ DelayAborted' = DelayAborted => DelayAborted' \subseteq aborted'
  BY QueueAssumption DEF Return, Goto, TypeOK, Label, Outcome, Forever

\* The types hold at first.
LEMMA TypeInit == Init => TypeOK
  BY QueueAssumption, TaskCount DEF Init, TypeOK, Label, Outcome, Forever

\* The steps of the tests keep the types.
LEMMA TestType ==
  ASSUME TypeOK, NEW t \in Tasks,
         SendWrites(t) \/ ReceiveTakes(t) \/ PeekReads(t) \/ Fails(t) \/ StartsToWait(t)
  PROVE  TypeOK'
<1> USE DEF queueVars, listVars, timeVars, abortVars, Sends, Receives
<1>1. CASE SendWrites(t)
  BY <1>1, WakeType, ReturnType DEF SendWrites, TypeOK
<1>2. CASE ReceiveTakes(t)
  BY <1>2, WakeType, ReturnType DEF ReceiveTakes, TypeOK
<1>3. CASE PeekReads(t)
  BY <1>3, WakeType, ReturnType DEF PeekReads, TypeOK
<1>4. CASE Fails(t)
  BY <1>4, ReturnType DEF Fails, TypeOK
<1>5. CASE StartsToWait(t)
  BY <1>5 DEF StartsToWait, TypeOK, Goto, Label, Outcome, Forever
<1> QED
  BY <1>1, <1>2, <1>3, <1>4, <1>5

\* The steps of the locked part keep the types.
LEMMA LockedType ==
  ASSUME TypeOK, OutcomeInv, NEW t \in Tasks,
         \/ SuspendAndLock(t) \/ CheckAborted(t) \/ CheckExpired(t) \/ CheckGoesOn(t)
         \/ Look(t) \/ Place(t) \/ UnlockTX(t) \/ UnlockRX(t) \/ ResumeAll(t) \/ Final(t)
  PROVE  TypeOK'
<1> USE QueueAssumption
    DEF queueVars, listVars, callVars, timeVars, abortVars, Goto, Label, Outcome, Forever
<1>1. CASE SuspendAndLock(t)
  BY <1>1, TaskCount DEF SuspendAndLock, TypeOK
<1>2. CASE CheckAborted(t)
  BY <1>2 DEF CheckAborted, TypeOK
<1>3. CASE CheckExpired(t)
  BY <1>3 DEF CheckExpired, TypeOK
<1>4. CASE CheckGoesOn(t)
  BY <1>4, LeftType DEF CheckGoesOn, TypeOK
<1>5. CASE Look(t)
  BY <1>5 DEF Look, TypeOK
<1>6. CASE Place(t)
  BY <1>6 DEF Place, TypeOK
<1>7. CASE UnlockTX(t)
  BY <1>7, WakeType, TaskCount DEF UnlockTX, TypeOK
<1>8. CASE UnlockRX(t)
  BY <1>8, WakeType, TaskCount DEF UnlockRX, TypeOK
<1>9. CASE ResumeAll(t)
  <2>1. outcome[t] \in {"placed", "again", "timedOut"}
    BY <1>9 DEF ResumeAll, At, OutcomeInv, TypeOK
  <2>2. CASE outcome[t] = "timedOut" /\ op[t] \in Sends
    BY <1>9, <2>2, ReturnType DEF ResumeAll, TypeOK
  <2>3. CASE ~(outcome[t] = "timedOut" /\ op[t] \in Sends)
    BY <1>9, <2>1, <2>3 DEF ResumeAll, TypeOK
  <2> QED
    BY <2>2, <2>3
<1>10. CASE Final(t)
  BY <1>10, ReturnType DEF Final, TypeOK
<1> QED
  BY <1>1, <1>2, <1>3, <1>4, <1>5, <1>6, <1>7, <1>8, <1>9, <1>10

\* The other steps keep the types.
LEMMA OutsideType ==
  ASSUME TypeOK,
         \/ \E t \in Tasks : AbortDelay(t)
         \/ \E c \in Calls : Call(c[1], c[2], c[3])
         \/ GiveFromISR \/ SendFromISR \/ RecvFromISR \/ Reset \/ Tick
  PROVE  TypeOK'
<1> USE QueueAssumption
    DEF queueVars, listVars, callVars, timeVars, abortVars, Goto, Label, Outcome, Forever
<1>1. ASSUME NEW t \in Tasks, AbortDelay(t) PROVE TypeOK'
  BY <1>1 DEF AbortDelay, TypeOK
<1>2. ASSUME NEW c \in Calls, Call(c[1], c[2], c[3]) PROVE TypeOK'
  <2>1. c[1] \in Tasks /\ c[2] \in Sends \cup Receives /\ c[3] \in 0 .. Forever
    OBVIOUS
  <2> QED
    BY <1>2, <2>1 DEF Call, TypeOK
<1>3. \A lock \in -1 .. Cardinality(Tasks) : Counted(lock) \in -1 .. Cardinality(Tasks)
  BY TaskCount DEF Counted
<1>4. ASSUME ItemFromISR
      PROVE  /\ wake' \in [Tasks -> 0 .. Forever] /\ PendingReady' \subseteq Tasks
             /\ PendingRX' \subseteq Tasks /\ PendingTX' \subseteq Tasks
             /\ txLock' \in -1 .. Cardinality(Tasks)
             /\ UNCHANGED <<length, rxLock, pc, callVars, suspender, timeVars, abortVars>>
  BY <1>3, <1>4, WakeType DEF ItemFromISR, CountedTX, TypeOK
<1>5. CASE GiveFromISR
  BY <1>4, <1>5 DEF GiveFromISR, TypeOK
<1>6. CASE SendFromISR
  BY <1>4, <1>6 DEF SendFromISR, TypeOK
<1>7. CASE RecvFromISR
  BY <1>3, <1>7, WakeType DEF RecvFromISR, TypeOK
<1>8. CASE Reset
  BY <1>8, WakeType, TaskCount DEF Reset, TypeOK
<1>9. CASE Tick
  <2>1. TickCount' \in 0 .. Forever
    BY <1>9, ModTicks DEF Tick, TypeOK
  <2> QED
    BY <1>9, <2>1 DEF Tick, TypeOK
<1> QED
  BY <1>1, <1>2, <1>5, <1>6, <1>7, <1>8, <1>9

\* Each step keeps the types.
LEMMA TypeStep == TypeOK /\ OutcomeInv /\ [Next]_vars => TypeOK'
<1> SUFFICES ASSUME TypeOK, OutcomeInv, [Next]_vars PROVE TypeOK'
  OBVIOUS
<1>1. CASE UNCHANGED vars
  BY <1>1 DEF vars, queueVars, listVars, callVars, timeVars, abortVars, TypeOK
<1>2. ASSUME NEW t \in Tasks, TaskStep(t) PROVE TypeOK'
  BY <1>2, TestType, LockedType DEF TaskStep
<1> QED
  BY <1>1, <1>2, OutsideType DEF Next

-----------------------------------------------------------------------------
(* The scheduler and the locks. *)

\* Where the task that takes a step of the locked part has the scheduler suspended.
LEMMA SuspenderMoves ==
  ASSUME TypeOK, LockInv, NEW t \in Tasks, pc[t] \in Locked,
         NEW label \in Locked, pc' = [pc EXCEPT ![t] = label], UNCHANGED suspender
  PROVE  /\ \A u \in Tasks : suspender' = u <=> pc'[u] \in Locked
         /\ suspender' # Nobody
         /\ \A u \in Tasks \ {t} : pc'[u] = pc[u] /\ pc[u] \notin Locked
  BY QueueAssumption DEF LockInv, TypeOK

\* A step of a task that has the scheduler not suspended leaves the locks alone.
LEMMA LockQuiet ==
  ASSUME TypeOK, LockInv, NEW t \in Tasks, pc[t] \notin Locked,
         NEW label \in Label \ Locked, pc' = [pc EXCEPT ![t] = label],
         UNCHANGED <<suspender, rxLock, txLock>>
  PROVE  LockInv'
  BY DEF LockInv, TypeOK, Locked

\* The steps of tasks keep the locks as Lock and Unlock say.
LEMMA TaskLock == ASSUME TypeOK, LockInv, OutcomeInv, NEW t \in Tasks, TaskStep(t) PROVE LockInv'
<1> USE DEF Goto, queueVars, callVars, Label
<1>1. CASE SendWrites(t) \/ ReceiveTakes(t) \/ PeekReads(t) \/ Fails(t)
  BY <1>1, LockQuiet
     DEF SendWrites, ReceiveTakes, PeekReads, Fails, Return, Testing, Locked
<1>2. CASE StartsToWait(t)
  BY <1>2, LockQuiet DEF StartsToWait, Testing, Locked
<1>3. CASE SuspendAndLock(t)
  BY <1>3, QueueAssumption DEF SuspendAndLock, At, LockInv, TypeOK, Locked
<1>4. CASE CheckAborted(t) \/ CheckExpired(t) \/ CheckGoesOn(t) \/ Look(t) \/ Place(t)
  <2>1. /\ pc[t] \in {"check", "look", "place"} /\ UNCHANGED <<suspender, rxLock, txLock>>
        /\ \E label \in {"look", "place", "unlockTX"} : pc' = [pc EXCEPT ![t] = label]
    BY <1>4 DEF CheckAborted, CheckExpired, CheckGoesOn, Look, Place, At
  <2>2. PICK label \in {"look", "place", "unlockTX"} : pc' = [pc EXCEPT ![t] = label]
    BY <2>1
  <2>3. /\ \A u \in Tasks : suspender' = u <=> pc'[u] \in Locked
        /\ suspender' # Nobody
        /\ \A u \in Tasks \ {t} : pc'[u] = pc[u] /\ pc[u] \notin Locked
    BY <2>1, <2>2, SuspenderMoves DEF Locked
  <2>4. pc'[t] \in {"look", "place", "unlockTX"} /\ txLock' # -1
    BY <2>1, <2>2 DEF LockInv, TypeOK
  <2> QED
    BY <2>3, <2>4 DEF LockInv, Locked
<1>5. CASE UnlockTX(t)
  BY <1>5, SuspenderMoves DEF UnlockTX, At, LockInv, TypeOK, Locked
<1>6. CASE UnlockRX(t)
  <2>1. /\ pc[t] = "unlockRX" /\ pc' = [pc EXCEPT ![t] = "resume"]
        /\ rxLock' = -1 /\ UNCHANGED <<txLock, suspender>>
    BY <1>6 DEF UnlockRX, At
  <2>2. /\ \A u \in Tasks : suspender' = u <=> pc'[u] \in Locked
        /\ suspender' # Nobody
        /\ \A u \in Tasks \ {t} : pc'[u] = pc[u] /\ pc[u] \notin Locked
    BY <2>1, SuspenderMoves DEF Locked
  <2>3. pc'[t] = "resume" /\ txLock' = -1
    BY <2>1 DEF LockInv, TypeOK
  <2> QED
    BY <2>1, <2>2, <2>3 DEF LockInv, Locked
<1>7. CASE ResumeAll(t)
  <2>1. \E label \in Label \ Locked : pc' = [pc EXCEPT ![t] = label]
    <3>1. CASE outcome[t] = "timedOut" /\ op[t] \in Sends
      BY <1>7, <3>1 DEF ResumeAll, Return, Locked
    <3>2. CASE ~(outcome[t] = "timedOut" /\ op[t] \in Sends)
      <4>1. outcome[t] \in {"placed", "again", "timedOut"}
        BY <1>7 DEF ResumeAll, At, OutcomeInv, TypeOK, Outcome
      <4> QED
        BY <1>7, <3>2, <4>1 DEF ResumeAll, Locked
    <3> QED
      BY <3>1, <3>2
  <2>2. pc[t] = "resume" /\ suspender' = Nobody /\ UNCHANGED <<rxLock, txLock>>
    BY <1>7 DEF ResumeAll, At
  <2>3. rxLock = -1 /\ txLock = -1 /\ \A u \in Tasks \ {t} : pc[u] \notin Locked
    BY <2>2 DEF LockInv, Locked
  <2>4. \A u \in Tasks : pc'[u] \notin Locked
    BY <2>1, <2>3 DEF TypeOK
  <2> QED
    BY <2>2, <2>3, <2>4, QueueAssumption DEF LockInv, Locked
<1>8. CASE Final(t)
  BY <1>8, LockQuiet DEF Final, Return, At, Locked
<1> QED
  BY <1>1, <1>2, <1>3, <1>4, <1>5, <1>6, <1>7, <1>8 DEF TaskStep

\* Each step keeps the locks as Lock and Unlock say.
LEMMA LockStep == TypeOK /\ LockInv /\ OutcomeInv /\ [Next]_vars => LockInv'
<1> SUFFICES ASSUME TypeOK, LockInv, OutcomeInv, [Next]_vars PROVE LockInv'
  OBVIOUS
<1> USE DEF queueVars, callVars
<1>1. CASE UNCHANGED vars
  BY <1>1 DEF vars, LockInv
<1>2. ASSUME NEW c \in Calls, Call(c[1], c[2], c[3]) PROVE LockInv'
  <2>1. c[1] \in Tasks
    BY QueueAssumption
  <2> QED
    BY <1>2, <2>1, LockQuiet DEF Call, Goto, Label, Locked
<1>3. ASSUME NEW t \in Tasks, AbortDelay(t) PROVE LockInv'
  BY <1>3 DEF AbortDelay, LockInv
<1>4. CASE GiveFromISR \/ SendFromISR
  <2>1. \A lock \in -1 .. Cardinality(Tasks) : lock # -1 => Counted(lock) # -1
    BY TaskCount DEF Counted
  <2> QED
    BY <1>4, <2>1 DEF GiveFromISR, SendFromISR, ItemFromISR, CountedTX, LockInv, TypeOK
<1>5. CASE RecvFromISR
  <2>1. suspender = Nobody => rxLock' = -1
    BY <1>5 DEF RecvFromISR, LockInv
  <2> QED
    BY <1>5, <2>1 DEF RecvFromISR, LockInv
<1>6. CASE Reset
  BY <1>6, QueueAssumption DEF Reset, LockInv, Locked
<1>7. CASE Tick
  BY <1>7 DEF Tick, LockInv
<1> QED
  BY <1>1, <1>2, <1>3, <1>4, <1>5, <1>6, <1>7, TaskLock DEF Next

-----------------------------------------------------------------------------
(* The calls and the lists. *)

\* Each step keeps what the outcome of a call tells about it.
LEMMA OutcomeStep == TypeOK /\ LockInv /\ OutcomeInv /\ [Next]_vars => OutcomeInv'
<1> SUFFICES ASSUME TypeOK, LockInv, OutcomeInv, [Next]_vars PROVE OutcomeInv'
  OBVIOUS
<1> USE DEF callVars, Goto, Sends, Receives, Outcome
<1>1. CASE UNCHANGED vars
  BY <1>1 DEF vars, OutcomeInv
<1>2. ASSUME NEW c \in Calls, Call(c[1], c[2], c[3]) PROVE OutcomeInv'
  <2>1. c[1] \in Tasks /\ c[2] \in Sends \cup Receives
    BY QueueAssumption
  <2> QED
    BY <1>2, <2>1 DEF Call, TypeOK, OutcomeInv
<1>3. ASSUME NEW t \in Tasks, TaskStep(t) PROVE OutcomeInv'
  <2>1. CASE SendWrites(t) \/ ReceiveTakes(t) \/ PeekReads(t) \/ Fails(t)
    BY <2>1 DEF SendWrites, ReceiveTakes, PeekReads, Fails, Return, TypeOK, OutcomeInv
  <2>2. CASE StartsToWait(t)
    BY <2>2 DEF StartsToWait, Testing, TypeOK, OutcomeInv
  <2>3. CASE SuspendAndLock(t)
    <3>1. /\ pc[t] = "suspend" /\ UNCHANGED <<op, outcome>>
          /\ pc' = [pc EXCEPT ![t] = IF op[t] = "restricted" THEN "look" ELSE "check"]
      BY <2>3 DEF SuspendAndLock, At
    <3> QED
      BY <3>1 DEF TypeOK, OutcomeInv, Waiting
  <2>4. CASE CheckAborted(t) \/ CheckExpired(t) \/ CheckGoesOn(t)
    BY <2>4 DEF CheckAborted, CheckExpired, CheckGoesOn, At, TypeOK, OutcomeInv
  <2>5. CASE Look(t)
    BY <2>5 DEF Look, At, TypeOK, OutcomeInv
  <2>6. CASE Place(t)
    BY <2>6 DEF Place, At, TypeOK, OutcomeInv, Waiting
  <2>7. CASE UnlockTX(t) \/ UnlockRX(t)
    BY <2>7 DEF UnlockTX, UnlockRX, At, TypeOK, OutcomeInv, Waiting
  <2>8. CASE ResumeAll(t)
    <3>1. outcome[t] \in {"placed", "again", "timedOut"} /\ pc[t] = "resume"
      BY <2>8 DEF ResumeAll, At, OutcomeInv, TypeOK
    <3>2. CASE outcome[t] = "timedOut" /\ op[t] \in Sends
      BY <2>8, <3>2 DEF ResumeAll, Return, TypeOK, OutcomeInv
    <3>3. CASE ~(outcome[t] = "timedOut" /\ op[t] \in Sends)
      <4>1. /\ pc' = [pc EXCEPT ![t] = IF outcome[t] = "placed" THEN "blocked"
                                      ELSE IF outcome[t] = "again" THEN "test" ELSE "final"]
            /\ UNCHANGED <<op, outcome>>
        BY <2>8, <3>1, <3>3 DEF ResumeAll
      <4> QED
        BY <3>1, <4>1 DEF TypeOK, OutcomeInv, Waiting
    <3> QED
      BY <3>2, <3>3
  <2>9. CASE Final(t)
    BY <2>9 DEF Final, Return, At, TypeOK, OutcomeInv
  <2> QED
    BY <1>3, <2>1, <2>2, <2>3, <2>4, <2>5, <2>6, <2>7, <2>8, <2>9 DEF TaskStep
<1>4. ASSUME NEW t \in Tasks, AbortDelay(t) PROVE OutcomeInv'
  BY <1>4 DEF AbortDelay, OutcomeInv
<1>5. CASE GiveFromISR \/ SendFromISR \/ RecvFromISR \/ Reset \/ Tick
  BY <1>5 DEF GiveFromISR, SendFromISR, ItemFromISR, RecvFromISR, Reset, Tick, OutcomeInv
<1> QED
  BY <1>1, <1>2, <1>3, <1>4, <1>5 DEF Next

\* The lists stay sound while tasks are only taken out of them, and their calls go on.
LEMMA ListKept ==
  ASSUME ListInv,
         PendingRX' \subseteq PendingRX, PendingTX' \subseteq PendingTX,
         \A u \in PendingRX' \cup PendingTX' : wake'[u] # 0,
         PendingReady' \subseteq PendingReady \cup PendingRX \cup PendingTX,
         PendingReady' \cap (PendingRX' \cup PendingTX') = {},
         PendingReady' # {} => suspender' # Nobody,
         \A u \in PendingRX \cup PendingTX \cup PendingReady :
           op'[u] = op[u] /\ outcome'[u] = outcome[u]
  PROVE  ListInv'
  BY DEF ListInv

\* What waking tasks does to the lists.
LEMMA WakeLists ==
  ASSUME TypeOK, ListInv, NEW n, WakeRX(n) \/ WakeTX(n)
  PROVE  /\ PendingRX' \subseteq PendingRX /\ PendingTX' \subseteq PendingTX
         /\ \A u \in PendingRX' \cup PendingTX' : wake'[u] # 0
         /\ PendingReady' \subseteq PendingReady \cup PendingRX \cup PendingTX
         /\ PendingReady' \cap (PendingRX' \cup PendingTX') = {}
         /\ suspender = Nobody => PendingReady' = PendingReady
<1>1. PendingRX \cap PendingTX = {}
  BY DEF ListInv, Sends, Receives
<1>2. CASE WakeRX(n)
  <2>1. PICK s \in Some(PendingRX, n) :
          PendingRX' = PendingRX \ s /\ RemoveFromEventList(s) /\ UNCHANGED PendingTX
    BY <1>2 DEF WakeRX
  <2>2. s \subseteq PendingRX
    BY <2>1 DEF Some
  <2> QED
    BY <1>1, <2>1, <2>2 DEF RemoveFromEventList, TypeOK, ListInv
<1>3. CASE WakeTX(n)
  <2>1. PICK s \in Some(PendingTX, n) :
          PendingTX' = PendingTX \ s /\ RemoveFromEventList(s) /\ UNCHANGED PendingRX
    BY <1>3 DEF WakeTX
  <2>2. s \subseteq PendingTX
    BY <2>1 DEF Some
  <2> QED
    BY <1>1, <2>1, <2>2 DEF RemoveFromEventList, TypeOK, ListInv
<1> QED
  BY <1>2, <1>3

\* A task that may run while the scheduler is not suspended is in none of the lists.
LEMMA RunsUnlisted ==
  ASSUME ListInv, NEW t \in Tasks, Runs(t) \/ outcome[t] # "placed"
  PROVE  t \notin PendingRX \cup PendingTX \cup PendingReady
  BY DEF ListInv, Runs

\* The steps of tasks keep the lists sound.
LEMMA TaskLists == ASSUME TypeOK, OutcomeInv, ListInv, NEW t \in Tasks, TaskStep(t) PROVE ListInv'
<1> USE DEF listVars, callVars
<1>1. CASE SendWrites(t) \/ ReceiveTakes(t) \/ PeekReads(t)
  <2>1. /\ Runs(t) /\ Return(t) /\ UNCHANGED suspender
        /\ WakeRX(1) \/ WakeTX(1)
    BY <1>1 DEF SendWrites, ReceiveTakes, PeekReads, Testing
  <2>2. \A u \in Tasks \ {t} : op'[u] = op[u] /\ outcome'[u] = outcome[u]
    BY <2>1 DEF Return, TypeOK
  <2>3. PendingReady' = PendingReady /\ PendingReady = {}
    BY <2>1, WakeLists DEF Runs, ListInv
  <2> QED
    BY <2>1, <2>2, <2>3, WakeLists, RunsUnlisted, ListKept DEF TypeOK
<1>2. CASE Fails(t) \/ StartsToWait(t)
  <2>1. Runs(t) /\ UNCHANGED <<listVars, suspender>>
    BY <1>2 DEF Fails, StartsToWait, Testing
  <2>2. \A u \in Tasks \ {t} : op'[u] = op[u] /\ outcome'[u] = outcome[u]
    BY <1>2 DEF Fails, StartsToWait, Return, TypeOK
  <2> QED
    BY <2>1, <2>2, RunsUnlisted DEF ListInv, TypeOK
<1>3. CASE SuspendAndLock(t)
  BY <1>3, QueueAssumption DEF SuspendAndLock, ListInv
<1>4. CASE CheckAborted(t) \/ CheckExpired(t) \/ CheckGoesOn(t) \/ Look(t)
  <2>1. /\ pc[t] \in {"check", "look"} /\ UNCHANGED <<listVars, suspender>>
        /\ \A u \in Tasks \ {t} : op'[u] = op[u] /\ outcome'[u] = outcome[u]
    BY <1>4 DEF CheckAborted, CheckExpired, CheckGoesOn, Look, At, TypeOK
  <2>2. outcome[t] # "placed"
    BY <2>1 DEF OutcomeInv, Waiting
  <2> QED
    BY <2>1, <2>2, RunsUnlisted DEF ListInv, TypeOK
<1>5. CASE Place(t)
  <2>1. t \notin PendingRX \cup PendingTX \cup PendingReady /\ op[t] # "none"
    BY <1>5, RunsUnlisted DEF Place, At, OutcomeInv, Waiting
  <2>2. wake'[t] # 0 /\ outcome'[t] = "placed" /\ UNCHANGED <<op, PendingReady, suspender>>
    BY <1>5 DEF Place, TypeOK
  <2>3. \A u \in Tasks \ {t} : wake'[u] = wake[u] /\ outcome'[u] = outcome[u]
    BY <1>5 DEF Place, TypeOK
  <2>4. CASE op[t] \in Sends
    <3>1. PendingTX' = PendingTX \cup {t} /\ PendingRX' = PendingRX
      BY <1>5, <2>4 DEF Place
    <3> QED
      BY <2>1, <2>2, <2>3, <2>4, <3>1 DEF ListInv, TypeOK
  <2>5. CASE op[t] \notin Sends
    <3>1. PendingRX' = PendingRX \cup {t} /\ PendingTX' = PendingTX /\ op[t] \in Receives
      BY <1>5, <2>1, <2>5 DEF Place, TypeOK
    <3> QED
      BY <2>1, <2>2, <2>3, <3>1 DEF ListInv, TypeOK
  <2> QED
    BY <2>4, <2>5
<1>6. CASE UnlockTX(t) \/ UnlockRX(t)
  <2>1. /\ UNCHANGED <<callVars, suspender>>
        /\ \E n \in {WokenByUnlock(txLock), WokenByUnlock(rxLock)} : WakeRX(n) \/ WakeTX(n)
    BY <1>6 DEF UnlockTX, UnlockRX
  <2>2. PendingReady' # {} => suspender' # Nobody
    BY <2>1, WakeLists DEF ListInv
  <2> QED
    BY <2>1, <2>2, WakeLists, ListKept
<1>7. CASE ResumeAll(t)
  <2>1. /\ PendingReady' = {} /\ UNCHANGED <<PendingRX, PendingTX>>
        /\ \A u \in PendingRX \cup PendingTX : wake'[u] = wake[u]
    BY <1>7 DEF ResumeAll, ListInv, TypeOK
  <2>2. \A u \in PendingRX \cup PendingTX : op'[u] = op[u] /\ outcome'[u] = outcome[u]
    BY <1>7 DEF ResumeAll, Return, ListInv, TypeOK
  <2> QED
    BY <2>1, <2>2 DEF ListInv
<1>8. CASE Final(t)
  <2>1. pc[t] = "final" /\ UNCHANGED <<listVars, suspender>>
    BY <1>8 DEF Final, At
  <2>2. \A u \in Tasks \ {t} : op'[u] = op[u] /\ outcome'[u] = outcome[u]
    BY <1>8 DEF Final, Return, TypeOK
  <2>3. outcome[t] # "placed"
    BY <2>1 DEF OutcomeInv, Waiting
  <2> QED
    BY <2>1, <2>2, <2>3, RunsUnlisted DEF ListInv, TypeOK
<1> QED
  BY <1>1, <1>2, <1>3, <1>4, <1>5, <1>6, <1>7, <1>8 DEF TaskStep

\* Each step keeps the lists sound.
LEMMA ListStep == TypeOK /\ OutcomeInv /\ ListInv /\ [Next]_vars => ListInv'
<1> SUFFICES ASSUME TypeOK, OutcomeInv, ListInv, [Next]_vars PROVE ListInv'
  OBVIOUS
<1> USE DEF listVars, callVars
<1>1. CASE UNCHANGED vars
  BY <1>1 DEF vars, ListInv
<1>2. ASSUME NEW c \in Calls, Call(c[1], c[2], c[3]) PROVE ListInv'
  <2>1. c[1] \in Tasks
    BY QueueAssumption
  <2>2. outcome[c[1]] = "none"
    BY <1>2, <2>1 DEF Call, OutcomeInv
  <2>3. \A u \in Tasks \ {c[1]} : op'[u] = op[u]
    BY <1>2, <2>1 DEF Call, TypeOK
  <2> QED
    BY <1>2, <2>1, <2>2, <2>3, RunsUnlisted DEF Call, ListInv, TypeOK
<1>3. ASSUME NEW t \in Tasks, AbortDelay(t) PROVE ListInv'
  BY <1>3 DEF AbortDelay, ListInv, TypeOK
<1>4. CASE GiveFromISR \/ SendFromISR \/ RecvFromISR \/ Reset
  <2>1. /\ UNCHANGED <<callVars, suspender>>
        /\ WakeRX(1) \/ WakeTX(1) \/ UNCHANGED listVars
    BY <1>4 DEF GiveFromISR, SendFromISR, ItemFromISR, RecvFromISR, Reset
  <2>2. CASE UNCHANGED listVars
    BY <2>1, <2>2 DEF ListInv
  <2>3. CASE WakeRX(1) \/ WakeTX(1)
    <3>1. PendingReady' # {} => suspender' # Nobody
      BY <2>1, <2>3, WakeLists DEF ListInv
    <3> QED
      BY <2>1, <2>3, <3>1, WakeLists, ListKept
  <2> QED
    BY <2>1, <2>2, <2>3
<1>5. CASE Tick
  <2>1. \A u \in PendingRX' \cup PendingTX' : wake[u] \notin {0, 1} /\ u \in Tasks
    BY <1>5 DEF Tick, ListInv, TypeOK
  <2>2. \A u \in PendingRX' \cup PendingTX' : wake'[u] # 0
    BY <1>5, <2>1 DEF Tick, TypeOK, Forever
  <2> QED
    BY <1>5, <2>2 DEF Tick, ListInv
<1> QED
  BY <1>1, <1>2, <1>3, <1>4, <1>5, TaskLists DEF Next

\* Types, locks, calls and lists are as the inductive invariant says.
LEMMA InvInit == Init => Inv
<1> SUFFICES ASSUME Init PROVE LockInv /\ OutcomeInv /\ ListInv
  BY TypeInit DEF Inv
<1> QED
  BY QueueAssumption DEF Init, LockInv, OutcomeInv, ListInv, Locked, Waiting

\* Each step keeps the invariant.
LEMMA InvStep == Inv /\ [Next]_vars => Inv'
  BY TypeStep, LockStep, OutcomeStep, ListStep DEF Inv

\* The invariant holds in every reachable state.
LEMMA Invariance == Spec => []Inv
  BY InvInit, InvStep, PTL DEF Spec

\* Every variable keeps its type, for every set of tasks and every width of the tick count.
THEOREM TypeCorrect == Spec => []TypeOK
<1>1. Inv => TypeOK
  BY DEF Inv
<1> QED
  BY <1>1, Invariance, PTL

-----------------------------------------------------------------------------
(* No wake-up is lost. *)

\* A task that was woken, or is now taken out of PendingRX, counts as woken as long as its call
\* stands where it did.
LEMMA WokenAfter ==
  ASSUME Inv, PendingRX' \subseteq PendingRX, NEW t,
         \A u \in Tasks \ {t} : pc'[u] = pc[u] /\ op'[u] = op[u] /\ outcome'[u] = outcome[u]
  PROVE  (Woken \cup (PendingRX \ PendingRX')) \ {t} \subseteq Woken'
  BY DEF Inv, TypeOK, OutcomeInv, ListInv, Woken, Waiting

\* Sets of tasks are counted.
LEMMA WokenCount ==
  ASSUME Inv
  PROVE  /\ Cardinality(Woken) \in Nat /\ Cardinality(PendingRX) \in Nat
         /\ \A s \in SUBSET PendingRX :
              /\ Cardinality(s) \in Nat
              /\ Cardinality(Woken \cup s) = Cardinality(Woken) + Cardinality(s)
         /\ PendingRX # {} => Cardinality(PendingRX) > 0
         /\ PendingRX # {} => Cardinality(Woken) < Cardinality(Tasks)
         /\ Cardinality(PendingRX) <= Cardinality(Tasks)
<1>1. Woken \in SUBSET Tasks /\ PendingRX \in SUBSET Tasks /\ Woken \cap PendingRX = {}
  BY DEF Inv, TypeOK, Woken
<1>2. ASSUME NEW s \in SUBSET PendingRX
      PROVE  /\ Cardinality(s) \in Nat
             /\ Cardinality(Woken \cup s) = Cardinality(Woken) + Cardinality(s)
  <2>1. Woken \cap s = {} /\ s \in SUBSET Tasks
    BY <1>1
  <2>2. IsFiniteSet(Woken) /\ IsFiniteSet(s)
    BY <1>1, <2>1, TaskCount
  <2>3. Cardinality(Woken \cup s) = Cardinality(Woken) + Cardinality(s) - Cardinality({})
    BY <2>1, <2>2, FS_Union
  <2> QED
    BY <1>1, <2>1, <2>3, TaskCount, FS_EmptySet
<1>3. PendingRX # {} => Cardinality(PendingRX) > 0
  BY <1>1, TaskCount, FS_EmptySet
<1>4. Cardinality(Woken \cup PendingRX) <= Cardinality(Tasks)
  <2>1. Woken \cup PendingRX \in SUBSET Tasks
    BY <1>1
  <2> QED
    BY <2>1, TaskCount
<1> QED
  BY <1>1, <1>2, <1>3, <1>4, TaskCount

\* More tasks count as woken when none of the woken is lost.
LEMMA WokenGrows ==
  ASSUME Inv, Inv', NEW s \in SUBSET PendingRX, Woken \cup s \subseteq Woken'
  PROVE  Cardinality(Woken') >= Cardinality(Woken) + Cardinality(s)
<1>1. Woken' \in SUBSET Tasks /\ Woken \cup s \in SUBSET Woken'
  BY DEF Inv, TypeOK, Woken
<1>2. IsFiniteSet(Woken')
  BY <1>1, TaskCount
<1>3. Cardinality(Woken \cup s) <= Cardinality(Woken')
  BY <1>1, <1>2, FS_Subset
<1> QED
  BY <1>3, WokenCount

\* Unlock and the ISRs take as many tasks out of PendingRX as they have items, if there are.
LEMMA WakeRXTakes ==
  ASSUME Inv, NEW n \in Nat, WakeRX(n)
  PROVE  /\ PendingRX' \subseteq PendingRX
         /\ Cardinality(PendingRX \ PendingRX') = Minimum(n, Cardinality(PendingRX))
<1>1. PICK s \in Some(PendingRX, n) : PendingRX' = PendingRX \ s
  BY DEF WakeRX
<1>2. s \subseteq PendingRX /\ Cardinality(s) = Minimum(n, Cardinality(PendingRX))
  BY DEF Some
<1>3. PendingRX \ PendingRX' = s
  BY <1>1, <1>2
<1> QED
  BY <1>1, <1>2, <1>3

\* The invariant is kept when nobody comes to wait, no item comes and no wake-up is forgotten.
LEMMA WakeKept ==
  ASSUME Inv, Inv', WakeInv, PendingRX' \subseteq PendingRX, Woken \subseteq Woken',
         nWaiting' <= nWaiting, Counts(txLock') >= Counts(txLock),
         \A t \in Tasks : pc'[t] = "place" /\ op'[t] \in Receives =>
           pc[t] = "place" /\ op[t] \in Receives
  PROVE  WakeInv'
<1>1. Cardinality(Woken') >= Cardinality(Woken)
  <2>1. Woken \cup {} \subseteq Woken' /\ {} \in SUBSET PendingRX
    OBVIOUS
  <2>2. Cardinality(Woken') >= Cardinality(Woken) + Cardinality({})
    BY <2>1, WokenGrows
  <2> QED
    BY <2>2, WokenCount, FS_EmptySet
<1>2. /\ Cardinality(Woken) \in Nat /\ Cardinality(Woken') \in Nat
      /\ Cardinality(Tasks) \in Nat /\ nWaiting \in Nat /\ nWaiting' \in Nat
      /\ txLock \in Int /\ txLock' \in Int
  <2>1. Cardinality(Woken') \in Nat
    <3>1. Woken' \in SUBSET Tasks
      BY DEF Inv, TypeOK, Woken
    <3> QED
      BY <3>1, TaskCount
  <2> QED
    BY <2>1, TaskCount, WokenCount DEF Inv, TypeOK
<1>3. Minimum(nWaiting', Cardinality(Tasks)) <= Minimum(nWaiting, Cardinality(Tasks))
  BY <1>2 DEF Minimum
<1>4. ASSUME PendingRX' # {}
      PROVE  Cardinality(Woken') + Counts(txLock') >= Minimum(nWaiting', Cardinality(Tasks))
  BY <1>1, <1>2, <1>3, <1>4 DEF WakeInv, Counts, Minimum
<1>5. ASSUME NEW t \in Tasks, pc'[t] = "place", op'[t] \in Receives
      PROVE  txLock' >= Minimum(nWaiting', Cardinality(Tasks))
  <2>1. txLock >= Minimum(nWaiting, Cardinality(Tasks))
    BY <1>5 DEF WakeInv
  <2>2. txLock' # -1 /\ txLock # -1 /\ txLock' >= -1 /\ txLock >= -1
    BY <1>5 DEF Inv, LockInv, TypeOK
  <2> QED
    BY <1>2, <1>3, <2>1, <2>2 DEF Counts, Minimum
<1> QED
  BY <1>4, <1>5 DEF WakeInv

\* While the scheduler is not suspended nobody is about to wait, and the queue is not locked.
LEMMA NobodyPlaces ==
  ASSUME Inv, suspender = Nobody
  PROVE  /\ \A t \in Tasks : pc[t] \notin Locked
         /\ rxLock = -1 /\ txLock = -1
  BY QueueAssumption DEF Inv, LockInv

\* A task that tries to send, or gives up, forgets no wake-up; one that takes an item or finds
\* none was woken for it, or need not have been.
LEMMA TestWake ==
  ASSUME Inv, Inv', WakeInv, NEW t \in Tasks,
         SendWrites(t) \/ ReceiveTakes(t) \/ PeekReads(t) \/ Fails(t) \/ StartsToWait(t)
  PROVE  WakeInv'
<1>1. Runs(t) /\ pc'[t] \in {"idle", "suspend"} /\ txLock' = txLock /\ suspender' = Nobody
  BY DEF SendWrites, ReceiveTakes, PeekReads, Fails, StartsToWait, Testing, Runs, Return, Goto,
         queueVars, Inv, TypeOK
<1>2. \A u \in Tasks \ {t} : pc'[u] = pc[u] /\ op'[u] = op[u] /\ outcome'[u] = outcome[u]
  BY DEF SendWrites, ReceiveTakes, PeekReads, Fails, StartsToWait, Return, Goto, Inv, TypeOK
<1>3. /\ txLock = -1 /\ t \notin PendingRX
      /\ \A u \in Tasks : pc'[u] # "place"
  <2>1. suspender = Nobody
    BY <1>1 DEF Runs
  <2>2. txLock = -1 /\ \A u \in Tasks : pc[u] # "place"
    BY <2>1, NobodyPlaces DEF Locked
  <2>3. t \notin PendingRX
    BY <1>1, RunsUnlisted DEF Inv
  <2> QED
    BY <1>1, <1>2, <2>2, <2>3
<1>4. CASE SendWrites(t)
  <2>1. t \notin Woken /\ nWaiting' = nWaiting /\ WakeRX(1)
    BY <1>4 DEF SendWrites, Woken, Sends, Receives, queueVars
  <2>2. PendingRX' \subseteq PendingRX
    BY <2>1, WakeRXTakes
  <2>3. Woken \subseteq Woken'
    BY <1>2, <2>1, <2>2, WokenAfter
  <2> QED
    BY <1>1, <1>3, <2>1, <2>2, <2>3, WakeKept DEF Counts, Inv, TypeOK
<1>5. CASE ReceiveTakes(t)
  <2>1. nWaiting > 0 /\ nWaiting' = nWaiting - 1 /\ PendingRX' = PendingRX
    BY <1>5 DEF ReceiveTakes, WakeTX
  <2>2. Woken \ {t} \subseteq Woken'
    BY <1>2, <2>1, WokenAfter
  <2>3. Cardinality(Woken') >= Cardinality(Woken) - 1 /\ Cardinality(Woken') \in Nat
    <3>1. Woken \in SUBSET Tasks /\ Woken' \in SUBSET Tasks
      BY DEF Woken
    <3>2. IsFiniteSet(Woken) /\ IsFiniteSet(Woken') /\ Cardinality(Woken) \in Nat
      BY <3>1, TaskCount
    <3>3. Cardinality(Woken \ {t}) >= Cardinality(Woken) - 1
      BY <3>2, FS_RemoveElement
    <3>4. Cardinality(Woken \ {t}) <= Cardinality(Woken') /\ Cardinality(Woken \ {t}) \in Nat
      BY <2>2, <3>1, <3>2, FS_Subset, FS_RemoveElement, FS_CardinalityType
    <3> QED
      BY <3>1, <3>2, <3>3, <3>4, TaskCount
  <2>4. ASSUME PendingRX # {}
        PROVE  Cardinality(Woken') >= Minimum(nWaiting', Cardinality(Tasks))
    <3>1. Cardinality(Woken) >= Minimum(nWaiting, Cardinality(Tasks))
      BY <1>3, <2>4, WokenCount DEF WakeInv, Counts
    <3>2. Cardinality(Woken) >= nWaiting
      BY <2>4, <3>1, WokenCount, TaskCount DEF Minimum, Inv, TypeOK
    <3> QED
      BY <2>1, <2>3, <3>2, TaskCount, WokenCount DEF Minimum, Inv, TypeOK
  <2> QED
    BY <1>1, <1>3, <2>1, <2>3, <2>4 DEF WakeInv, Counts
<1>6. CASE PeekReads(t)
  <2>1. nWaiting' = nWaiting /\ WakeRX(1)
    BY <1>6 DEF PeekReads, queueVars
  <2> DEFINE s == PendingRX \ PendingRX'
  <2>2. /\ PendingRX' \subseteq PendingRX
        /\ Cardinality(s) = Minimum(1, Cardinality(PendingRX))
    BY <2>1, WakeRXTakes
  <2>3. (Woken \cup s) \ {t} \subseteq Woken'
    BY <1>2, <2>2, WokenAfter
  <2>4. ASSUME PendingRX # {}
        PROVE  Cardinality(Woken') >= Cardinality(Woken) /\ Cardinality(Woken') \in Nat
    <3>1. Woken \cup s \in SUBSET Tasks /\ Woken' \in SUBSET Tasks
      BY DEF Woken, Inv, TypeOK
    <3>2. IsFiniteSet(Woken \cup s) /\ IsFiniteSet(Woken')
      BY <3>1, TaskCount
    <3>3. Cardinality(Woken \cup s) = Cardinality(Woken) + 1
      BY <2>2, <2>4, WokenCount DEF Minimum
    <3>4. Cardinality((Woken \cup s) \ {t}) >= Cardinality(Woken)
      <4>1. Cardinality((Woken \cup s) \ {t})
              = IF t \in Woken \cup s THEN Cardinality(Woken \cup s) - 1
                                     ELSE Cardinality(Woken \cup s)
        BY <3>2, FS_RemoveElement
      <4> QED
        BY <3>3, <4>1, WokenCount
    <3>5. Cardinality((Woken \cup s) \ {t}) <= Cardinality(Woken')
      BY <2>3, <3>2, FS_Subset
    <3>6. Cardinality((Woken \cup s) \ {t}) \in Nat /\ Cardinality(Woken') \in Nat
      BY <3>2, FS_RemoveElement, FS_CardinalityType
    <3> QED
      BY <3>4, <3>5, <3>6, WokenCount
  <2>5. PendingRX' # {} => PendingRX # {}
    BY <2>2
  <2> QED
    BY <1>1, <1>3, <2>1, <2>4, <2>5, WokenCount, TaskCount DEF WakeInv, Counts, Minimum, Inv, TypeOK
<1>7. CASE Fails(t) \/ StartsToWait(t)
  <2>1. UNCHANGED <<nWaiting, PendingRX>> /\ CannotProceed(t)
    BY <1>7 DEF Fails, StartsToWait, queueVars, listVars
  <2>2. CASE op[t] \in Sends
    <3>1. t \notin Woken
      BY <2>2 DEF Woken, Sends, Receives
    <3>2. Woken \subseteq Woken'
      BY <1>2, <2>1, <3>1, WokenAfter
    <3> QED
      BY <1>1, <1>3, <2>1, <3>2, WakeKept DEF Inv, TypeOK, Counts
  <2>3. CASE op[t] \notin Sends
    <3>1. nWaiting = 0
      BY <2>1, <2>3 DEF CannotProceed
    <3>2. Cardinality(Woken') \in Nat
      <4>1. Woken' \in SUBSET Tasks
        BY DEF Woken
      <4> QED
        BY <4>1, TaskCount
    <3> QED
      BY <1>1, <1>3, <2>1, <3>1, <3>2, TaskCount DEF WakeInv, Counts, Minimum
  <2> QED
    BY <2>2, <2>3
<1> QED
  BY <1>4, <1>5, <1>6, <1>7

\* In the locked part of a call only its own steps change where a call is.
LEMMA LockedMoves ==
  ASSUME Inv, NEW t \in Tasks,
         \/ SuspendAndLock(t) \/ CheckAborted(t) \/ CheckExpired(t) \/ CheckGoesOn(t)
         \/ Look(t) \/ Place(t) \/ UnlockTX(t) \/ UnlockRX(t) \/ ResumeAll(t) \/ Final(t)
  PROVE  /\ \A u \in Tasks \ {t} : pc'[u] = pc[u] /\ op'[u] = op[u] /\ outcome'[u] = outcome[u]
         /\ \A u \in Tasks \ {t} : pc[u] \notin Locked
         /\ nWaiting' = nWaiting
<1> USE DEF queueVars, callVars, Goto, Return
<1>1. \A u \in Tasks \ {t} : pc'[u] = pc[u] /\ op'[u] = op[u] /\ outcome'[u] = outcome[u]
  <2>1. CASE SuspendAndLock(t) \/ CheckAborted(t) \/ CheckExpired(t) \/ CheckGoesOn(t)
    BY <2>1 DEF SuspendAndLock, CheckAborted, CheckExpired, CheckGoesOn, Inv, TypeOK
  <2>2. CASE Look(t) \/ Place(t) \/ UnlockTX(t) \/ UnlockRX(t)
    BY <2>2 DEF Look, Place, UnlockTX, UnlockRX, Inv, TypeOK
  <2>3. CASE ResumeAll(t)
    BY <2>3 DEF ResumeAll, Inv, TypeOK
  <2>4. CASE Final(t)
    BY <2>4 DEF Final, Inv, TypeOK
  <2> QED
    BY <2>1, <2>2, <2>3, <2>4
<1>2. \A u \in Tasks \ {t} : pc[u] \notin Locked
  <2>1. suspender \in {t, Nobody}
    BY DEF SuspendAndLock, CheckAborted, CheckExpired, CheckGoesOn, Look, Place, UnlockTX,
           UnlockRX, ResumeAll, Final, At
  <2> QED
    BY <2>1, NobodyPlaces DEF Inv, LockInv
<1>3. nWaiting' = nWaiting
  BY DEF SuspendAndLock, CheckAborted, CheckExpired, CheckGoesOn, Look, Place, UnlockTX,
         UnlockRX, ResumeAll, Final
<1> QED
  BY <1>1, <1>2, <1>3

\* A call that has come upon an empty queue goes to sleep owed all the items that ISRs give
\* until it does; Unlock wakes a task for each.
LEMMA LockedWake ==
  ASSUME Inv, Inv', WakeInv, NEW t \in Tasks,
         \/ SuspendAndLock(t) \/ CheckAborted(t) \/ CheckExpired(t) \/ CheckGoesOn(t)
         \/ Look(t) \/ Place(t) \/ UnlockTX(t) \/ UnlockRX(t) \/ ResumeAll(t) \/ Final(t)
  PROVE  WakeInv'
<1>1. /\ \A u \in Tasks \ {t} : pc'[u] = pc[u] /\ op'[u] = op[u] /\ outcome'[u] = outcome[u]
      /\ \A u \in Tasks \ {t} : pc'[u] # "place"
      /\ nWaiting' = nWaiting /\ nWaiting \in Nat
  BY LockedMoves DEF Inv, TypeOK, Locked
<1>2. /\ Cardinality(Woken') \in Nat /\ Cardinality(Woken) \in Nat /\ Cardinality(Tasks) \in Nat
      /\ txLock \in -1 .. Cardinality(Tasks)
  <2>1. Woken' \in SUBSET Tasks /\ Woken \in SUBSET Tasks
    BY DEF Woken
  <2> QED
    BY <2>1, TaskCount DEF Inv, TypeOK
<1>3. CASE SuspendAndLock(t) \/ CheckAborted(t) \/ CheckExpired(t) \/ CheckGoesOn(t)
  <2>1. /\ PendingRX' = PendingRX /\ Counts(txLock') >= Counts(txLock)
        /\ pc[t] \in {"suspend", "check"} /\ pc'[t] # "place"
    BY <1>2, <1>3 DEF SuspendAndLock, CheckAborted, CheckExpired, CheckGoesOn, At, Goto,
                queueVars, listVars, Counts, Inv, TypeOK
  <2>2. t \notin Woken
    BY <2>1 DEF Woken
  <2>3. Woken \subseteq Woken'
    BY <1>1, <2>1, <2>2, WokenAfter
  <2> QED
    BY <1>1, <2>1, <2>3, WakeKept
<1>4. CASE Look(t)
  <2>1. /\ UNCHANGED <<PendingRX, txLock, op>> /\ pc[t] = "look"
        /\ pc'[t] = "place" /\ op[t] \notin Sends => nWaiting = 0
    BY <1>4 DEF Look, At, Goto, Empty, queueVars, listVars, Inv, TypeOK
  <2>2. t \notin Woken
    BY <2>1 DEF Woken
  <2>3. Woken \subseteq Woken'
    BY <1>1, <2>1, <2>2, WokenAfter
  <2>4. txLock >= 0
    BY <1>2, <2>1 DEF Inv, LockInv
  <2>5. PendingRX' # {} =>
          Cardinality(Woken') + Counts(txLock') >= Minimum(nWaiting', Cardinality(Tasks))
    <3>1. Woken \cup {} \subseteq Woken' /\ {} \in SUBSET PendingRX
      BY <2>3
    <3>2. Cardinality(Woken') >= Cardinality(Woken) + Cardinality({})
      BY <3>1, WokenGrows
    <3> QED
      BY <1>1, <1>2, <2>1, <3>2, FS_EmptySet DEF WakeInv, Counts, Minimum
  <2>6. op[t] \in Receives => op[t] \notin Sends
    BY DEF Sends, Receives
  <2> QED
    BY <1>1, <1>2, <2>1, <2>4, <2>5, <2>6 DEF WakeInv, Minimum
<1>5. CASE Place(t)
  <2>1. /\ UNCHANGED <<txLock, op>> /\ pc[t] = "place" /\ pc'[t] # "place"
        /\ IF op[t] \in Sends THEN PendingRX' = PendingRX ELSE PendingRX' = PendingRX \cup {t}
    BY <1>5 DEF Place, At, Goto, queueVars, Inv, TypeOK
  <2>2. txLock >= 0 /\ t \notin Woken
    BY <1>2, <2>1 DEF Inv, LockInv, Woken
  <2>3. CASE op[t] \in Sends
    <3>1. PendingRX' = PendingRX
      BY <2>1, <2>3
    <3>2. Woken \subseteq Woken'
      BY <1>1, <2>2, <3>1, WokenAfter
    <3> QED
      BY <1>1, <1>2, <2>1, <3>1, <3>2, WakeKept DEF Counts
  <2>4. CASE op[t] \notin Sends
    <3>1. op[t] \in Receives
      BY <2>1, <2>4 DEF Inv, TypeOK, OutcomeInv
    <3>2. txLock >= Minimum(nWaiting, Cardinality(Tasks))
      BY <2>1, <3>1 DEF WakeInv
    <3> QED
      BY <1>1, <1>2, <2>1, <2>2, <3>2 DEF WakeInv, Counts, Minimum
  <2> QED
    BY <2>3, <2>4
<1>6. CASE UnlockTX(t)
  <2>1. /\ WakeRX(WokenByUnlock(txLock)) /\ txLock' = -1 /\ pc[t] = "unlockTX"
        /\ pc'[t] = "unlockRX" /\ UNCHANGED <<op, outcome>>
    BY <1>6 DEF UnlockTX, At, Goto, callVars, Inv, TypeOK
  <2>2. txLock >= 0 /\ WokenByUnlock(txLock) = txLock /\ Counts(txLock) = txLock
    BY <1>2, <2>1 DEF Inv, LockInv, WokenByUnlock, Counts
  <2> DEFINE s == PendingRX \ PendingRX'
  <2>3. /\ PendingRX' \subseteq PendingRX
        /\ Cardinality(s) = Minimum(txLock, Cardinality(PendingRX))
    BY <1>2, <2>1, <2>2, WakeRXTakes
  <2>4. (Woken \cup s) \ {t} \subseteq Woken'
    BY <1>1, <2>3, WokenAfter
  <2>5. t \in Woken \cup s => t \in Woken'
    BY <2>1, <2>3 DEF Woken, Inv, TypeOK, OutcomeInv, ListInv
  <2>6. Woken \cup s \subseteq Woken' /\ s \in SUBSET PendingRX
    BY <2>4, <2>5
  <2>7. Cardinality(Woken') >= Cardinality(Woken) + Cardinality(s)
    BY <2>6, WokenGrows
  <2>8. ASSUME PendingRX' # {}
        PROVE  Cardinality(s) = txLock
    <3>1. s # PendingRX /\ IsFiniteSet(PendingRX)
      BY <2>3, <2>8, TaskCount DEF Inv, TypeOK
    <3>2. Cardinality(s) # Cardinality(PendingRX)
      <4> HIDE DEF s
      <4> QED
        BY <2>6, <3>1, FS_Subset
    <3> QED
      BY <2>3, <3>2 DEF Minimum
  <2> QED
    <3>1. Cardinality(Woken) + txLock >= Minimum(nWaiting, Cardinality(Tasks)) \/ PendingRX' = {}
      BY <2>2, <2>3 DEF WakeInv
    <3>2. PendingRX' # {} => Cardinality(Woken') >= Minimum(nWaiting, Cardinality(Tasks))
      BY <1>1, <1>2, <2>7, <2>8, <3>1 DEF Minimum
    <3> QED
      BY <1>1, <1>2, <2>1, <3>2 DEF WakeInv, Counts
<1>7. CASE UnlockRX(t) \/ ResumeAll(t) \/ Final(t)
  <2>1. PendingRX' = PendingRX /\ txLock' = txLock /\ pc'[t] # "place"
    <3>1. CASE UnlockRX(t)
      BY <3>1 DEF UnlockRX, WakeTX, Goto, Inv, TypeOK
    <3>2. CASE ResumeAll(t)
      BY <3>2, NobodyPlaces DEF ResumeAll, queueVars, Inv, LockInv, Locked, TypeOK
    <3>3. CASE Final(t)
      BY <3>3 DEF Final, Goto, Return, queueVars, listVars, Inv, TypeOK
    <3> QED
      BY <1>7, <3>1, <3>2, <3>3
  <2>2. t \in Woken => t \in Woken'
    <3>1. CASE UnlockRX(t)
      BY <2>1, <3>1 DEF UnlockRX, Goto, callVars, Woken, Inv, TypeOK
    <3>2. CASE ResumeAll(t)
      BY <2>1, <3>2 DEF ResumeAll, Goto, callVars, Woken, Inv, TypeOK
    <3>3. CASE Final(t)
      BY <3>3 DEF Final, At, Woken
    <3> QED
      BY <1>7, <3>1, <3>2, <3>3
  <2>3. Woken \subseteq Woken'
    BY <1>1, <2>1, <2>2, WokenAfter
  <2> QED
    BY <1>1, <1>2, <2>1, <2>3, WakeKept DEF Counts
<1> QED
  BY <1>3, <1>4, <1>5, <1>6, <1>7

\* An item that an ISR gives wakes a sleeper or is counted; nothing else changes what is owed.
LEMMA OutsideWake ==
  ASSUME Inv, Inv', WakeInv,
         \/ \E t \in Tasks : AbortDelay(t)
         \/ \E c \in Calls : Call(c[1], c[2], c[3])
         \/ GiveFromISR \/ SendFromISR \/ RecvFromISR \/ Reset \/ Tick
  PROVE  WakeInv'
<1> USE DEF callVars, Goto
<1>1. ASSUME NEW c \in Calls, Call(c[1], c[2], c[3]) PROVE WakeInv'
  <2> DEFINE t == c[1]
  <2>1. t \in Tasks
    BY QueueAssumption
  <2>2. /\ UNCHANGED <<PendingRX, txLock, nWaiting, outcome>> /\ pc[t] = "idle"
        /\ pc'[t] \in {"suspend", "test"}
        /\ \A u \in Tasks \ {t} : pc'[u] = pc[u] /\ op'[u] = op[u]
    BY <1>1, <2>1 DEF Call, queueVars, listVars, Inv, TypeOK
  <2> HIDE DEF t
  <2>3. t \notin Woken
    BY <2>2 DEF Woken
  <2>4. PendingRX' \subseteq PendingRX
    BY <2>2
  <2>5. Woken \subseteq Woken'
    BY <2>2, <2>3, <2>4, WokenAfter
  <2> QED
    BY <2>1, <2>2, <2>4, <2>5, WakeKept DEF Counts, Inv, TypeOK
<1>2. ASSUME UNCHANGED <<pc, op, outcome>>, PendingRX' \subseteq PendingRX
      PROVE  Woken \cup (PendingRX \ PendingRX') \subseteq Woken'
  <2>1. Nobody \notin Woken \cup PendingRX
    BY QueueAssumption DEF Woken, Inv, TypeOK
  <2>2. (Woken \cup (PendingRX \ PendingRX')) \ {Nobody} \subseteq Woken'
    BY <1>2, WokenAfter
  <2> QED
    BY <2>1, <2>2
<1>3. ASSUME UNCHANGED <<pc, op, outcome>>, PendingRX' \subseteq PendingRX,
             nWaiting' <= nWaiting, Counts(txLock') >= Counts(txLock)
      PROVE  WakeInv'
  BY <1>2, <1>3, WakeKept
<1>4. ASSUME NEW t \in Tasks, AbortDelay(t) PROVE WakeInv'
  BY <1>3, <1>4 DEF AbortDelay, queueVars, Counts, Inv, TypeOK
<1>5. CASE Tick
  BY <1>3, <1>5 DEF Tick, queueVars, Counts, Inv, TypeOK
<1>6. CASE Reset
  <2>1. txLock = -1 /\ nWaiting >= 0
    BY <1>6, NobodyPlaces DEF Reset, Inv, TypeOK
  <2> QED
    BY <1>3, <1>6, <2>1 DEF Reset, WakeTX, Counts
<1>7. CASE RecvFromISR
  BY <1>3, <1>7 DEF RecvFromISR, WakeTX, listVars, Counts, Inv, TypeOK
<1>8. ASSUME ItemFromISR
      PROVE  /\ PendingRX' \subseteq PendingRX /\ UNCHANGED <<pc, op, outcome>>
             /\ Counts(txLock') >= Counts(txLock)
  BY <1>8, WakeRXTakes, TaskCount
     DEF ItemFromISR, CountedTX, Counted, listVars, Counts, Inv, TypeOK
<1>9. CASE SendFromISR
  BY <1>3, <1>8, <1>9 DEF SendFromISR, Inv, TypeOK
<1>10. CASE GiveFromISR
  <2>1. /\ PendingRX' \subseteq PendingRX /\ UNCHANGED <<pc, op, outcome>>
        /\ nWaiting' = nWaiting + 1 /\ nWaiting \in Nat
    BY <1>8, <1>10 DEF GiveFromISR, Inv, TypeOK
  <2> DEFINE s == PendingRX \ PendingRX'
  <2>2. Cardinality(Woken') >= Cardinality(Woken) + Cardinality(s)
    BY <1>2, <2>1, WokenGrows
  <2>3. /\ Cardinality(Woken) \in Nat /\ Cardinality(Woken') \in Nat
        /\ Cardinality(Tasks) \in Nat /\ Cardinality(s) \in Nat
        /\ txLock \in -1 .. Cardinality(Tasks)
    <3>1. Woken \in SUBSET Tasks /\ Woken' \in SUBSET Tasks /\ s \in SUBSET Tasks
      BY DEF Woken, Inv, TypeOK
    <3> QED
      BY <3>1, TaskCount DEF Inv, TypeOK
  <2>4. CASE txLock = -1
    <3>1. WakeRX(1) /\ txLock' = txLock
      BY <1>10, <2>4 DEF GiveFromISR, ItemFromISR
    <3>2. Cardinality(s) = Minimum(1, Cardinality(PendingRX))
      BY <3>1, WakeRXTakes
    <3>3. ASSUME PendingRX # {} PROVE Cardinality(s) = 1
      BY <3>2, <3>3, WokenCount DEF Minimum
    <3>4. \A t \in Tasks : pc'[t] # "place"
      BY <2>1, <2>4 DEF Inv, LockInv
    <3>5. ASSUME PendingRX' # {}
          PROVE  Cardinality(Woken') >= Minimum(nWaiting', Cardinality(Tasks))
      <4>1. Cardinality(s) = 1 /\ Cardinality(Woken) >= Minimum(nWaiting, Cardinality(Tasks))
        BY <2>1, <2>4, <3>3, <3>5, WokenCount DEF WakeInv, Counts
      <4> QED
        BY <2>1, <2>2, <2>3, <4>1 DEF Minimum
    <3> QED
      BY <2>3, <2>4, <3>1, <3>4, <3>5 DEF WakeInv, Counts
  <2>5. CASE txLock # -1
    <3>1. /\ PendingRX' = PendingRX
          /\ txLock' = IF txLock < Cardinality(Tasks) THEN txLock + 1 ELSE txLock
      BY <1>10, <2>5 DEF GiveFromISR, ItemFromISR, CountedTX, Counted, listVars
    <3>2. txLock >= 0
      BY <2>3, <2>5
    <3>3. Cardinality(Woken') >= Cardinality(Woken)
      BY <2>2, <2>3
    <3>4. PendingRX' # {} =>
            Cardinality(Woken') + Counts(txLock') >= Minimum(nWaiting', Cardinality(Tasks))
      BY <2>1, <2>3, <3>1, <3>2, <3>3 DEF WakeInv, Counts, Minimum
    <3>5. \A t \in Tasks : pc'[t] = "place" /\ op'[t] \in Receives =>
            txLock' >= Minimum(nWaiting', Cardinality(Tasks))
      BY <2>1, <2>3, <3>1, <3>2 DEF WakeInv, Minimum
    <3> QED
      BY <3>4, <3>5 DEF WakeInv
  <2> QED
    BY <2>4, <2>5
<1> QED
  BY <1>1, <1>4, <1>5, <1>6, <1>7, <1>9, <1>10

\* No wake-up is lost (queue.cpp, Unlock, incTXLock and the ISR forms): as many tasks as there
\* are items, or else all that sleep for one, have been woken or will be by the Unlock due.
THEOREM WakeUpsAreOwed == Spec => []WakeUpsOwed
<1>1. Init => WakeInv
  BY TaskCount, FS_EmptySet, QueueAssumption DEF Init, WakeInv, Counts
<1>2. Inv /\ Inv' /\ WakeInv /\ [Next]_vars => WakeInv'
  <2> SUFFICES ASSUME Inv, Inv', WakeInv, [Next]_vars PROVE WakeInv'
    OBVIOUS
  <2>1. CASE UNCHANGED vars
    BY <2>1 DEF vars, queueVars, listVars, callVars, WakeInv, Woken, Counts
  <2>2. ASSUME NEW t \in Tasks, TaskStep(t) PROVE WakeInv'
    BY <2>2, TestWake, LockedWake DEF TaskStep
  <2> QED
    BY <2>1, <2>2, OutsideWake DEF Next
<1>3. Inv /\ WakeInv => WakeUpsOwed
  <2> SUFFICES ASSUME Inv, WakeInv PROVE WakeUpsOwed
    OBVIOUS
  <2>1. PendingRX = {} => Cardinality(PendingRX) = 0
    BY FS_EmptySet
  <2> QED
    BY <2>1, WokenCount, TaskCount DEF WakeInv, WakeUpsOwed, Counts, Minimum, Inv, TypeOK
<1> QED
  BY <1>1, <1>2, <1>3, Invariance, PTL DEF Spec

-----------------------------------------------------------------------------
(* Time-outs. *)

\* NeverEarly is not inductive: what the call may still wait has to be no more than the wait it
\* was left with when its time-out was last counted, less the ticks since.
Early(t) ==
  /\ Timed(t) => left[t] = 0 \/ left[t] <= ticks[t] - Age(t)
  /\ outcome[t] = "timedOut" => left[t] = 0 \/ t \in aborted

\* NeverLate is not inductive either: it has to be no less.
Late(t) ==
  op[t] # "restricted" =>
    /\ Timed(t) => Age(t) <= MaxAge /\ left[t] >= ticks[t] - Age(t)
    /\ outcome[t] # "none" /\ ticks[t] = Forever => left[t] = Forever
    /\ pc[t] \in {"suspend", "check", "look", "place"} => ticks[t] > 0
    /\ pc[t] \in {"look", "place"} => left[t] >= ticks[t]
    /\ outcome[t] = "placed" => wake[t] <= left[t]

\* Remainders of numbers that are less than a modulus away from its range.
LEMMA ModOnce ==
  ASSUME NEW n \in Int, NEW m \in Nat \ {0}, -m <= n, n < 2 * m
  PROVE  n % m = IF n < 0 THEN n + m ELSE IF n < m THEN n ELSE n - m
<1>1. CASE n < 0
  BY <1>1
<1>2. CASE 0 <= n /\ n < m
  BY <1>2
<1>3. CASE m <= n
  BY <1>3
<1> QED
  BY <1>1, <1>2, <1>3

\* The same, modulo the cycle in which the clock and the parity of its wraps come round.
LEMMA ModCycle ==
  ASSUME NEW n \in Int, -(2 * TickValues) <= n, n < 2 * TickValues
  PROVE  n % (2 * TickValues) = IF n < 0 THEN n + 2 * TickValues ELSE n
<1> DEFINE m == 2 * TickValues
<1>1. m \in Nat \ {0} /\ -m <= n /\ n < m
  BY QueueAssumption
<1> HIDE DEF m
<1>2. n % m = IF n < 0 THEN n + m ELSE n
  <2>1. n < 2 * m
    BY <1>1
  <2> QED
    BY <1>1, <2>1, ModOnce
<1> QED
  BY <1>2 DEF m

\* The elapsed time as CheckForTimeOut computes it, and as it is.
LEMMA ElapsedValue ==
  ASSUME TypeOK, NEW t \in Tasks
  PROVE  LET d == TickCount - TimeOnEntering[t]
         IN  /\ Elapsed(t) = IF d < 0 THEN d + TickValues ELSE d
             /\ Age(t) = IF NOverflows # OverflowCount[t] THEN d + TickValues
                         ELSE IF d < 0 THEN d + 2 * TickValues ELSE d
<1> DEFINE d == TickCount - TimeOnEntering[t]
<1>1. /\ TickValues \in Nat \ {0} /\ 2 * TickValues \in Nat \ {0}
      /\ d \in Int /\ -TickValues < d /\ d < TickValues
  BY QueueAssumption DEF TypeOK, Forever
<1>2. Elapsed(t) = IF d < 0 THEN d + TickValues ELSE d
  BY <1>1, ModOnce DEF Elapsed
<1>3. CASE NOverflows = OverflowCount[t]
  <2>1. (NOverflows - OverflowCount[t]) * TickValues + TickCount - TimeOnEntering[t] = d
    BY <1>1, <1>3 DEF TypeOK, Forever
  <2>2. d % (2 * TickValues) = IF d < 0 THEN d + 2 * TickValues ELSE d
    BY <1>1, ModCycle
  <2> QED
    BY <1>2, <1>3, <2>1, <2>2 DEF Age
<1>4. CASE NOverflows = 1 /\ OverflowCount[t] = 0
  <2>1. (NOverflows - OverflowCount[t]) * TickValues + TickCount - TimeOnEntering[t]
          = d + TickValues
    BY <1>1, <1>4 DEF TypeOK, Forever
  <2>2. (d + TickValues) % (2 * TickValues) = d + TickValues
    BY <1>1, ModCycle
  <2> QED
    BY <1>2, <1>4, <2>1, <2>2 DEF Age
<1>5. CASE NOverflows = 0 /\ OverflowCount[t] = 1
  <2>1. (NOverflows - OverflowCount[t]) * TickValues + TickCount - TimeOnEntering[t]
          = d - TickValues
    BY <1>1, <1>5 DEF TypeOK, Forever
  <2>2. (d - TickValues) % (2 * TickValues) = d + TickValues
    BY <1>1, ModCycle
  <2> QED
    BY <1>2, <1>5, <2>1, <2>2 DEF Age
<1>6. NOverflows \in {0, 1} /\ OverflowCount[t] \in {0, 1}
  BY DEF TypeOK
<1> QED
  BY <1>3, <1>4, <1>5, <1>6

\* The age is a number; it is that of the time-out and the clock.
LEMMA AgeType == ASSUME TypeOK, NEW t \in Tasks PROVE Age(t) \in 0 .. 2 * TickValues - 1
  BY ElapsedValue, QueueAssumption DEF TypeOK, Forever

\* A time-out that is set now has no age.
LEMMA AgeStarts ==
  ASSUME TypeOK, TypeOK', NEW t \in Tasks, TimeOnEntering'[t] = TickCount,
         OverflowCount'[t] = NOverflows, UNCHANGED timeVars
  PROVE  Age(t)' = 0
<1>1. /\ TickCount' - TimeOnEntering'[t] = 0 /\ NOverflows' - OverflowCount'[t] = 0
  BY DEF timeVars, TypeOK, Forever
<1>2. 0 * TickValues = 0 /\ 0 % (2 * TickValues) = 0
  BY QueueAssumption, ModCycle
<1>3. /\ TickCount' \in Int /\ TimeOnEntering'[t] \in Int
  BY DEF TypeOK, Forever
<1>4. (NOverflows' - OverflowCount'[t]) * TickValues + TickCount' - TimeOnEntering'[t] = 0
  BY <1>1, <1>2, <1>3
<1> QED
  BY <1>2, <1>4 DEF Age

\* The age is not changed by steps that leave the clock and the time-out alone.
LEMMA AgeStays ==
  ASSUME NEW t \in Tasks, TimeOnEntering'[t] = TimeOnEntering[t],
         OverflowCount'[t] = OverflowCount[t], UNCHANGED timeVars
  PROVE  Age(t)' = Age(t)
  BY DEF timeVars, Age

\* A tick makes each time-out that is not a whole cycle old a tick older.
LEMMA AgeTicks ==
  ASSUME TypeOK, NEW t \in Tasks, Tick, Age(t) < MaxAge
  PROVE  Age(t)' = Age(t) + 1
<1> DEFINE d == TickCount - TimeOnEntering[t]
           X == (NOverflows' - OverflowCount'[t]) * TickValues + TickCount' - TimeOnEntering'[t]
           A == IF NOverflows # OverflowCount[t] THEN d + TickValues
                ELSE IF d < 0 THEN d + 2 * TickValues ELSE d
<1>1. /\ TickValues \in Nat \ {0, 1} /\ MaxAge \in Int /\ MaxAge <= 2 * TickValues - 1
      /\ d \in Int /\ -TickValues < d /\ d < TickValues
      /\ TimeOnEntering' = TimeOnEntering /\ OverflowCount' = OverflowCount
      /\ NOverflows \in {0, 1} /\ OverflowCount[t] \in {0, 1}
      /\ TickCount \in 0 .. TickValues - 1 /\ TimeOnEntering[t] \in 0 .. TickValues - 1
  BY QueueAssumption DEF Tick, TypeOK, Forever
<1>2. TickCount' = IF TickCount + 1 < TickValues THEN TickCount + 1 ELSE 0
  <2>1. TickCount' = (TickCount + 1) % TickValues
    BY DEF Tick
  <2>2. CASE TickCount + 1 < TickValues
    BY <1>1, <2>1, <2>2, ModOnce
  <2>3. CASE TickCount + 1 = TickValues
    <3>1. TickValues % TickValues = TickValues - TickValues
      BY <1>1, ModOnce
    <3> QED
      BY <1>1, <2>1, <2>3, <3>1
  <2> QED
    BY <1>1, <2>2, <2>3
<1>3. NOverflows' = IF TickCount + 1 < TickValues THEN NOverflows ELSE 1 - NOverflows
  BY <1>1, <1>2 DEF Tick
<1>4. Age(t) = A
  BY ElapsedValue
<1>5. X \in {A + 1, A + 1 - 2 * TickValues}
  <2>1. CASE TickCount + 1 < TickValues
    <3>1. X = (NOverflows - OverflowCount[t]) * TickValues + d + 1
      BY <1>1, <1>2, <1>3, <2>1
    <3> QED
      BY <1>1, <1>4, <3>1
  <2>2. CASE ~(TickCount + 1 < TickValues)
    <3>1. /\ NOverflows' = 1 - NOverflows /\ TickCount' = 0 /\ TickCount = TickValues - 1
          /\ d >= 0
      BY <1>1, <1>2, <1>3, <2>2
    <3>2. CASE NOverflows = OverflowCount[t]
      <4>1. X \in {TickValues - TimeOnEntering[t], -TickValues - TimeOnEntering[t]}
        BY <1>1, <3>1, <3>2
      <4> QED
        BY <1>1, <3>1, <3>2, <4>1
    <3>3. CASE NOverflows # OverflowCount[t]
      <4>1. X = -TimeOnEntering[t]
        BY <1>1, <3>1, <3>3
      <4> QED
        BY <1>1, <3>1, <3>3, <4>1
    <3> QED
      BY <3>2, <3>3
  <2> QED
    BY <2>1, <2>2
<1>6. A \in Int /\ A + 1 \in 0 .. 2 * TickValues - 1
  BY <1>1, <1>4, AgeType
<1>7. X % (2 * TickValues) = A + 1
  <2> HIDE DEF A, X
  <2>1. A \in Int /\ X \in Int /\ -(2 * TickValues) <= X /\ X < 2 * TickValues
    BY <1>1, <1>5, <1>6
  <2>2. X % (2 * TickValues) = IF X < 0 THEN X + 2 * TickValues ELSE X
    BY <2>1, ModCycle
  <2> QED
    BY <1>1, <1>5, <1>6, <2>1, <2>2
<1> QED
  BY <1>4, <1>7 DEF Age

\* A step that is not a task's own leaves its call alone, or wakes it.
CallStands(u) ==
  /\ pc'[u] = pc[u] /\ op'[u] = op[u] /\ outcome'[u] = outcome[u] /\ ticks'[u] = ticks[u]
  /\ TimeOnEntering'[u] = TimeOnEntering[u] /\ OverflowCount'[u] = OverflowCount[u]
  /\ left'[u] = left[u] /\ wake'[u] \in {wake[u], 0}
  /\ u \in aborted => u \in aborted'

\* What a call that stands may still wait, and for how long it has, stays.
LEMMA CallStandsTimes ==
  ASSUME TypeOK, NEW u \in Tasks, CallStands(u), UNCHANGED timeVars
  PROVE  (Early(u) => Early(u)') /\ (Late(u) => Late(u)')
<1>1. Age(u)' = Age(u) /\ wake[u] \in Int /\ left[u] \in Nat
  BY AgeStays, QueueAssumption DEF CallStands, TypeOK, Forever
<1>2. Early(u) => Early(u)'
  BY <1>1 DEF CallStands, Early, Timed
<1>3. Late(u) => Late(u)'
  BY <1>1 DEF CallStands, Late, Timed
<1> QED
  BY <1>2, <1>3

\* Waking tasks leaves their calls as they are.
LEMMA WakesStand ==
  ASSUME TypeOK, NEW n, WakeRX(n) \/ WakeTX(n), NEW u \in Tasks
  PROVE  wake'[u] \in {wake[u], 0}
  BY DEF WakeRX, WakeTX, RemoveFromEventList, TypeOK

\* A step of a task leaves the calls of the others as they are.
LEMMA OthersStand ==
  ASSUME TypeOK, NEW t \in Tasks, TaskStep(t)
  PROVE  UNCHANGED timeVars /\ \A u \in Tasks \ {t} : CallStands(u)
<1> USE DEF CallStands, callVars, listVars, abortVars, Goto, Return
<1>1. CASE SendWrites(t) \/ ReceiveTakes(t) \/ PeekReads(t)
  BY <1>1, WakesStand DEF SendWrites, ReceiveTakes, PeekReads, TypeOK
<1>2. CASE Fails(t) \/ StartsToWait(t)
  BY <1>2 DEF Fails, StartsToWait, TypeOK
<1>3. CASE SuspendAndLock(t) \/ CheckAborted(t) \/ CheckExpired(t) \/ CheckGoesOn(t)
  BY <1>3 DEF SuspendAndLock, CheckAborted, CheckExpired, CheckGoesOn, TypeOK
<1>4. CASE Look(t) \/ Place(t)
  BY <1>4 DEF Look, Place, TypeOK
<1>5. CASE UnlockTX(t) \/ UnlockRX(t)
  BY <1>5, WakesStand DEF UnlockTX, UnlockRX, TypeOK
<1>6. CASE ResumeAll(t)
  BY <1>6 DEF ResumeAll, TypeOK
<1>7. CASE Final(t)
  BY <1>7 DEF Final, TypeOK
<1> QED
  BY <1>1, <1>2, <1>3, <1>4, <1>5, <1>6, <1>7 DEF TaskStep

\* Delays that are aborted and ISRs leave all calls alone, or wake them.
LEMMA OutsideStands ==
  ASSUME TypeOK,
         (\E t \in Tasks : AbortDelay(t)) \/ GiveFromISR \/ SendFromISR \/ RecvFromISR \/ Reset
  PROVE  UNCHANGED timeVars /\ \A u \in Tasks : CallStands(u)
<1> USE DEF CallStands, callVars, listVars, abortVars
<1>1. ASSUME NEW t \in Tasks, AbortDelay(t)
      PROVE  UNCHANGED timeVars /\ \A u \in Tasks : CallStands(u)
  BY <1>1 DEF AbortDelay, TypeOK
<1>2. CASE GiveFromISR \/ SendFromISR
  BY <1>2, WakesStand DEF GiveFromISR, SendFromISR, ItemFromISR
<1>3. CASE RecvFromISR \/ Reset
  BY <1>3, WakesStand DEF RecvFromISR, Reset
<1> QED
  BY <1>1, <1>2, <1>3

\* A call that returns, or only starts, is not timed.
LEMMA UntimedCall ==
  ASSUME TypeOK', NEW t \in Tasks, outcome'[t] = "none", pc'[t] \in {"idle", "test"} \/ op'[t] = "restricted"
  PROVE  Early(t)' /\ Late(t)'
  BY DEF Early, Late, Timed

\* A call that starts is not timed, and the others stand.
LEMMA StartsUntimed ==
  ASSUME Inv, Inv', NEW c \in Calls, Call(c[1], c[2], c[3]), NEW u \in Tasks
  PROVE  (Early(u) => Early(u)') /\ (Late(u) => Late(u)')
<1>1. c[1] \in Tasks
  BY QueueAssumption
<1>2. CASE u = c[1]
  <2>1. /\ outcome'[u] = "none" /\ op'[u] = c[2]
        /\ pc'[u] = IF c[2] = "restricted" THEN "suspend" ELSE "test"
    BY <1>1, <1>2 DEF Call, Goto, Inv, TypeOK, OutcomeInv
  <2> QED
    BY <2>1, UntimedCall DEF Inv
<1>3. CASE u # c[1]
  <2>1. CallStands(u) /\ UNCHANGED timeVars
    BY <1>1, <1>3 DEF Call, Goto, CallStands, listVars, abortVars, Inv, TypeOK
  <2> QED
    BY <2>1, CallStandsTimes DEF Inv
<1> QED
  BY <1>2, <1>3

\* A call that returns is not timed.
LEMMA ReturnsUntimed ==
  ASSUME TypeOK, TypeOK', NEW t \in Tasks, Return(t)
  PROVE  Early(t)' /\ Late(t)'
<1>1. outcome'[t] = "none" /\ pc'[t] = "idle"
  BY DEF Return, Goto, TypeOK
<1> QED
  BY <1>1, UntimedCall

\* A call's own steps keep what it may still wait no more than its time-out has left.
LEMMA TaskEarly ==
  ASSUME Inv, Inv', NEW t \in Tasks, TaskStep(t), Early(t)
  PROVE  Early(t)'
<1> USE DEF callVars, Goto
<1>1. /\ TickValues \in Nat /\ TickValues > 2 /\ left[t] \in 0 .. Forever
      /\ ticks[t] \in 0 .. Forever /\ Forever = TickValues - 1
  BY QueueAssumption DEF Inv, TypeOK, Forever
<1>2. CASE Return(t)
  BY <1>2, ReturnsUntimed DEF Inv
<1>3. CASE SendWrites(t) \/ ReceiveTakes(t) \/ PeekReads(t) \/ Fails(t)
  BY <1>2, <1>3 DEF SendWrites, ReceiveTakes, PeekReads, Fails
<1>4. CASE StartsToWait(t)
  <2>1. outcome'[t] = "again" /\ ticks' = ticks /\ op' = op /\ UNCHANGED timeVars
    BY <1>4 DEF StartsToWait, Inv, TypeOK
  <2>2. CASE outcome[t] = "none"
    <3>1. /\ TimeOnEntering'[t] = TickCount /\ OverflowCount'[t] = NOverflows
          /\ left'[t] = ticks[t]
      BY <1>4, <2>2 DEF StartsToWait, Inv, TypeOK
    <3>2. Age(t)' = 0
      BY <2>1, <3>1, AgeStarts DEF Inv
    <3> QED
      BY <1>1, <2>1, <3>1, <3>2 DEF Early
  <2>3. CASE outcome[t] # "none"
    <3>1. UNCHANGED <<TimeOnEntering, OverflowCount, left>>
      BY <1>4, <2>3 DEF StartsToWait
    <3>2. Age(t)' = Age(t)
      BY <2>1, <3>1, AgeStays
    <3> QED
      BY <2>1, <2>3, <3>1, <3>2 DEF Early, Timed
  <2> QED
    BY <2>2, <2>3
<1>5. CASE CheckExpired(t)
  <2>1. /\ pc[t] = "check" /\ ticks[t] # Forever /\ Expired(t)
        /\ ticks'[t] = 0 /\ UNCHANGED <<TimeOnEntering, OverflowCount, left, timeVars>>
    BY <1>5 DEF CheckExpired, At, Inv, TypeOK
  <2>2. Timed(t)
    BY <2>1 DEF Inv, OutcomeInv, Timed
  <2>3. Age(t) >= ticks[t] /\ Age(t) \in Nat
    BY <1>1, <2>1, ElapsedValue, AgeType DEF Inv, TypeOK, Expired
  <2>4. left'[t] = 0
    BY <1>1, <2>1, <2>2, <2>3 DEF Early
  <2> QED
    BY <2>4 DEF Early
<1>6. CASE CheckGoesOn(t)
  <2>1. /\ pc[t] = "check" /\ UNCHANGED <<op, outcome, left, timeVars>>
    BY <1>6 DEF CheckGoesOn, At
  <2>2. outcome[t] = "again" /\ op[t] # "restricted"
    BY <2>1 DEF Inv, OutcomeInv
  <2>3. CASE ticks[t] = Forever
    BY <1>6, <2>1, <2>2, <2>3 DEF CheckGoesOn, Early, Timed
  <2>4. CASE ticks[t] # Forever
    <3>1. /\ ~Expired(t) /\ ticks'[t] = ticks[t] - Elapsed(t)
          /\ TimeOnEntering'[t] = TickCount /\ OverflowCount'[t] = NOverflows
      BY <1>6, <2>4 DEF CheckGoesOn, Inv, TypeOK
    <3>2. Age(t)' = 0
      BY <2>1, <3>1, AgeStarts DEF Inv
    <3>3. left[t] = 0 \/ left[t] <= ticks[t] - Age(t)
      BY <2>2, <2>4 DEF Early, Timed
    <3>4. Age(t) >= Elapsed(t) /\ Age(t) \in Nat /\ Elapsed(t) \in Int
      BY <1>1, ElapsedValue, AgeType, LeftType, <3>1 DEF Inv, TypeOK
    <3>5. left'[t] = 0 \/ left'[t] <= ticks'[t] - 0
      BY <1>1, <2>1, <3>1, <3>3, <3>4
    <3>6. outcome'[t] = "again"
      BY <2>1, <2>2
    <3> QED
      BY <3>2, <3>5, <3>6 DEF Early
  <2> QED
    BY <2>3, <2>4
<1>7. CASE CheckAborted(t)
  <2>1. /\ UNCHANGED <<op, ticks, TimeOnEntering, OverflowCount, left, timeVars, aborted>>
        /\ pc[t] = "check" /\ t \in DelayAborted
    BY <1>7 DEF CheckAborted, At
  <2>2. Age(t)' = Age(t)
    BY <2>1, AgeStays
  <2>3. t \in aborted /\ outcome[t] = "again"
    BY <2>1 DEF Inv, TypeOK, OutcomeInv
  <2> QED
    BY <2>1, <2>2, <2>3 DEF Early, Timed
<1>8. CASE Look(t) \/ Place(t) \/ (Final(t) /\ ~Return(t))
  <2>1. /\ UNCHANGED <<op, ticks, TimeOnEntering, OverflowCount, left, timeVars>>
        /\ outcome'[t] # "timedOut"
        /\ op[t] = "restricted" \/ outcome[t] # "none"
    <3>1. CASE Look(t)
      BY <3>1 DEF Look, At, Inv, TypeOK, OutcomeInv
    <3>2. CASE Place(t)
      BY <3>2 DEF Place, At, Inv, TypeOK, OutcomeInv
    <3>3. CASE Final(t) /\ ~Return(t)
      BY <3>3 DEF Final, At, Inv, TypeOK, OutcomeInv
    <3> QED
      BY <1>8, <3>1, <3>2, <3>3
  <2>2. Age(t)' = Age(t)
    BY <2>1, AgeStays
  <2> QED
    BY <2>1, <2>2 DEF Early, Timed
<1>9. CASE SuspendAndLock(t) \/ UnlockTX(t) \/ UnlockRX(t) \/ (ResumeAll(t) /\ ~Return(t))
  <2>1. UNCHANGED <<callVars, timeVars, aborted>>
    BY <1>9 DEF SuspendAndLock, UnlockTX, UnlockRX, ResumeAll, abortVars
  <2>2. Age(t)' = Age(t)
    BY <2>1, AgeStays
  <2> QED
    BY <2>1, <2>2 DEF Early, Timed
<1> QED
  BY <1>2, <1>3, <1>4, <1>5, <1>6, <1>7, <1>8, <1>9 DEF TaskStep

\* A tick takes one off what a call may still wait, and adds one to the age of its time-out.
LEMMA TickEarly ==
  ASSUME Inv, NEW t \in Tasks, Tick, Early(t)
  PROVE  Early(t)'
<1>1. /\ left[t] \in 0 .. Forever /\ ticks[t] \in 0 .. Forever /\ Forever \in Nat
      /\ left'[t] = IF left[t] \in {0, Forever} THEN left[t] ELSE left[t] - 1
      /\ UNCHANGED <<pc, op, ticks, outcome, aborted>>
  BY QueueAssumption DEF Tick, abortVars, Inv, TypeOK, Forever
<1>2. CASE Timed(t)
  <2>1. Age(t) < MaxAge /\ Age(t) \in Nat
    BY <1>2, AgeType, QueueAssumption DEF Tick, Inv
  <2>2. Age(t)' = Age(t) + 1
    BY <2>1, AgeTicks DEF Inv
  <2> QED
    BY <1>1, <1>2, <2>1, <2>2 DEF Early, Timed
<1>3. CASE ~Timed(t)
  BY <1>1, <1>3 DEF Early, Timed
<1> QED
  BY <1>2, <1>3

\* A wait ends by its time-out no earlier than it was told to, unless AbortDelay hit the task
\* (tasks.cpp, CheckForTimeOut): for every width of the tick count, however often it wraps.
THEOREM WaitsEndInTime == Spec => []NeverEarly
<1> DEFINE AllEarly == \A t \in Tasks : Early(t)
<1>1. Init => AllEarly
  BY DEF Init, Early, Timed
<1>2. Inv /\ Inv' /\ AllEarly /\ [Next]_vars => AllEarly'
  <2> SUFFICES ASSUME Inv, Inv', AllEarly, [Next]_vars, NEW u \in Tasks PROVE Early(u)'
    OBVIOUS
  <2>1. CASE UNCHANGED vars
    <3>1. CallStands(u) /\ UNCHANGED timeVars
      BY <2>1 DEF vars, CallStands, callVars, listVars, abortVars
    <3> QED
      BY <3>1, CallStandsTimes DEF Inv
  <2>2. ASSUME NEW t \in Tasks, TaskStep(t) PROVE Early(u)'
    BY <2>2, TaskEarly, OthersStand, CallStandsTimes DEF Inv
  <2>3. ASSUME NEW c \in Calls, Call(c[1], c[2], c[3]) PROVE Early(u)'
    BY <2>3, StartsUntimed
  <2>4. CASE (\E t \in Tasks : AbortDelay(t)) \/ GiveFromISR \/ SendFromISR \/ RecvFromISR \/ Reset
    BY <2>4, OutsideStands, CallStandsTimes DEF Inv
  <2>5. CASE Tick
    BY <2>5, TickEarly
  <2> QED
    BY <2>1, <2>2, <2>3, <2>4, <2>5 DEF Next
<1>3. AllEarly => NeverEarly
  BY DEF Early, NeverEarly
<1> HIDE DEF AllEarly
<1> QED
  BY <1>1, <1>2, <1>3, Invariance, PTL DEF Spec

\* A call's own steps keep what it may still wait no less than its time-out has left, as long
\* as no time-out gets older than a wrap of the tick count.
LEMMA TaskLate ==
  ASSUME MaxAge <= TickValues, Inv, Inv', NEW t \in Tasks, TaskStep(t), Late(t)
  PROVE  Late(t)'
<1> USE DEF callVars, Goto
<1>1. /\ TickValues \in Nat /\ TickValues > 2 /\ left[t] \in 0 .. Forever
      /\ ticks[t] \in 0 .. Forever /\ Forever = TickValues - 1 /\ MaxAge \in Nat \ {0}
  BY QueueAssumption DEF Inv, TypeOK, Forever
<1>2. CASE Return(t)
  BY <1>2, ReturnsUntimed DEF Inv
<1>3. CASE SendWrites(t) \/ ReceiveTakes(t) \/ PeekReads(t) \/ Fails(t)
  BY <1>2, <1>3 DEF SendWrites, ReceiveTakes, PeekReads, Fails
<1>4. CASE StartsToWait(t)
  <2>1. /\ outcome'[t] = "again" /\ ticks' = ticks /\ op' = op /\ UNCHANGED timeVars
        /\ ticks[t] > 0 /\ op[t] # "restricted" /\ pc'[t] = "suspend"
    BY <1>4 DEF StartsToWait, Inv, TypeOK
  <2>2. CASE outcome[t] = "none"
    <3>1. /\ TimeOnEntering'[t] = TickCount /\ OverflowCount'[t] = NOverflows
          /\ left'[t] = ticks[t]
      BY <1>4, <2>2 DEF StartsToWait, Inv, TypeOK
    <3>2. Age(t)' = 0
      BY <2>1, <3>1, AgeStarts DEF Inv
    <3> QED
      BY <1>1, <2>1, <3>1, <3>2 DEF Late
  <2>3. CASE outcome[t] # "none"
    <3>1. UNCHANGED <<TimeOnEntering, OverflowCount, left>>
      BY <1>4, <2>3 DEF StartsToWait
    <3>2. Age(t)' = Age(t)
      BY <2>1, <3>1, AgeStays
    <3> QED
      BY <2>1, <2>3, <3>1, <3>2 DEF Late, Timed
  <2> QED
    BY <2>2, <2>3
<1>5. CASE CheckExpired(t)
  <2>1. /\ pc[t] = "check" /\ ticks[t] # Forever /\ pc'[t] = "unlockTX"
        /\ outcome'[t] = "timedOut" /\ ticks'[t] = 0
        /\ UNCHANGED <<op, TimeOnEntering, OverflowCount, left, timeVars>>
    BY <1>5 DEF CheckExpired, At, Inv, TypeOK
  <2>2. Timed(t)
    BY <2>1 DEF Inv, OutcomeInv, Timed
  <2>3. Age(t)' = Age(t) /\ Age(t) \in Nat
    BY <1>1, <2>1, AgeStays, AgeType DEF Inv
  <2> QED
    BY <1>1, <2>1, <2>2, <2>3 DEF Late
<1>6. CASE CheckGoesOn(t)
  <2>1. /\ pc[t] = "check" /\ pc'[t] = "look" /\ UNCHANGED <<op, outcome, left, timeVars>>
    BY <1>6 DEF CheckGoesOn, At, Inv, TypeOK
  <2>2. outcome[t] = "again" /\ op[t] # "restricted" /\ outcome'[t] = "again"
    BY <2>1 DEF Inv, OutcomeInv
  <2>3. CASE ticks[t] = Forever
    <3>1. UNCHANGED <<ticks, TimeOnEntering, OverflowCount>>
      BY <1>6, <2>3 DEF CheckGoesOn
    <3> QED
      BY <1>1, <2>1, <2>2, <2>3, <3>1 DEF Late, Timed
  <2>4. CASE ticks[t] # Forever
    <3>1. /\ ~Expired(t) /\ ticks'[t] = ticks[t] - Elapsed(t)
          /\ TimeOnEntering'[t] = TickCount /\ OverflowCount'[t] = NOverflows
      BY <1>6, <2>4 DEF CheckGoesOn, Inv, TypeOK
    <3>2. Age(t)' = 0
      BY <2>1, <3>1, AgeStarts DEF Inv
    <3>3. Age(t) <= MaxAge /\ left[t] >= ticks[t] - Age(t)
      BY <2>2, <2>4 DEF Late, Timed
    <3>4. Elapsed(t) \in 0 .. Forever /\ ticks[t] - Elapsed(t) \in 1 .. Forever
      BY <3>1, LeftType DEF Inv
    <3>5. Age(t) = Elapsed(t)
      BY <1>1, <3>1, <3>3, ElapsedValue DEF Inv, TypeOK, Expired
    <3>6. left'[t] >= ticks'[t] /\ ticks'[t] > 0 /\ ticks'[t] \in Nat
      BY <1>1, <2>1, <3>1, <3>3, <3>4, <3>5
    <3>7. ticks'[t] = Forever => left'[t] = Forever
      BY <1>1, <2>1, <3>6
    <3> QED
      BY <1>1, <2>1, <2>2, <3>2, <3>6, <3>7 DEF Late
  <2> QED
    BY <2>3, <2>4
<1>7. CASE CheckAborted(t) \/ Look(t) \/ (Final(t) /\ ~Return(t))
  <2>1. /\ UNCHANGED <<op, ticks, TimeOnEntering, OverflowCount, left, timeVars>>
        /\ outcome'[t] # "placed"
        /\ op[t] = "restricted" \/ outcome[t] # "none"
        /\ pc'[t] = "place" => pc[t] = "look"
        /\ pc'[t] \in {"place", "test", "unlockTX"}
    <3>1. CASE CheckAborted(t)
      BY <3>1 DEF CheckAborted, At, Inv, TypeOK, OutcomeInv
    <3>2. CASE Look(t)
      BY <3>2 DEF Look, At, Inv, TypeOK, OutcomeInv
    <3>3. CASE Final(t) /\ ~Return(t)
      BY <3>3 DEF Final, At, Inv, TypeOK, OutcomeInv
    <3> QED
      BY <1>7, <3>1, <3>2, <3>3
  <2>2. Age(t)' = Age(t)
    BY <2>1, AgeStays
  <2> QED
    BY <2>1, <2>2 DEF Late, Timed
<1>8. CASE Place(t)
  <2>1. /\ UNCHANGED <<op, ticks, TimeOnEntering, OverflowCount, left, timeVars>>
        /\ pc[t] = "place" /\ pc'[t] = "unlockTX"
        /\ wake'[t] = IF ticks[t] = 0 THEN 1 ELSE ticks[t]
    BY <1>8 DEF Place, At, Inv, TypeOK
  <2>2. Age(t)' = Age(t)
    BY <2>1, AgeStays
  <2>3. op[t] = "restricted" \/ outcome[t] # "none"
    BY <2>1 DEF Inv, OutcomeInv
  <2> QED
    BY <1>1, <2>1, <2>2, <2>3 DEF Late, Timed
<1>9. CASE SuspendAndLock(t)
  <2>1. /\ UNCHANGED <<callVars, timeVars, wake>> /\ pc[t] = "suspend"
        /\ pc'[t] = IF op[t] = "restricted" THEN "look" ELSE "check"
    BY <1>9 DEF SuspendAndLock, At, listVars, Inv, TypeOK
  <2>2. Age(t)' = Age(t)
    BY <2>1, AgeStays
  <2> QED
    BY <2>1, <2>2 DEF Late, Timed
<1>10. CASE UnlockTX(t) \/ UnlockRX(t) \/ (ResumeAll(t) /\ ~Return(t))
  <2>1. UNCHANGED <<callVars, timeVars>> /\ wake'[t] \in {wake[t], 0}
    BY <1>10, WakesStand DEF UnlockTX, UnlockRX, ResumeAll, Inv, TypeOK
  <2>2. pc'[t] \in {"unlockRX", "resume", "blocked", "test", "final"}
    <3>1. CASE UnlockTX(t) \/ UnlockRX(t)
      BY <3>1 DEF UnlockTX, UnlockRX, Inv, TypeOK
    <3>2. CASE ResumeAll(t) /\ ~Return(t)
      <4>1. outcome[t] \in {"placed", "again", "timedOut"}
        BY <3>2 DEF ResumeAll, At, Inv, OutcomeInv, TypeOK, Outcome
      <4> QED
        BY <3>2, <4>1 DEF ResumeAll, Inv, TypeOK
    <3> QED
      BY <1>10, <3>1, <3>2
  <2>3. Age(t)' = Age(t)
    BY <2>1, AgeStays
  <2> QED
    BY <1>1, <2>1, <2>2, <2>3 DEF Late, Timed
<1> QED
  BY <1>2, <1>3, <1>4, <1>5, <1>6, <1>7, <1>8, <1>9, <1>10 DEF TaskStep

\* A tick shortens a delay as it shortens what the call may still wait.
LEMMA TickLate ==
  ASSUME Inv, NEW t \in Tasks, Tick, Late(t)
  PROVE  Late(t)'
<1>1. /\ left[t] \in 0 .. Forever /\ ticks[t] \in 0 .. Forever /\ wake[t] \in 0 .. Forever
      /\ Forever \in Nat
      /\ left'[t] = IF left[t] \in {0, Forever} THEN left[t] ELSE left[t] - 1
      /\ wake'[t] = IF wake[t] \in {0, Forever} THEN wake[t] ELSE wake[t] - 1
      /\ UNCHANGED <<pc, op, ticks, outcome>>
  BY QueueAssumption DEF Tick, Inv, TypeOK, Forever
<1>2. pc[t] \notin {"look", "place"}
  BY NobodyPlaces DEF Tick, Locked
<1>3. Timed(t) => Age(t)' = Age(t) + 1 /\ Age(t) < MaxAge /\ Age(t) \in Nat /\ MaxAge \in Nat
  BY AgeTicks, AgeType, QueueAssumption DEF Tick, Inv
<1>4. outcome[t] = "placed" /\ wake[t] <= left[t] => wake'[t] <= left'[t]
  BY <1>1
<1> QED
  BY <1>1, <1>2, <1>3, <1>4 DEF Late, Timed

\* A wait does not outlast its time-out (tasks.cpp, CheckForTimeOut): the delay it starts is no
\* longer than what is left of it, as long as no task that waits is kept from running for
\* more than a wrap of the tick count.
THEOREM WaitsDoNotOutlast == ASSUME MaxAge <= TickValues PROVE Spec => []NeverLate
<1> DEFINE AllLate == \A t \in Tasks : Late(t)
<1>1. Init => AllLate
  BY DEF Init, Late, Timed
<1>2. Inv /\ Inv' /\ AllLate /\ [Next]_vars => AllLate'
  <2> SUFFICES ASSUME Inv, Inv', AllLate, [Next]_vars, NEW u \in Tasks PROVE Late(u)'
    OBVIOUS
  <2>1. CASE UNCHANGED vars
    <3>1. CallStands(u) /\ UNCHANGED timeVars
      BY <2>1 DEF vars, CallStands, callVars, listVars, abortVars
    <3> QED
      BY <3>1, CallStandsTimes DEF Inv
  <2>2. ASSUME NEW t \in Tasks, TaskStep(t) PROVE Late(u)'
    BY <2>2, TaskLate, OthersStand, CallStandsTimes DEF Inv
  <2>3. ASSUME NEW c \in Calls, Call(c[1], c[2], c[3]) PROVE Late(u)'
    BY <2>3, StartsUntimed
  <2>4. CASE (\E t \in Tasks : AbortDelay(t)) \/ GiveFromISR \/ SendFromISR \/ RecvFromISR \/ Reset
    BY <2>4, OutsideStands, CallStandsTimes DEF Inv
  <2>5. CASE Tick
    BY <2>5, TickLate
  <2> QED
    BY <2>1, <2>2, <2>3, <2>4, <2>5 DEF Next
<1>3. AllLate => NeverLate
  BY DEF Late, NeverLate
<1> HIDE DEF AllLate
<1> QED
  BY <1>1, <1>2, <1>3, Invariance, PTL DEF Spec
=============================================================================
