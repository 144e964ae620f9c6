---------------------------- MODULE Port_proofs ----------------------------
(***************************************************************************)
(* Theorems about Port, for every set of tasks and of application threads, *)
(* every depth of critical sections and every choice of calls.             *)
(***************************************************************************)
EXTENDS Port, SequenceTheorems, TLAPS

-----------------------------------------------------------------------------
(* The inductive invariant. *)

IsrHolds == {"interrupted", "handlers", "nested", "handled", "switch", "signal"}
TaskHolds == {"entered", "pending", "deleting", "closing"}

\* Each thread runs its own code; the interrupt thread says so while it runs handlers.
LabelInv ==
  /\ \A t \in Tasks : pc[t] \in TaskLabel
  /\ pc[Isr] \in IsrLabel
  /\ \A g \in Generators : pc[g] \in GeneratorLabel
  /\ pc[Isr] \in {"handlers", "nested", "handled", "switch", "signal"} => xInsideInterrupt

\* The mutex is taken once for each critical section, and once more inside the port's functions.
CountInv ==
  /\ mutexOwner = Nobody => mutexCount = 0 /\ ulCriticalNesting = 0
  /\ mutexOwner = Isr =>
       /\ ulCriticalNesting = IF pc[Isr] = "nested" THEN 1 ELSE 0
       /\ mutexCount = ulCriticalNesting + 1
  /\ mutexOwner \in Generators => mutexCount = 1 /\ ulCriticalNesting = 0
  /\ mutexOwner \in Tasks =>
       /\ mutexCount >= 1
       /\ mutexCount = IF pc[mutexOwner] \in TaskHolds THEN ulCriticalNesting + 1
                                                       ELSE ulCriticalNesting
       /\ pc[mutexOwner] \in {"enter", "entered"} => ulCriticalNesting < MaxNesting
       /\ pc[mutexOwner] = "closing" => ulCriticalNesting = 0
       /\ pc[mutexOwner] = "leave" /\ mutexOwner \in Closing => ulCriticalNesting = 1

\* Where a thread is tells whether it has the mutex; of the tasks, the one that runs has it.
OwnerInv ==
  /\ pc[Isr] \in IsrHolds <=> mutexOwner = Isr
  /\ \A g \in Generators : pc[g] = "generating" <=> mutexOwner = g
  /\ \A t \in Tasks :
       /\ pc[t] \in TaskHolds \cup {"leave"} => mutexOwner = t
       /\ mutexOwner = t =>
            /\ pc[t] \notin {"none", "await", "close", "exit"}
            /\ t = CurrentTCB \/ pc[t] = "closing"

\* A thread queues once, and only while it waits; of the tasks, no suspended one does.
Distinct(q) == \A i, j \in DOMAIN q : q[i] = q[j] => i = j
QueueInv ==
  /\ Distinct(mutexQueue)
  /\ \A th \in Threads : Queued(th) =>
       /\ pc[th] \in DOMAIN Holding
       /\ th # mutexOwner
       /\ th \in Tasks => th = CurrentTCB \/ th \in Closing

\* All tasks but the current one and those that end their own thread are suspended, among them
\* those that other tasks are deleting, each by one.
ThreadInv ==
  /\ CurrentTCB \notin Suspended
  /\ pc[CurrentTCB] = "none" => CurrentTCB \in Closing
  /\ \A t \in Tasks :
       /\ pc[t] # "none" => t = CurrentTCB \/ t \in Suspended \cup Closing
       /\ t \in Suspended => pc[t] # "none" /\ t \notin Closing
       /\ t \in Closing => pc[t] \in {"leave", "await", "close", "closing", "exit", "none"}
       /\ pc[t] \in {"close", "closing", "exit"} => t \in Closing
       /\ t \in Removed => t \in Suspended
       /\ victim[t] # Nobody => victim[t] \in Removed
       /\ pc[t] \in {"delete", "deleting"} => victim[t] # Nobody
  /\ \A t, u \in Tasks : victim[t] = victim[u] /\ victim[t] # Nobody => t = u

Inv == TypeOK /\ LabelInv /\ CountInv /\ OwnerInv /\ QueueInv /\ ThreadInv

-----------------------------------------------------------------------------
(* The queue of the mutex. *)

In(th, q) == \E i \in DOMAIN q : q[i] = th

\* The places after k, counted from the next one.
LEMMA Shifted ==
  ASSUME NEW k \in Int, NEW n \in Int, NEW i \in Int
  PROVE  k + 1 \in Int /\ n - (k + 1) + 1 = n - k /\ (k + 1) + i - 1 = k + i
OBVIOUS

\* The queue without a thread that is in it has the others, once and in a sequence.
LEMMA WithoutOne ==
  ASSUME NEW q \in Seq(Threads), Distinct(q), NEW k \in DOMAIN q, NEW r,
         r = SubSeq(q, 1, k - 1) \o SubSeq(q, k + 1, Len(q))
  PROVE  /\ r \in Seq(Threads) /\ Distinct(r)
         /\ \A u : In(u, r) <=> In(u, q) /\ u # q[k]
<1> DEFINE n == Len(q)
           a == SubSeq(q, 1, k - 1)
           b == SubSeq(q, k + 1, n)
<1>1. /\ n \in Nat /\ k \in 1 .. n /\ DOMAIN q = 1 .. n
      /\ \A i \in 1 .. n : q[i] \in Threads
  OBVIOUS
<1>2. /\ a \in Seq(Threads) /\ Len(a) = k - 1
      /\ \A i \in 1 .. k - 1 : a[i] = q[i]
  BY <1>1, SubSeqProperties
<1>3. /\ b \in Seq(Threads) /\ Len(b) = n - k
      /\ \A i \in 1 .. n - k : b[i] = q[k + i]
  <2>1. b \in Seq(Threads) /\ Len(b) = IF k + 1 <= n THEN n - (k + 1) + 1 ELSE 0
    BY <1>1, SubSeqProperties
  <2>2. Len(b) = n - k
    BY <1>1, <2>1
  <2>3. ASSUME NEW i \in 1 .. n - k PROVE b[i] = q[k + i]
    <3> DEFINE m == k + 1
    <3>1. m \in Int /\ n - m + 1 = n - k /\ m + i - 1 = k + i
      <4>1. k \in Int /\ n \in Int /\ i \in Int
        BY <1>1
      <4> QED
        BY <4>1, Shifted
    <3>2. \A j \in m .. n : q[j] \in Threads
      BY <1>1, <3>1
    <3> HIDE DEF m
    <3>3. \A j \in 1 .. n - m + 1 : SubSeq(q, m, n)[j] = q[m + j - 1]
      BY <1>1, <3>1, <3>2, SubSeqProperties
    <3> QED
      BY <3>1, <3>3 DEF m
  <2> QED
    BY <2>1, <2>2, <2>3
<1>4. r = a \o b
  OBVIOUS
<1> HIDE DEF n, a, b
\* Where the elements that stay are in the queue.
<1> DEFINE at(i) == IF i < k THEN i ELSE i + 1
<1>5. /\ \A i \in 1 .. n - 1 : at(i) \in 1 .. n /\ at(i) # k
      /\ \A i, j \in 1 .. n - 1 : at(i) = at(j) => i = j
      /\ \A j \in 1 .. n : j # k => \E i \in 1 .. n - 1 : at(i) = j
  <2>1. ASSUME NEW j \in 1 .. n, j # k PROVE \E i \in 1 .. n - 1 : at(i) = j
    <3>1. CASE j < k
      <4>1. j \in 1 .. n - 1 /\ at(j) = j
        BY <1>1, <3>1
      <4> QED
        BY <4>1
    <3>2. CASE j > k
      <4>1. j - 1 \in 1 .. n - 1 /\ at(j - 1) = j
        BY <1>1, <3>2
      <4> QED
        BY <4>1
    <3> QED
      BY <1>1, <2>1, <3>1, <3>2
  <2> QED
    BY <1>1, <2>1
<1>6. r \in Seq(Threads) /\ DOMAIN r = 1 .. n - 1
  <2>1. r \in Seq(Threads) /\ Len(r) = Len(a) + Len(b)
    BY <1>2, <1>3, <1>4, ConcatProperties
  <2>2. Len(r) = n - 1
    BY <1>1, <1>2, <1>3, <2>1
  <2> QED
    BY <2>1, <2>2
<1>7. ASSUME NEW i \in 1 .. n - 1 PROVE r[i] = q[at(i)]
  <2>1. i \in 1 .. Len(a) + Len(b)
    BY <1>1, <1>2, <1>3
  <2>2. \A j \in 1 .. Len(a) + Len(b) : (a \o b)[j] = IF j <= Len(a) THEN a[j] ELSE b[j - Len(a)]
    BY <1>2, <1>3, ConcatProperties
  <2>3. r[i] = IF i <= k - 1 THEN a[i] ELSE b[i - (k - 1)]
    BY <1>2, <1>4, <2>1, <2>2
  <2>4. CASE i < k
    BY <1>1, <1>2, <2>3, <2>4
  <2>5. CASE ~(i < k)
    <3>1. i - (k - 1) \in 1 .. n - k
      BY <1>1, <2>5
    <3>2. k + (i - (k - 1)) = i + 1
      BY <1>1, <2>5
    <3>3. ~(i <= k - 1)
      BY <1>1, <2>5
    <3>4. b[i - (k - 1)] = q[k + (i - (k - 1))]
      BY <1>3, <3>1
    <3> QED
      BY <2>3, <2>5, <3>2, <3>3, <3>4
  <2> QED
    BY <2>4, <2>5
<1> HIDE DEF at
<1>8. \A i, j \in 1 .. n : q[i] = q[j] => i = j
  BY <1>1 DEF Distinct
<1>9. Distinct(r)
  <2>1. ASSUME NEW i \in 1 .. n - 1, NEW j \in 1 .. n - 1, r[i] = r[j] PROVE i = j
    <3>1. q[at(i)] = q[at(j)]
      BY <1>7, <2>1
    <3> QED
      BY <1>5, <1>8, <3>1
  <2> QED
    BY <1>6, <2>1 DEF Distinct
<1>10. ASSUME NEW u, In(u, r) PROVE In(u, q) /\ u # q[k]
  <2>1. PICK i \in 1 .. n - 1 : r[i] = u
    BY <1>6, <1>10 DEF In
  <2>2. at(i) \in 1 .. n /\ at(i) # k /\ q[at(i)] = u
    BY <1>5, <1>7, <2>1
  <2> QED
    BY <1>1, <1>8, <2>2 DEF In
<1>11. ASSUME NEW u, In(u, q), u # q[k] PROVE In(u, r)
  <2>1. PICK j \in 1 .. n : q[j] = u /\ j # k
    BY <1>1, <1>11 DEF In
  <2>2. PICK i \in 1 .. n - 1 : at(i) = j
    BY <1>5, <2>1
  <2> QED
    BY <1>6, <1>7, <2>1, <2>2 DEF In
<1> QED
  BY <1>6, <1>9, <1>10, <1>11

\* The same of Without, whether the thread is in the queue or not.
LEMMA WithoutAny ==
  ASSUME NEW q \in Seq(Threads), Distinct(q), NEW th
  PROVE  /\ Without(q, th) \in Seq(Threads) /\ Distinct(Without(q, th))
         /\ \A u : In(u, Without(q, th)) <=> In(u, q) /\ u # th
<1>1. CASE In(th, q)
  <2> DEFINE k == CHOOSE j \in DOMAIN q : q[j] = th
  <2>1. k \in DOMAIN q /\ q[k] = th
    BY <1>1 DEF In
  <2>2. Without(q, th) = SubSeq(q, 1, k - 1) \o SubSeq(q, k + 1, Len(q))
    BY <1>1 DEF Without, In
  <2> HIDE DEF k
  <2> QED
    BY <2>1, <2>2, WithoutOne
<1>2. CASE ~In(th, q)
  BY <1>2 DEF Without, In
<1> QED
  BY <1>1, <1>2

\* A thread that queues is in the queue once if it was not in it.
LEMMA AppendOne ==
  ASSUME NEW q \in Seq(Threads), Distinct(q), NEW th \in Threads, ~In(th, q)
  PROVE  /\ Append(q, th) \in Seq(Threads) /\ Distinct(Append(q, th))
         /\ \A u : In(u, Append(q, th)) <=> In(u, q) \/ u = th
<1> DEFINE r == Append(q, th)
<1>1. /\ r \in Seq(Threads) /\ DOMAIN q = 1 .. Len(q) /\ DOMAIN r = 1 .. Len(q) + 1
      /\ Len(q) \in Nat
      /\ \A i \in DOMAIN q : r[i] = q[i]
      /\ r[Len(q) + 1] = th
  OBVIOUS
<1> HIDE DEF r
<1>2. Distinct(r)
  BY <1>1 DEF Distinct, In
<1>3. \A u : In(u, r) <=> In(u, q) \/ u = th
  BY <1>1 DEF In
<1> QED
  BY <1>1, <1>2, <1>3 DEF r

-----------------------------------------------------------------------------
(* The mutex. *)

Labels == TaskLabel \cup IsrLabel \cup GeneratorLabel

\* Where threads wait for the mutex, and where they are with it.
LEMMA HoldingValues ==
  /\ DOMAIN Holding = {"enter", "pend", "delete", "close", "generate", "wait"}
  /\ Holding["enter"] = "entered" /\ Holding["pend"] = "pending"
  /\ Holding["delete"] = "deleting" /\ Holding["close"] = "closing"
  /\ Holding["generate"] = "generating" /\ Holding["wait"] = "interrupted"
BY DEF Holding

\* The queue of the mutex loses a thread.
QueueLoses(th) ==
  /\ mutexQueue' \in Seq(Threads) /\ Distinct(mutexQueue)'
  /\ \A u : In(u, mutexQueue') <=> In(u, mutexQueue) /\ u # th

\* The three things that ReleaseMutex may do.
Keeps(moved) ==
  /\ mutexCount > 1 /\ mutexCount' = mutexCount - 1
  /\ mutexOwner' = mutexOwner /\ mutexQueue' = mutexQueue /\ pc' = moved
Frees(moved) ==
  /\ mutexCount <= 1 /\ mutexCount' = mutexCount - 1
  /\ mutexOwner' = Nobody /\ mutexQueue' = mutexQueue /\ pc' = moved
HandsTo(th, moved) ==
  /\ mutexCount <= 1 /\ mutexCount' = 1
  /\ In(th, mutexQueue) /\ mutexOwner' = th /\ QueueLoses(th)
  /\ pc' = [moved EXCEPT ![th] = Holding[@]]

\* Releasing the mutex keeps it, frees it, or hands it to a thread that waits for it.
LEMMA ReleaseCases ==
  ASSUME TypeOK, QueueInv, NEW moved, NEW signalled \in BOOLEAN, ReleaseMutex(moved, signalled)
  PROVE  /\ pvInterruptEvent' \in BOOLEAN
         /\ Keeps(moved) \/ Frees(moved) \/ \E th \in Threads : HandsTo(th, moved)
<1> DEFINE able == {i \in DOMAIN mutexQueue : mutexQueue[i] = Isr => signalled}
<1>1. CASE mutexCount > 1 \/ able = {}
  BY <1>1 DEF ReleaseMutex, Keeps, Frees, TypeOK
<1>2. CASE ~(mutexCount > 1 \/ able = {})
  <2>1. PICK i \in able :
          /\ mutexOwner' = mutexQueue[i] /\ mutexCount' = 1
          /\ mutexQueue' = Without(mutexQueue, mutexQueue[i])
          /\ pc' = [moved EXCEPT ![mutexQueue[i]] = Holding[@]]
          /\ pvInterruptEvent' = (signalled /\ mutexQueue[i] # Isr)
    BY <1>2 DEF ReleaseMutex
  <2>2. mutexQueue[i] \in Threads /\ In(mutexQueue[i], mutexQueue)
    BY <2>1 DEF TypeOK, In
  <2>3. QueueLoses(mutexQueue[i])
    BY <2>1, WithoutAny DEF TypeOK, QueueInv, QueueLoses
  <2>4. pvInterruptEvent' \in BOOLEAN
    BY <2>1
  <2>5. mutexCount <= 1
    BY <1>2 DEF TypeOK
  <2>6. HandsTo(mutexQueue[i], moved)
    BY <2>1, <2>2, <2>3, <2>5 DEF HandsTo
  <2> QED
    BY <2>2, <2>4, <2>6
<1> QED
  BY <1>1, <1>2

\* What is so after the owner gave the mutex up and the threads went on as moved says.
HandedOver(moved) ==
  /\ pc' \in [Threads -> Labels]
  /\ mutexOwner' \in Threads \cup {Nobody} /\ mutexCount' \in {0, 1}
  /\ mutexQueue' \in Seq(Threads) /\ pvInterruptEvent' \in BOOLEAN
  /\ \A t \in Tasks : pc'[t] \in TaskLabel
  /\ pc'[Isr] \in (IsrLabel \ IsrHolds) \cup {"interrupted"}
  /\ \A g \in Generators : pc'[g] \in GeneratorLabel
  /\ \A t \in Tasks :
       \/ pc'[t] = moved[t]
       \/ moved[t] = "enter" /\ pc'[t] = "entered"
       \/ moved[t] = "pend" /\ pc'[t] = "pending"
       \/ moved[t] = "delete" /\ pc'[t] = "deleting"
       \/ moved[t] = "close" /\ pc'[t] = "closing"
  /\ CountInv' /\ OwnerInv' /\ QueueInv'

\* Each task has gone on as moved says, or has the mutex it waited for.
LEMMA HandedMoves ==
  ASSUME NEW moved, HandedOver(moved)
  PROVE  \A u \in Tasks : \/ pc'[u] = moved[u]
                          \/ moved[u] = "enter" /\ pc'[u] = "entered"
                          \/ moved[u] = "pend" /\ pc'[u] = "pending"
                          \/ moved[u] = "delete" /\ pc'[u] = "deleting"
                          \/ moved[u] = "close" /\ pc'[u] = "closing"
  BY DEF HandedOver

\* Without its owner the mutex is free or goes to the first thread that can have it.
LEMMA HandOff ==
  ASSUME Inv, mutexCount = 1, ulCriticalNesting' = 0, UNCHANGED <<CurrentTCB, Closing>>,
         NEW moved \in [Threads -> Labels], NEW signalled \in BOOLEAN,
         ReleaseMutex(moved, signalled),
         \A th \in Threads : Queued(th) => moved[th] = pc[th],
         \A t \in Tasks : moved[t] \in TaskLabel \ (TaskHolds \cup {"leave"}),
         moved[Isr] \in IsrLabel \ IsrHolds,
         \A g \in Generators : moved[g] \in GeneratorLabel \ {"generating"}
  PROVE  HandedOver(moved)
<1> USE PortAssumption DEF Threads, Generators
<1>1. pvInterruptEvent' \in BOOLEAN
  BY ReleaseCases DEF Inv
<1>2. CASE Frees(moved)
  BY <1>1, <1>2 DEF HandedOver, Frees, Inv, TypeOK, CountInv, OwnerInv, QueueInv, Labels, Queued
<1>3. ASSUME NEW th \in Threads, HandsTo(th, moved)
      PROVE  /\ pc' \in [Threads -> Labels]
             /\ mutexOwner' = th /\ mutexCount' = 1 /\ mutexQueue' \in Seq(Threads)
             /\ \A u \in Threads \ {th} : pc'[u] = moved[u]
             /\ th \in Tasks =>
                  /\ \/ moved[th] = "enter" /\ pc'[th] = "entered"
                     \/ moved[th] = "pend" /\ pc'[th] = "pending"
                     \/ moved[th] = "delete" /\ pc'[th] = "deleting"
                     \/ moved[th] = "close" /\ pc'[th] = "closing"
                  /\ th = CurrentTCB \/ th \in Closing
             /\ th = Isr => pc'[th] = "interrupted"
             /\ th \in Generators => pc'[th] = "generating"
             /\ Distinct(mutexQueue')
             /\ \A u \in Threads : Queued(u)' => Queued(u) /\ u # th
  <2>1. moved[th] \in DOMAIN Holding /\ moved[th] = pc[th]
        /\ (th \in Tasks => th = CurrentTCB \/ th \in Closing)
    BY <1>3 DEF HandsTo, In, Queued, Inv, QueueInv
  <2>2. pc'[th] = Holding[moved[th]] /\ \A u \in Threads \ {th} : pc'[u] = moved[u]
    BY <1>3 DEF HandsTo
  <2>3. /\ th \in Tasks => moved[th] \in {"enter", "pend", "delete", "close"}
        /\ th = Isr => moved[th] = "wait"
        /\ th \in Generators => moved[th] = "generate"
    BY <2>1, HoldingValues DEF TaskLabel, IsrLabel, GeneratorLabel
  <2>4. pc'[th] \in Labels
    BY <2>1, <2>2, HoldingValues DEF Labels, TaskLabel, IsrLabel, GeneratorLabel
  <2>5. pc' \in [Threads -> Labels]
    BY <1>3, <2>2, <2>4 DEF HandsTo
  <2>6. Distinct(mutexQueue') /\ mutexQueue' \in Seq(Threads)
        /\ \A u \in Threads : Queued(u)' => Queued(u) /\ u # th
    BY <1>3 DEF HandsTo, QueueLoses, In, Queued, Distinct
  <2> QED
    BY <1>3, <2>1, <2>2, <2>3, <2>5, <2>6, HoldingValues DEF HandsTo
<1>4. ASSUME NEW th \in Threads, HandsTo(th, moved)
      PROVE  /\ pc'[Isr] \in (IsrLabel \ IsrHolds) \cup {"interrupted"}
             /\ \A t \in Tasks : pc'[t] \in TaskLabel
             /\ \A g \in Generators : pc'[g] \in GeneratorLabel
             /\ CountInv' /\ OwnerInv' /\ QueueInv'
  <2>1. CountInv'
    BY <1>3, <1>4 DEF CountInv, TaskHolds, Inv, ThreadInv
  <2>2. OwnerInv'
    <3>1. mutexOwner' = th /\ \A u \in Threads \ {th} : pc'[u] = moved[u]
      BY <1>3, <1>4
    <3>2. pc'[Isr] \in IsrHolds <=> mutexOwner' = Isr
      BY <1>3, <1>4, <3>1 DEF IsrHolds
    <3>3. \A g \in Generators : pc'[g] = "generating" <=> mutexOwner' = g
      BY <1>3, <1>4, <3>1
    <3>4. ASSUME NEW t \in Tasks
          PROVE  /\ pc'[t] \in TaskHolds \cup {"leave"} => mutexOwner' = t
                 /\ mutexOwner' = t =>
                      /\ pc'[t] \notin {"none", "await", "close", "exit"}
                      /\ t = CurrentTCB' \/ pc'[t] = "closing"
      <4>1. CASE t # th
        BY <3>1, <4>1
      <4>2. CASE t = th
        <5>1. moved[t] = pc[t]
          BY <1>4, <4>2 DEF HandsTo, In, Queued
        <5> QED
          BY <1>3, <1>4, <3>1, <4>2, <5>1 DEF Inv, ThreadInv
      <4> QED
        BY <4>1, <4>2
    <3> QED
      BY <3>2, <3>3, <3>4 DEF OwnerInv, IsrHolds, TaskHolds
  <2>3. QueueInv'
    BY <1>3, <1>4 DEF QueueInv, Inv
  <2> QED
    BY <1>3, <1>4, <2>1, <2>2, <2>3 DEF TaskLabel, IsrLabel, GeneratorLabel, IsrHolds
<1>5. Frees(moved) \/ \E th \in Threads : HandsTo(th, moved)
  BY ReleaseCases DEF Inv, Keeps
<1> QED
  BY <1>1, <1>2, <1>3, <1>4, <1>5 DEF HandedOver

-----------------------------------------------------------------------------
(* The steps of tasks and of the threads that pend interrupts. *)

\* A task that Windows runs is the current one or ends its own thread.
LEMMA RunsTask ==
  ASSUME Inv, NEW t \in Tasks, Scheduled(t)
  PROVE  /\ t \notin Suspended /\ ~Queued(t) /\ pc[t] # "none"
         /\ pc[t] = "await" => pvYieldEvent[t]
         /\ t = CurrentTCB \/ t \in Closing
  BY DEF Scheduled, Blocked, Inv, ThreadInv

\* A thread that takes the mutex.
LEMMA Taken ==
  ASSUME Inv, NEW th \in Tasks \cup Generators, WaitForMutex(th), mutexOwner \in {Nobody, th}
  PROVE  Inv'
<1> USE PortAssumption
    DEF Threads, Generators, threadVars, kernelVars, eventVars, portVars
<1>1. /\ mutexOwner' = th /\ mutexCount' = mutexCount + 1 /\ mutexQueue' = mutexQueue
      /\ pc' = [pc EXCEPT ![th] = Holding[pc[th]]]
      /\ pc[th] \in DOMAIN Holding /\ ~Queued(th)
      /\ UNCHANGED <<threadVars, kernelVars, eventVars, portVars>>
  BY DEF WaitForMutex, Goto, Scheduled, Blocked
<1>2. /\ th \in Tasks =>
           \/ pc[th] = "enter" /\ Holding[pc[th]] = "entered"
           \/ pc[th] = "pend" /\ Holding[pc[th]] = "pending"
           \/ pc[th] = "delete" /\ Holding[pc[th]] = "deleting"
           \/ pc[th] = "close" /\ Holding[pc[th]] = "closing"
      /\ th \in Generators => pc[th] = "generate" /\ Holding[pc[th]] = "generating"
  BY <1>1, HoldingValues DEF Inv, LabelInv, TaskLabel, GeneratorLabel
<1>3. /\ pc \in [Threads -> Labels] /\ Holding[pc[th]] \in Labels
      /\ \A u \in Threads : pc'[u] = IF u = th THEN Holding[pc[th]] ELSE pc[u]
  BY <1>1, <1>2 DEF Inv, TypeOK, Labels, TaskLabel, GeneratorLabel
<1>4. th \in Tasks => th = CurrentTCB \/ th \in Closing
  BY RunsTask DEF WaitForMutex
<1>5. LabelInv'
  BY <1>1, <1>2, <1>3 DEF Inv, LabelInv, TaskLabel, GeneratorLabel
<1>6. CountInv'
  <2>1. CASE th \in Tasks
    BY <1>1, <1>2, <1>3, <2>1 DEF Inv, TypeOK, CountInv, OwnerInv, TaskHolds
  <2>2. CASE th \in Generators
    BY <1>1, <1>2, <1>3, <2>2 DEF Inv, TypeOK, CountInv, OwnerInv, TaskHolds
  <2> QED
    BY <2>1, <2>2
<1>7. OwnerInv'
  BY <1>1, <1>2, <1>3, <1>4 DEF Inv, OwnerInv, ThreadInv, IsrHolds, TaskHolds
<1>8. QueueInv'
  BY <1>1, <1>3 DEF Inv, QueueInv, Queued
<1>9. ThreadInv'
  BY <1>1, <1>2, <1>3 DEF Inv, TypeOK, ThreadInv
<1>10. TypeOK'
  <2>1. mutexCount' \in 0 .. MaxNesting + 1
    BY <1>1, <1>2 DEF Inv, TypeOK, CountInv, OwnerInv, TaskHolds
  <2> QED
    BY <1>1, <1>3, <2>1 DEF Inv, TypeOK, Labels
<1> QED
  BY <1>5, <1>6, <1>7, <1>8, <1>9, <1>10 DEF Inv

\* A thread that queues for the mutex.
LEMMA Waits ==
  ASSUME Inv, NEW th \in Tasks \cup Generators, WaitForMutex(th), mutexOwner \notin {Nobody, th}
  PROVE  Inv'
<1> USE DEF Threads, Generators, threadVars, kernelVars, eventVars, portVars
<1>1. /\ mutexQueue' = Append(mutexQueue, th) /\ ~Queued(th) /\ pc[th] \in DOMAIN Holding
      /\ UNCHANGED <<mutexOwner, mutexCount, pc, threadVars, kernelVars, eventVars, portVars>>
  BY DEF WaitForMutex, Scheduled, Blocked
<1>2. th \in Tasks => th = CurrentTCB \/ th \in Closing
  BY RunsTask DEF WaitForMutex
<1>3. /\ mutexQueue' \in Seq(Threads) /\ Distinct(mutexQueue')
      /\ \A u \in Threads : Queued(u)' <=> Queued(u) \/ u = th
  <2>1. ~In(th, mutexQueue)
    BY <1>1 DEF Queued, In
  <2>2. /\ mutexQueue' \in Seq(Threads) /\ Distinct(mutexQueue')
        /\ \A u : In(u, mutexQueue') <=> In(u, mutexQueue) \/ u = th
    BY <1>1, <2>1, AppendOne DEF Inv, TypeOK, QueueInv
  <2> QED
    BY <2>2 DEF Queued, In
<1>4. QueueInv'
  BY <1>1, <1>2, <1>3 DEF Inv, QueueInv, Distinct
<1> QED
  BY <1>1, <1>3, <1>4 DEF Inv, TypeOK, LabelInv, CountInv, OwnerInv, ThreadInv

\* Taking the mutex, or queueing for it, keeps the invariant.
LEMMA WaitStep == ASSUME Inv, NEW th \in Tasks \cup Generators, WaitForMutex(th) PROVE Inv'
  BY Taken, Waits

\* A step of a thread that leaves the mutex alone, from a place without the mutex to another.
LEMMA QuietStep ==
  ASSUME Inv, NEW th \in Threads, NEW label, pc' = [pc EXCEPT ![th] = label],
         ~Queued(th), UNCHANGED <<Suspended, Closing, Removed, victim>>,
         UNCHANGED <<CurrentTCB, mutexVars, ulCriticalNesting>>,
         \/ /\ th \in Tasks /\ label \in TaskLabel \ (TaskHolds \cup {"none", "leave"})
            /\ pc[th] \notin TaskHolds \cup {"none", "leave"}
            /\ mutexOwner = th =>
                 /\ label \notin {"await", "close", "exit"}
                 /\ label = "enter" => ulCriticalNesting < MaxNesting
            /\ th \in Closing => label \in {"await", "close", "exit"}
            /\ label \in {"close", "exit"} => th \in Closing
            /\ label = "delete" => victim[th] # Nobody
         \/ /\ th \in Generators /\ label \in GeneratorLabel \ {"generating"}
            /\ pc[th] # "generating"
  PROVE  /\ pc' \in [Threads -> Labels]
         /\ \A t \in Tasks : pc'[t] \in TaskLabel
         /\ \A g \in Generators : pc'[g] \in GeneratorLabel
         /\ pc'[Isr] = pc[Isr]
         /\ CountInv' /\ OwnerInv' /\ QueueInv' /\ ThreadInv'
<1> USE PortAssumption DEF Threads, Generators, threadVars, mutexVars
<1>1. /\ pc \in [Threads -> Labels] /\ label \in Labels
      /\ \A u \in Threads : pc'[u] = IF u = th THEN label ELSE pc[u]
  BY DEF Inv, TypeOK, Labels
<1>2. CountInv'
  BY <1>1 DEF Inv, CountInv, TaskHolds
<1>3. OwnerInv'
  BY <1>1 DEF Inv, OwnerInv, TaskHolds, IsrHolds
<1>4. QueueInv'
  BY <1>1 DEF Inv, QueueInv, Queued
<1>5. ThreadInv'
  BY <1>1 DEF Inv, TypeOK, ThreadInv, TaskHolds
<1>6. \A t \in Tasks : pc'[t] \in TaskLabel
  BY <1>1 DEF Inv, LabelInv
<1>7. \A g \in Generators : pc'[g] \in GeneratorLabel
  BY <1>1 DEF Inv, LabelInv
<1> QED
  BY <1>1, <1>2, <1>3, <1>4, <1>5, <1>6, <1>7

\* The steps of a task that leave the mutex and the other threads alone.
LEMMA TaskQuiet ==
  ASSUME Inv, NEW t \in Tasks,
         \/ EnterCritical(t) \/ GenerateSimulatedInterrupt(t) \/ Recheck(t)
         \/ YieldEventSet(t) \/ \E u \in Tasks : TaskDelete(t, u)
  PROVE  Inv'
<1> USE PortAssumption
    DEF Threads, kernelVars, eventVars, portVars, threadVars, mutexVars, Goto
<1>1. Scheduled(t) /\ ~Queued(t) /\ (t \notin Closing => t = CurrentTCB)
  BY RunsTask
     DEF EnterCritical, GenerateSimulatedInterrupt, Recheck, YieldEventSet, TaskDelete, Running,
         At
<1>2. AfterSection(t) \in {"close", "delete", "run"}
      /\ (AfterSection(t) = "close" <=> t \in Closing)
      /\ (AfterSection(t) = "delete" => victim[t] # Nobody)
  BY DEF AfterSection
<1>3. PICK label :
        /\ pc' = [pc EXCEPT ![t] = label]
        /\ UNCHANGED <<Suspended, Closing, Removed, victim>>
        /\ toDelete' \in [Tasks -> Tasks \cup {Nobody}]
        /\ UNCHANGED <<kernelVars, mutexVars, pvInterruptEvent, portVars>>
        /\ pvYieldEvent' = pvYieldEvent \/ pvYieldEvent' = [pvYieldEvent EXCEPT ![t] = FALSE]
        /\ \/ pc[t] = "run" /\ label = "pend"
           \/ pc[t] = "run" /\ label = "enter" /\ ulCriticalNesting < MaxNesting
           \/ /\ pc[t] = "recheck"
              /\ label = IF ulCriticalNesting = 0 THEN "await" ELSE "run"
           \/ pc[t] = "await" /\ label = AfterSection(t)
  <2>0. toDelete \in [Tasks -> Tasks \cup {Nobody}]
    BY DEF Inv, TypeOK
  <2>1. CASE EnterCritical(t)
    <3>1. /\ pc[t] = "run" /\ ulCriticalNesting < MaxNesting
          /\ pc' = [pc EXCEPT ![t] = "enter"]
          /\ UNCHANGED <<threadVars, kernelVars, mutexVars, pvInterruptEvent, portVars>>
          /\ pvYieldEvent' = pvYieldEvent
      BY <2>1 DEF EnterCritical, Running, At
    <3> QED
      BY <2>0, <3>1
  <2>2. CASE GenerateSimulatedInterrupt(t)
    <3>1. /\ pc[t] = "run" /\ pc' = [pc EXCEPT ![t] = "pend"]
          /\ UNCHANGED <<threadVars, kernelVars, mutexVars, pvInterruptEvent, portVars>>
          /\ pvYieldEvent' = pvYieldEvent
      BY <2>2 DEF GenerateSimulatedInterrupt, Running, At
    <3> QED
      BY <2>0, <3>1
  <2>3. CASE Recheck(t)
    BY <2>0, <2>3 DEF Recheck, At
  <2>4. CASE YieldEventSet(t)
    BY <2>0, <2>4 DEF YieldEventSet, At
  <2>5. ASSUME NEW u \in Tasks, TaskDelete(t, u)
        PROVE  /\ pc[t] = "run" /\ ulCriticalNesting < MaxNesting
               /\ pc' = [pc EXCEPT ![t] = "enter"]
               /\ UNCHANGED <<Suspended, Closing, Removed, victim>>
               /\ UNCHANGED <<kernelVars, mutexVars, pvInterruptEvent, portVars>>
               /\ pvYieldEvent' = pvYieldEvent
               /\ toDelete' \in [Tasks -> Tasks \cup {Nobody}]
    BY <2>0, <2>5 DEF TaskDelete, Running, At
  <2> QED
    BY <2>1, <2>2, <2>3, <2>4, <2>5
<1>4. /\ label \in TaskLabel \ (TaskHolds \cup {"none", "leave"})
      /\ pc[t] \notin TaskHolds \cup {"none", "leave"}
  BY <1>2, <1>3 DEF TaskLabel, TaskHolds
<1>5. mutexOwner = t =>
        /\ label \notin {"await", "close", "exit"}
        /\ label = "enter" => ulCriticalNesting < MaxNesting
  BY <1>2, <1>3 DEF Inv, TypeOK, OwnerInv, CountInv, TaskHolds
<1>6. /\ t \in Closing => label \in {"await", "close", "exit"}
      /\ label \in {"close", "exit"} => t \in Closing
      /\ label = "delete" => victim[t] # Nobody
  BY <1>2, <1>3 DEF Inv, ThreadInv
<1>7. /\ pc' \in [Threads -> Labels]
      /\ \A u \in Tasks : pc'[u] \in TaskLabel
      /\ \A g \in Generators : pc'[g] \in GeneratorLabel
      /\ pc'[Isr] = pc[Isr]
      /\ CountInv' /\ OwnerInv' /\ QueueInv' /\ ThreadInv'
  BY <1>1, <1>3, <1>4, <1>5, <1>6, QuietStep
<1> QED
  BY <1>3, <1>7 DEF Inv, TypeOK, LabelInv, Labels

\* A generator wakes up.
LEMMA WakeStep == ASSUME Inv, NEW g \in Generators, Wake(g) PROVE Inv'
<1> USE PortAssumption
    DEF Threads, kernelVars, eventVars, portVars, threadVars, mutexVars, Goto
<1>1. /\ pc' = [pc EXCEPT ![g] = IF xPortRunning THEN "generate" ELSE "done"]
      /\ pc[g] = "idle" /\ g \in Threads
      /\ UNCHANGED <<threadVars, kernelVars, mutexVars, eventVars, portVars>>
  BY DEF Wake, Generators
<1>2. ~Queued(g)
  BY <1>1, HoldingValues DEF Inv, QueueInv
<1>3. /\ pc' \in [Threads -> Labels]
      /\ \A u \in Tasks : pc'[u] \in TaskLabel
      /\ \A h \in Generators : pc'[h] \in GeneratorLabel
      /\ pc'[Isr] = pc[Isr]
      /\ CountInv' /\ OwnerInv' /\ QueueInv' /\ ThreadInv'
  BY <1>1, <1>2, QuietStep DEF GeneratorLabel
<1> QED
  BY <1>1, <1>3 DEF Inv, TypeOK, LabelInv, Labels

\* A critical section is entered.
LEMMA EnteredStep == ASSUME Inv, NEW t \in Tasks, Entered(t) PROVE Inv'
<1> USE PortAssumption
    DEF Threads, Generators, kernelVars, eventVars, threadVars, mutexVars, Goto
<1>1. /\ pc[t] = "entered" /\ pc' = [pc EXCEPT ![t] = "run"]
      /\ ulCriticalNesting' = ulCriticalNesting + 1
      /\ UNCHANGED <<threadVars, kernelVars, mutexVars, eventVars, ulPendingInterrupts,
                     xInsideInterrupt, xPortRunning>>
      /\ ~Queued(t)
  BY RunsTask DEF Entered, At
<1>2. mutexOwner = t /\ ulCriticalNesting < MaxNesting
      /\ mutexCount = ulCriticalNesting + 1 /\ t \notin Closing
  BY <1>1 DEF Inv, OwnerInv, CountInv, TaskHolds, ThreadInv
<1>3. /\ pc' \in [Threads -> Labels]
      /\ \A u \in Threads : pc'[u] = IF u = t THEN "run" ELSE pc[u]
  BY <1>1 DEF Inv, TypeOK, Labels, TaskLabel
<1>4. TypeOK' /\ LabelInv'
  BY <1>1, <1>2, <1>3 DEF Inv, TypeOK, LabelInv, Labels, TaskLabel
<1>5. CountInv' /\ OwnerInv'
  BY <1>1, <1>2, <1>3 DEF Inv, TypeOK, CountInv, OwnerInv, TaskHolds, IsrHolds
<1>6. QueueInv' /\ ThreadInv'
  BY <1>1, <1>2, <1>3 DEF Inv, TypeOK, QueueInv, Queued, ThreadInv
<1> QED
  BY <1>4, <1>5, <1>6 DEF Inv

\* Nested sections are left with the mutex kept.
LEMMA KeepStep ==
  ASSUME Inv, NEW t \in Tasks, mutexOwner = t, mutexCount > 1,
         NEW label \in {"run", "delete", "recheck"},
         NEW signalled \in BOOLEAN, ReleaseMutex([pc EXCEPT ![t] = label], signalled),
         UNCHANGED <<threadVars, CurrentTCB>>, ulCriticalNesting' = mutexCount - 1,
         t \notin Closing, label = "delete" => victim[t] # Nobody
  PROVE  /\ pc' = [pc EXCEPT ![t] = label] /\ pc' \in [Threads -> Labels]
         /\ mutexOwner' = t /\ mutexCount' \in 0 .. MaxNesting + 1
         /\ mutexQueue' = mutexQueue
         /\ \A u \in Tasks : pc'[u] \in TaskLabel
         /\ CountInv' /\ OwnerInv' /\ QueueInv' /\ ThreadInv'
         /\ pvInterruptEvent' \in BOOLEAN
<1> USE PortAssumption DEF Threads, Generators, threadVars
<1> DEFINE moved == [pc EXCEPT ![t] = label]
<1>1. /\ mutexOwner' = t /\ mutexCount' = mutexCount - 1 /\ mutexQueue' = mutexQueue
      /\ pc' = moved
      /\ pvInterruptEvent' \in BOOLEAN
  <2>1. /\ pvInterruptEvent' \in BOOLEAN
        /\ Keeps(moved) \/ Frees(moved) \/ \E th \in Threads : HandsTo(th, moved)
    BY ReleaseCases DEF Inv
  <2> QED
    BY <2>1 DEF Inv, TypeOK, Keeps, Frees, HandsTo
<1>2. /\ moved \in [Threads -> Labels]
      /\ \A u \in Threads : moved[u] = IF u = t THEN label ELSE pc[u]
  BY DEF Inv, TypeOK, Labels, TaskLabel
<1> HIDE DEF moved
<1>3. mutexCount' \in 0 .. MaxNesting + 1 /\ CountInv' /\ OwnerInv'
  <2>1. mutexCount \in 0 .. MaxNesting + 1 /\ MaxNesting \in Nat /\ t # Nobody /\ t # Isr
        /\ t \notin Generators
    BY DEF Inv, TypeOK
  <2>2. mutexCount' \in 0 .. MaxNesting + 1 /\ mutexCount' >= 1
        /\ ulCriticalNesting' = mutexCount' /\ pc'[t] = label
    BY <1>1, <1>2, <2>1
  <2>3. CountInv'
    BY <1>1, <2>1, <2>2 DEF CountInv, TaskHolds
  <2>4. OwnerInv'
    BY <1>1, <1>2 DEF Inv, OwnerInv, ThreadInv, TaskHolds, IsrHolds
  <2> QED
    BY <2>2, <2>3, <2>4
<1>4. QueueInv' /\ ThreadInv'
  BY <1>1, <1>2 DEF Inv, TypeOK, QueueInv, Queued, OwnerInv, ThreadInv
<1> QED
  BY <1>1, <1>2, <1>3, <1>4 DEF moved, Inv, LabelInv, TaskLabel

\* The last section is left, and a thread that waits for the mutex may have it.
LEMMA LeaveStep ==
  ASSUME Inv, NEW t \in Tasks, mutexOwner = t, mutexCount = 1, ulCriticalNesting' = 0,
         NEW label \in {"run", "delete", "recheck", "await", "close", "exit"},
         NEW signalled \in BOOLEAN, ReleaseMutex([pc EXCEPT ![t] = label], signalled),
         UNCHANGED <<threadVars, CurrentTCB, xInsideInterrupt>>,
         t \in Closing => label \in {"await", "close", "exit"},
         label \in {"close", "exit"} => t \in Closing,
         label = "delete" => victim[t] # Nobody
  PROVE  /\ pc' \in [Threads -> Labels]
         /\ mutexOwner' \in Threads \cup {Nobody} /\ mutexCount' \in {0, 1}
         /\ mutexQueue' \in Seq(Threads) /\ pvInterruptEvent' \in BOOLEAN
         /\ LabelInv' /\ CountInv' /\ OwnerInv' /\ QueueInv' /\ ThreadInv'
<1> USE PortAssumption DEF Threads, Generators, threadVars
<1> DEFINE moved == [pc EXCEPT ![t] = label]
<1>1. /\ moved \in [Threads -> Labels]
      /\ \A u \in Threads : moved[u] = IF u = t THEN label ELSE pc[u]
  BY DEF Inv, TypeOK, Labels, TaskLabel
<1>2. ReleaseMutex(moved, signalled)
  OBVIOUS
<1> HIDE DEF moved
<1>3. \A th \in Threads : Queued(th) => moved[th] = pc[th]
  BY <1>1 DEF Inv, QueueInv
<1>4. /\ \A u \in Tasks : moved[u] \in TaskLabel \ (TaskHolds \cup {"leave"})
      /\ moved[Isr] \in IsrLabel \ IsrHolds
      /\ \A g \in Generators : moved[g] \in GeneratorLabel \ {"generating"}
  BY <1>1 DEF Inv, LabelInv, OwnerInv, TaskLabel, TaskHolds
<1>5. HandedOver(moved)
  BY <1>1, <1>2, <1>3, <1>4, HandOff
<1>6. LabelInv'
  <2>1. pc'[Isr] \in IsrLabel
        /\ pc'[Isr] \notin {"handlers", "nested", "handled", "switch", "signal"}
    BY <1>5 DEF HandedOver, IsrLabel, IsrHolds
  <2> QED
    BY <1>5, <2>1 DEF HandedOver, LabelInv
<1>7. ThreadInv'
  <2>1. \A u \in Tasks : \/ pc'[u] = moved[u]
                         \/ moved[u] = "enter" /\ pc'[u] = "entered"
                         \/ moved[u] = "pend" /\ pc'[u] = "pending"
                         \/ moved[u] = "delete" /\ pc'[u] = "deleting"
                         \/ moved[u] = "close" /\ pc'[u] = "closing"
    BY <1>5, HandedMoves
  <2>2. /\ t = CurrentTCB \/ t \in Closing
        /\ label # "none"
    BY DEF Inv, OwnerInv, ThreadInv
  <2>3. ThreadInv /\ CurrentTCB \in Tasks
    BY DEF Inv, TypeOK
  <2>4. \A u \in Tasks :
          /\ pc'[u] # "none" => u = CurrentTCB \/ u \in Suspended \cup Closing
          /\ u \in Suspended => pc'[u] # "none" /\ u \notin Closing
          /\ u \in Closing => pc'[u] \in {"leave", "await", "close", "closing", "exit", "none"}
          /\ pc'[u] \in {"close", "closing", "exit"} => u \in Closing
          /\ pc'[u] \in {"delete", "deleting"} => victim[u] # Nobody
    BY <1>1, <2>1, <2>2, <2>3 DEF ThreadInv
  <2>5. pc'[CurrentTCB] = "none" => CurrentTCB \in Closing
    BY <1>1, <2>1, <2>2, <2>3 DEF ThreadInv
  <2> QED
    BY <2>3, <2>4, <2>5 DEF ThreadInv
<1> QED
  BY <1>5, <1>6, <1>7 DEF HandedOver

\* A critical section is left.
LEMMA ExitStep == ASSUME Inv, NEW t \in Tasks, ExitCritical(t) PROVE Inv'
<1> USE PortAssumption
    DEF Threads, Generators, kernelVars, eventVars, threadVars, mutexVars, portVars
<1> DEFINE waits == ulCriticalNesting = 1 /\ WaitsForInterrupt
           label == IF waits THEN "await" ELSE AfterSection(t)
<1>1. mutexOwner = t /\ pc[t] \in {"run", "leave"}
  BY DEF ExitCritical, Running, At, Inv, OwnerInv
<1>2. /\ ulCriticalNesting' = ulCriticalNesting - 1
      /\ pvYieldEvent' = IF waits THEN [pvYieldEvent EXCEPT ![CurrentTCB] = FALSE]
                                  ELSE pvYieldEvent
      /\ ReleaseMutex([pc EXCEPT ![t] = label], pvInterruptEvent \/ waits)
      /\ UNCHANGED <<threadVars, kernelVars, ulPendingInterrupts, xInsideInterrupt,
                     xPortRunning>>
  BY DEF ExitCritical, LeaveCritical
<1>3. /\ label \in {"await", "close", "delete", "run"}
      /\ t \in Closing => label \in {"await", "close"}
      /\ label = "close" => t \in Closing
      /\ label = "delete" => victim[t] # Nobody
      /\ label = "await" <=> waits
  BY DEF AfterSection
<1>4. mutexCount = ulCriticalNesting /\ mutexCount >= 1 /\ mutexCount \in Nat
      /\ (t \in Closing => ulCriticalNesting = 1)
  BY <1>1 DEF Inv, TypeOK, CountInv, ThreadInv, TaskHolds
<1>5. (pvInterruptEvent \/ waits) \in BOOLEAN /\ pvYieldEvent' \in [Tasks -> BOOLEAN]
      /\ (ulCriticalNesting # 1 => ~waits) /\ ulCriticalNesting' \in 0 .. MaxNesting
  BY <1>2, <1>4 DEF Inv, TypeOK
<1> HIDE DEF waits, label
<1>6. CASE mutexCount = 1
  <2>1. ulCriticalNesting' = 0
    BY <1>2, <1>4, <1>6
  <2>2. /\ pc' \in [Threads -> Labels]
        /\ mutexOwner' \in Threads \cup {Nobody} /\ mutexCount' \in {0, 1}
        /\ mutexQueue' \in Seq(Threads) /\ pvInterruptEvent' \in BOOLEAN
        /\ LabelInv' /\ CountInv' /\ OwnerInv' /\ QueueInv' /\ ThreadInv'
    BY <1>1, <1>2, <1>3, <1>5, <1>6, <2>1, LeaveStep
  <2> QED
    BY <1>2, <1>5, <2>2 DEF Inv, TypeOK, Labels
<1>7. CASE mutexCount > 1
  <2>1. label \in {"run", "delete", "recheck"} /\ t \notin Closing
    BY <1>3, <1>4, <1>5, <1>7
  <2>2. /\ pc' \in [Threads -> Labels] /\ pc' = [pc EXCEPT ![t] = label]
        /\ mutexOwner' = t /\ mutexCount' \in 0 .. MaxNesting + 1
        /\ mutexQueue' = mutexQueue
        /\ \A u \in Tasks : pc'[u] \in TaskLabel
        /\ CountInv' /\ OwnerInv' /\ QueueInv' /\ ThreadInv'
        /\ pvInterruptEvent' \in BOOLEAN
    BY <1>1, <1>2, <1>3, <1>4, <1>5, <1>7, <2>1, KeepStep
  <2>3. pc'[Isr] = pc[Isr] /\ \A g \in Generators : pc'[g] = pc[g]
    BY <2>2 DEF Inv, TypeOK
  <2> QED
    BY <1>2, <1>5, <2>2, <2>3 DEF Inv, TypeOK, LabelInv, Labels
<1> QED
  BY <1>4, <1>6, <1>7

\* An interrupt is set pending, in a critical section or not.
LEMMA PendingStep == ASSUME Inv, NEW t \in Tasks, SetPending(t) PROVE Inv'
<1> USE PortAssumption
    DEF Threads, Generators, kernelVars, threadVars
<1> DEFINE signalled == pvInterruptEvent \/ ulCriticalNesting = 0
<1>1. /\ pc[t] = "pending"
      /\ \E i \in {Yield, App} : ulPendingInterrupts' = ulPendingInterrupts \cup {i}
      /\ pvYieldEvent' = EventBeforeWait(t)
      /\ ReleaseMutex([pc EXCEPT ![t] = "recheck"], signalled)
      /\ UNCHANGED <<threadVars, kernelVars, ulCriticalNesting, xInsideInterrupt, xPortRunning>>
  BY DEF SetPending, At
<1>2. mutexOwner = t /\ mutexCount = ulCriticalNesting + 1 /\ t \notin Closing
      /\ ulCriticalNesting \in 0 .. MaxNesting
  BY <1>1 DEF Inv, TypeOK, OwnerInv, CountInv, ThreadInv, TaskHolds
<1>3. /\ ulPendingInterrupts' \subseteq Interrupts /\ pvYieldEvent' \in [Tasks -> BOOLEAN]
      /\ signalled \in BOOLEAN
  BY <1>1 DEF Inv, TypeOK, Interrupts, EventBeforeWait
<1> HIDE DEF signalled
<1>4. CASE mutexCount = 1
  <2>1. ulCriticalNesting' = 0
    BY <1>1, <1>2, <1>4
  <2>2. /\ pc' \in [Threads -> Labels]
        /\ mutexOwner' \in Threads \cup {Nobody} /\ mutexCount' \in {0, 1}
        /\ mutexQueue' \in Seq(Threads) /\ pvInterruptEvent' \in BOOLEAN
        /\ LabelInv' /\ CountInv' /\ OwnerInv' /\ QueueInv' /\ ThreadInv'
    BY <1>1, <1>2, <1>3, <1>4, <2>1, LeaveStep
  <2> QED
    BY <1>1, <1>2, <1>3, <2>2 DEF Inv, TypeOK, Labels
<1>5. CASE mutexCount > 1
  <2>1. ulCriticalNesting' = mutexCount - 1
    BY <1>1, <1>2
  <2>2. /\ pc' \in [Threads -> Labels] /\ pc' = [pc EXCEPT ![t] = "recheck"]
        /\ mutexOwner' = t /\ mutexCount' \in 0 .. MaxNesting + 1
        /\ mutexQueue' = mutexQueue
        /\ \A u \in Tasks : pc'[u] \in TaskLabel
        /\ CountInv' /\ OwnerInv' /\ QueueInv' /\ ThreadInv'
        /\ pvInterruptEvent' \in BOOLEAN
    BY <1>1, <1>2, <1>3, <1>5, <2>1, KeepStep
  <2>3. pc'[Isr] = pc[Isr] /\ \A g \in Generators : pc'[g] = pc[g]
    BY <2>2 DEF Inv, TypeOK
  <2> QED
    BY <1>1, <1>2, <1>3, <2>2, <2>3 DEF Inv, TypeOK, LabelInv, Labels
<1> QED
  BY <1>2, <1>4, <1>5

\* The thread of another task is terminated.
LEMMA DeleteStep == ASSUME Inv, NEW t \in Tasks, DeleteThread(t) PROVE Inv'
<1> USE PortAssumption
    DEF Threads, Generators, kernelVars, portVars
<1> DEFINE u == victim[t]
           moved == [pc EXCEPT ![t] = "run", ![u] = "none"]
<1>1. /\ pc[t] = "deleting"
      /\ Removed' = Removed \ {u} /\ Suspended' = Suspended \ {u}
      /\ toDelete' = [toDelete EXCEPT ![u] = Nobody]
      /\ victim' = [victim EXCEPT ![t] = Nobody, ![u] = Nobody]
      /\ ReleaseMutex(moved, pvInterruptEvent)
      /\ UNCHANGED <<Closing, kernelVars, pvYieldEvent, portVars>>
  BY DEF DeleteThread, At
<1>2. /\ mutexOwner = t /\ mutexCount = ulCriticalNesting + 1 /\ t \notin Closing
      /\ ulCriticalNesting \in 0 .. MaxNesting /\ t = CurrentTCB
  BY <1>1 DEF Inv, TypeOK, OwnerInv, CountInv, ThreadInv, TaskHolds
<1>3. /\ u \in Tasks /\ u \in Removed /\ u \in Suspended /\ u # t /\ u \notin Closing
      /\ u # CurrentTCB /\ ~Queued(u)
  BY <1>1, <1>2 DEF Inv, TypeOK, ThreadInv, QueueInv
<1>4. /\ moved \in [Threads -> Labels]
      /\ \A th \in Threads :
           moved[th] = IF th = u THEN "none" ELSE IF th = t THEN "run" ELSE pc[th]
  BY <1>3 DEF Inv, TypeOK, Labels, TaskLabel
<1>5. /\ victim' \in [Tasks -> Tasks \cup {Nobody}]
      /\ toDelete' \in [Tasks -> Tasks \cup {Nobody}]
      /\ \A v \in Tasks : victim'[v] = IF v \in {t, u} THEN Nobody ELSE victim[v]
  BY <1>1, <1>3 DEF Inv, TypeOK
<1>6. pvInterruptEvent \in BOOLEAN
  BY DEF Inv, TypeOK
<1> HIDE DEF u, moved
<1>7. \A v \in Tasks \ {t, u} : victim[v] # u
  BY <1>3 DEF Inv, ThreadInv, u
<1>8. CASE mutexCount = 1
  <2>1. ulCriticalNesting' = 0
    BY <1>1, <1>2, <1>8
  <2>2. \A th \in Threads : Queued(th) => moved[th] = pc[th]
    BY <1>2, <1>3, <1>4 DEF Inv, QueueInv
  <2>3. /\ \A v \in Tasks : moved[v] \in TaskLabel \ (TaskHolds \cup {"leave"})
        /\ moved[Isr] \in IsrLabel \ IsrHolds
        /\ \A g \in Generators : moved[g] \in GeneratorLabel \ {"generating"}
    BY <1>2, <1>3, <1>4 DEF Inv, LabelInv, OwnerInv, TaskLabel, TaskHolds
  <2>4. HandedOver(moved)
    BY <1>1, <1>4, <1>6, <1>8, <2>1, <2>2, <2>3, HandOff
  <2>5. LabelInv'
    <3>1. pc'[Isr] \in IsrLabel
          /\ pc'[Isr] \notin {"handlers", "nested", "handled", "switch", "signal"}
      BY <2>4 DEF HandedOver, IsrLabel, IsrHolds
    <3> QED
      BY <2>4, <3>1 DEF HandedOver, LabelInv
  <2>6. ThreadInv'
    <3>1. /\ Removed' = Removed \ {u} /\ Suspended' = Suspended \ {u}
          /\ Closing' = Closing /\ CurrentTCB' = CurrentTCB /\ CurrentTCB \in Tasks
      BY <1>1, <1>2
    <3>2. \A v \in Tasks :
            /\ pc'[v] = "none" <=> moved[v] = "none"
            /\ pc'[v] \in {"close", "closing", "exit"} <=> moved[v] \in {"close", "closing", "exit"}
            /\ pc'[v] \in {"delete", "deleting"} <=> moved[v] \in {"delete", "deleting"}
            /\ moved[v] \in {"leave", "await", "close", "closing", "exit", "none"}
                 => pc'[v] \in {"leave", "await", "close", "closing", "exit", "none"}
      BY <2>4 DEF HandedOver
    <3>3. \A v \in Tasks :
            moved[v] = IF v = u THEN "none" ELSE IF v = t THEN "run" ELSE pc[v]
      BY <1>4
    <3>4. \A v \in Tasks :
            /\ pc'[v] # "none" => v = CurrentTCB \/ v \in Suspended' \cup Closing
            /\ v \in Suspended' => pc'[v] # "none" /\ v \notin Closing
            /\ v \in Closing
                 => pc'[v] \in {"leave", "await", "close", "closing", "exit", "none"}
            /\ pc'[v] \in {"close", "closing", "exit"} => v \in Closing
            /\ v \in Removed' => v \in Suspended'
      BY <1>2, <1>3, <3>1, <3>2, <3>3 DEF Inv, ThreadInv
    <3>5. \A v \in Tasks :
            /\ victim'[v] # Nobody => victim'[v] \in Removed'
            /\ pc'[v] \in {"delete", "deleting"} => victim'[v] # Nobody
      BY <1>3, <1>5, <1>7, <3>1, <3>2, <3>3 DEF Inv, ThreadInv
    <3>6. \A v, w \in Tasks : victim'[v] = victim'[w] /\ victim'[v] # Nobody => v = w
      BY <1>5 DEF Inv, ThreadInv
    <3>7. CurrentTCB \notin Suspended' /\ (pc'[CurrentTCB] = "none" => CurrentTCB \in Closing)
      BY <1>2, <1>3, <3>1, <3>2, <3>3 DEF Inv, ThreadInv
    <3> QED
      BY <3>1, <3>4, <3>5, <3>6, <3>7 DEF ThreadInv
  <2>7. TypeOK'
    BY <1>1, <1>2, <1>5, <2>4 DEF HandedOver, Inv, TypeOK, Labels
  <2> QED
    BY <2>4, <2>5, <2>6, <2>7 DEF HandedOver, Inv
<1>9. CASE mutexCount > 1
  <2>1. /\ mutexOwner' = t /\ mutexCount' = mutexCount - 1 /\ mutexQueue' = mutexQueue
        /\ pc' = moved /\ pvInterruptEvent' \in BOOLEAN
    <3>1. /\ pvInterruptEvent' \in BOOLEAN
          /\ Keeps(moved) \/ Frees(moved) \/ \E th \in Threads : HandsTo(th, moved)
      BY <1>1, <1>6, ReleaseCases DEF Inv
    <3> QED
      BY <1>2, <1>9, <3>1 DEF Inv, TypeOK, Keeps, Frees, HandsTo
  <2>2. mutexCount' \in 0 .. MaxNesting + 1 /\ mutexCount' = ulCriticalNesting /\ mutexCount' >= 1
    BY <1>2, <1>9, <2>1
  <2>3. CountInv'
    BY <1>1, <1>2, <1>3, <1>4, <2>1, <2>2 DEF CountInv, TaskHolds
  <2>4. OwnerInv'
    BY <1>1, <1>2, <1>3, <1>4, <2>1 DEF Inv, OwnerInv, ThreadInv, TaskHolds, IsrHolds
  <2>5. QueueInv'
    BY <1>1, <1>2, <1>3, <1>4, <2>1 DEF Inv, QueueInv, Queued
  <2>6. ThreadInv'
    BY <1>1, <1>2, <1>3, <1>4, <1>5, <1>7, <2>1 DEF Inv, TypeOK, OwnerInv, ThreadInv
  <2>7. LabelInv'
    BY <1>1, <1>3, <1>4, <2>1 DEF Inv, LabelInv, TaskLabel
  <2> QED
    BY <1>1, <1>2, <1>4, <1>5, <2>1, <2>2, <2>3, <2>4, <2>5, <2>6, <2>7
       DEF Inv, TypeOK, Labels
<1> QED
  BY <1>2, <1>8, <1>9

\* A task that ends its own thread pends a yield and is closed.
LEMMA CloseStep ==
  ASSUME Inv, NEW t \in Tasks, PendClosingYield(t) \/ ExitThread(t) PROVE Inv'
<1> USE PortAssumption
    DEF Threads, Generators, kernelVars, threadVars, mutexVars, eventVars, portVars
<1>1. CASE PendClosingYield(t)
  <2>1. /\ pc[t] = "closing" /\ ulPendingInterrupts' = ulPendingInterrupts \cup {Yield}
        /\ ReleaseMutex([pc EXCEPT ![t] = "exit"], pvInterruptEvent)
        /\ UNCHANGED <<threadVars, kernelVars, pvYieldEvent, ulCriticalNesting,
                       xInsideInterrupt, xPortRunning>>
    BY <1>1 DEF PendClosingYield, At
  <2>2. /\ mutexOwner = t /\ mutexCount = 1 /\ ulCriticalNesting' = 0 /\ t \in Closing
        /\ pvInterruptEvent \in BOOLEAN /\ ulPendingInterrupts' \subseteq Interrupts
    BY <2>1 DEF Inv, TypeOK, OwnerInv, CountInv, ThreadInv, TaskHolds, Interrupts
  <2>3. /\ pc' \in [Threads -> Labels]
        /\ mutexOwner' \in Threads \cup {Nobody} /\ mutexCount' \in {0, 1}
        /\ mutexQueue' \in Seq(Threads) /\ pvInterruptEvent' \in BOOLEAN
        /\ LabelInv' /\ CountInv' /\ OwnerInv' /\ QueueInv' /\ ThreadInv'
    BY <2>1, <2>2, LeaveStep
  <2> QED
    BY <2>1, <2>2, <2>3 DEF Inv, TypeOK, Labels
<1>2. CASE ExitThread(t)
  <2>1. /\ pc[t] = "exit" /\ pc' = [pc EXCEPT ![t] = "none"] /\ ~Queued(t)
        /\ UNCHANGED <<threadVars, kernelVars, mutexVars, eventVars, portVars>>
    BY <1>2, RunsTask DEF ExitThread, At, Goto
  <2>2. mutexOwner # t /\ t \in Closing
    BY <2>1 DEF Inv, OwnerInv, ThreadInv
  <2>3. /\ pc' \in [Threads -> Labels]
        /\ \A th \in Threads : pc'[th] = IF th = t THEN "none" ELSE pc[th]
    BY <2>1 DEF Inv, TypeOK, Labels, TaskLabel
  <2>4. TypeOK' /\ LabelInv'
    BY <2>1, <2>3 DEF Inv, TypeOK, LabelInv, Labels, TaskLabel
  <2>5. CountInv' /\ OwnerInv'
    BY <2>1, <2>2, <2>3 DEF Inv, CountInv, OwnerInv, TaskHolds, IsrHolds
  <2>6. QueueInv' /\ ThreadInv'
    BY <2>1, <2>2, <2>3 DEF Inv, TypeOK, QueueInv, Queued, ThreadInv
  <2> QED
    BY <2>4, <2>5, <2>6 DEF Inv
<1> QED
  BY <1>1, <1>2

\* A thread is made for a new task.
LEMMA CreateStep ==
  ASSUME Inv, NEW t \in Tasks, NEW u \in Tasks, InitialiseStack(t, u) PROVE Inv'
<1> USE PortAssumption
    DEF Threads, Generators, kernelVars, threadVars, mutexVars, eventVars, portVars
<1>1. /\ pc[t] = "run" /\ pc[u] = "none" /\ pc' = [pc EXCEPT ![u] = "run"]
      /\ Suspended' = Suspended \cup {u} /\ Closing' = Closing \ {u}
      /\ pvYieldEvent' = [pvYieldEvent EXCEPT ![u] = FALSE]
      /\ UNCHANGED <<Removed, toDelete, victim, kernelVars, mutexVars, pvInterruptEvent, portVars>>
  BY DEF InitialiseStack, Running, At, Goto
<1>2. t = CurrentTCB /\ u # t /\ ~Queued(u) /\ mutexOwner # u /\ victim[u] \in Tasks \cup {Nobody}
  BY <1>1, RunsTask, HoldingValues
     DEF InitialiseStack, Running, At, Inv, TypeOK, ThreadInv, QueueInv, OwnerInv
<1>3. /\ pc' \in [Threads -> Labels]
      /\ \A th \in Threads : pc'[th] = IF th = u THEN "run" ELSE pc[th]
  BY <1>1 DEF Inv, TypeOK, Labels, TaskLabel
<1>4. TypeOK' /\ LabelInv'
  BY <1>1, <1>3 DEF Inv, TypeOK, LabelInv, Labels, TaskLabel
<1>5. CountInv' /\ OwnerInv'
  BY <1>1, <1>2, <1>3 DEF Inv, CountInv, OwnerInv, TaskHolds, IsrHolds
<1>6. QueueInv' /\ ThreadInv'
  BY <1>1, <1>2, <1>3 DEF Inv, TypeOK, QueueInv, Queued, ThreadInv
<1> QED
  BY <1>4, <1>5, <1>6 DEF Inv

\* In a critical section a task removes another or itself, or stops the scheduler.
LEMMA SectionStep ==
  ASSUME Inv, NEW t \in Tasks, Remove(t) \/ CloseRunningThread(t) \/ EndScheduler(t)
  PROVE Inv'
<1> USE PortAssumption
    DEF Threads, Generators, kernelVars, threadVars, mutexVars, eventVars, portVars
<1>1. /\ ~Queued(t) /\ t \notin Suspended /\ mutexOwner = t
      /\ pc[t] \in {"run", "entered"} /\ t \notin Closing /\ t = CurrentTCB
  <2>1. Scheduled(t) /\ (pc[t] = "entered" \/ (pc[t] = "run" /\ mutexOwner = t))
    <3>1. CASE Remove(t)
      BY <3>1 DEF Remove, At
    <3>2. CASE CloseRunningThread(t)
      BY <3>2 DEF CloseRunningThread, At
    <3>3. CASE EndScheduler(t)
      BY <3>3 DEF EndScheduler, Running, At
    <3> QED
      BY <3>1, <3>2, <3>3
  <2> QED
    BY <2>1, RunsTask DEF Inv, ThreadInv, OwnerInv, TaskHolds
<1>2. CASE Remove(t) \/ CloseRunningThread(t)
  <2>1. /\ pc[t] = "entered" /\ pc' = [pc EXCEPT ![t] = "leave"]
        /\ ulCriticalNesting' = ulCriticalNesting + 1
        /\ toDelete' = [toDelete EXCEPT ![t] = Nobody]
        /\ UNCHANGED <<Suspended, CurrentTCB, mutexVars, eventVars, ulPendingInterrupts,
                       xInsideInterrupt, xPortRunning>>
    <3>1. CASE Remove(t)
      BY <3>1 DEF Remove, At, Goto
    <3>2. CASE CloseRunningThread(t)
      BY <3>2 DEF CloseRunningThread, At, Goto
    <3> QED
      BY <1>2, <3>1, <3>2
  <2>2. /\ ulCriticalNesting \in Nat /\ ulCriticalNesting < MaxNesting
        /\ mutexCount = ulCriticalNesting + 1
    BY <1>1, <2>1 DEF Inv, TypeOK, CountInv, TaskHolds
  <2>3. \/ /\ Removed' = Removed /\ victim' = victim
           /\ Closing' = Closing \cup {t} /\ PendYield' = TRUE /\ ulCriticalNesting = 0
        \/ /\ Closing' = Closing /\ PendYield' = PendYield
           /\ \E u \in Suspended \ Removed :
                Removed' = Removed \cup {u} /\ victim' = [victim EXCEPT ![t] = u]
    <3>1. CASE Remove(t)
      <4> DEFINE u == toDelete[t]
      <4>1. /\ u \in Tasks \ {t} /\ pc[u] # "none" /\ u \notin Closing \cup Removed
            /\ Removed' = Removed \cup {u} /\ victim' = [victim EXCEPT ![t] = u]
            /\ Closing' = Closing /\ PendYield' = PendYield
        BY <3>1 DEF Remove, Selectable
      <4> HIDE DEF u
      <4>2. u \in Suspended
        BY <1>1, <4>1 DEF Inv, ThreadInv
      <4> QED
        BY <4>1, <4>2
    <3>2. CASE CloseRunningThread(t)
      BY <3>2 DEF CloseRunningThread
    <3> QED
      BY <1>2, <3>1, <3>2
  <2>4. /\ pc' \in [Threads -> Labels]
        /\ \A th \in Threads : pc'[th] = IF th = t THEN "leave" ELSE pc[th]
        /\ toDelete' \in [Tasks -> Tasks \cup {Nobody}]
    BY <2>1 DEF Inv, TypeOK, Labels, TaskLabel
  <2>5. TypeOK' /\ LabelInv'
    <3>1. /\ Removed' \subseteq Tasks /\ Closing' \subseteq Tasks /\ PendYield' \in BOOLEAN
          /\ victim' \in [Tasks -> Tasks \cup {Nobody}]
          /\ ulCriticalNesting' \in 0 .. MaxNesting
      <4>1. ulCriticalNesting' \in 0 .. MaxNesting
        BY <2>1, <2>2
      <4>2. /\ Removed \subseteq Tasks /\ Closing \subseteq Tasks /\ PendYield \in BOOLEAN
            /\ victim \in [Tasks -> Tasks \cup {Nobody}] /\ Suspended \subseteq Tasks
        BY DEF Inv, TypeOK
      <4>3. CASE Removed' = Removed /\ victim' = victim
        BY <2>3, <4>1, <4>2, <4>3
      <4>4. ASSUME NEW u \in Suspended, Removed' = Removed \cup {u},
                   victim' = [victim EXCEPT ![t] = u], Closing' = Closing,
                   PendYield' = PendYield
            PROVE  /\ Removed' \subseteq Tasks /\ Closing' \subseteq Tasks
                   /\ PendYield' \in BOOLEAN
                   /\ victim' \in [Tasks -> Tasks \cup {Nobody}]
        BY <4>2, <4>4
      <4> QED
        BY <2>3, <4>1, <4>3, <4>4
    <3> QED
      BY <2>1, <2>4, <3>1 DEF Inv, TypeOK, LabelInv, Labels, TaskLabel
  <2>6. CountInv' /\ OwnerInv'
    <3>1. t \in Closing' => ulCriticalNesting' = 1
      BY <1>1, <2>1, <2>3
    <3>2. CountInv'
      BY <1>1, <2>1, <2>2, <2>4, <3>1 DEF Inv, TypeOK, CountInv, TaskHolds
    <3>3. OwnerInv'
      BY <1>1, <2>1, <2>4 DEF Inv, OwnerInv, TaskHolds, IsrHolds
    <3> QED
      BY <3>2, <3>3
  <2>7. QueueInv' /\ ThreadInv'
    <3>1. QueueInv'
      BY <1>1, <2>1, <2>3, <2>4 DEF Inv, QueueInv, Queued
    <3>2. ASSUME Closing' = Closing \cup {t}, Removed' = Removed, victim' = victim
          PROVE  ThreadInv'
      <4>1. ThreadInv /\ t \in Tasks /\ pc'[t] = "leave"
            /\ \A v \in Tasks \ {t} : pc'[v] = pc[v] /\ (v \in Closing' <=> v \in Closing)
        BY <2>4, <3>2 DEF Inv
      <4>2. CurrentTCB' = t /\ Suspended' = Suspended /\ t \notin Suspended
        BY <1>1, <2>1
      <4>3. \A v \in Tasks :
              /\ pc'[v] # "none" => v = t \/ v \in Suspended \cup Closing'
              /\ v \in Suspended => pc'[v] # "none" /\ v \notin Closing'
              /\ v \in Closing'
                   => pc'[v] \in {"leave", "await", "close", "closing", "exit", "none"}
              /\ pc'[v] \in {"close", "closing", "exit"} => v \in Closing'
              /\ v \in Removed => v \in Suspended
              /\ victim[v] # Nobody => victim[v] \in Removed
              /\ pc'[v] \in {"delete", "deleting"} => victim[v] # Nobody
        BY <1>1, <3>2, <4>1, <4>2 DEF ThreadInv
      <4> QED
        BY <3>2, <4>1, <4>2, <4>3 DEF ThreadInv
    <3>3. ASSUME Closing' = Closing, NEW u \in Suspended \ Removed,
                 Removed' = Removed \cup {u}, victim' = [victim EXCEPT ![t] = u]
          PROVE  ThreadInv'
      <4>1. \A v \in Tasks : victim'[v] = IF v = t THEN u ELSE victim[v]
        BY <3>3 DEF Inv, TypeOK
      <4> QED
        BY <1>1, <2>1, <2>4, <3>3, <4>1 DEF Inv, TypeOK, ThreadInv
    <3> QED
      BY <2>3, <3>1, <3>2, <3>3
  <2> QED
    BY <2>5, <2>6, <2>7 DEF Inv
<1>3. CASE EndScheduler(t)
  <2>0. /\ xPortRunning' = FALSE
        /\ UNCHANGED <<pc, threadVars, CurrentTCB, PendYield, mutexVars, eventVars,
                       ulPendingInterrupts, ulCriticalNesting, xInsideInterrupt>>
    BY <1>3 DEF EndScheduler
  <2>1a. TypeOK' /\ LabelInv'
    BY <2>0 DEF Inv, TypeOK, LabelInv
  <2>1b. CountInv' /\ OwnerInv'
    BY <2>0 DEF Inv, CountInv, OwnerInv
  <2>1. TypeOK' /\ LabelInv' /\ CountInv' /\ OwnerInv'
    BY <2>1a, <2>1b
  <2>2. QueueInv' /\ ThreadInv'
    BY <1>3 DEF EndScheduler, Inv, QueueInv, Queued, ThreadInv
  <2> QED
    BY <2>1, <2>2 DEF Inv
<1> QED
  BY <1>2, <1>3

\* A step of other threads that hands the mutex over.
LEMMA ThreadHands ==
  ASSUME Inv, mutexCount = 1, ulCriticalNesting' = 0,
         UNCHANGED <<threadVars, CurrentTCB, xInsideInterrupt>>,
         NEW moved \in [Threads -> Labels], NEW signalled \in BOOLEAN,
         ReleaseMutex(moved, signalled),
         \A th \in Threads : Queued(th) => moved[th] = pc[th],
         \A t \in Tasks : moved[t] = pc[t], mutexOwner \notin Tasks,
         moved[Isr] \in IsrLabel \ IsrHolds,
         \A g \in Generators : moved[g] \in GeneratorLabel \ {"generating"}
  PROVE  /\ pc' \in [Threads -> Labels]
         /\ mutexOwner' \in Threads \cup {Nobody} /\ mutexCount' \in {0, 1}
         /\ mutexQueue' \in Seq(Threads) /\ pvInterruptEvent' \in BOOLEAN
         /\ LabelInv' /\ CountInv' /\ OwnerInv' /\ QueueInv' /\ ThreadInv'
<1> USE PortAssumption DEF threadVars
<1>1. \A t \in Tasks : moved[t] \in TaskLabel \ (TaskHolds \cup {"leave"})
  BY DEF Inv, LabelInv, OwnerInv
<1>2. HandedOver(moved)
  BY <1>1, HandOff
<1>3. LabelInv'
  <2>1. pc'[Isr] \in IsrLabel
        /\ pc'[Isr] \notin {"handlers", "nested", "handled", "switch", "signal"}
    BY <1>2 DEF HandedOver, IsrLabel, IsrHolds
  <2> QED
    BY <1>2, <2>1 DEF HandedOver, LabelInv
<1>4. ThreadInv'
  BY <1>2 DEF HandedOver, Inv, TypeOK, ThreadInv
<1> QED
  BY <1>2, <1>3, <1>4 DEF HandedOver

\* An interrupt is pended from outside.
LEMMA PendStep == ASSUME Inv, NEW g \in Generators, PendFromWindows(g) PROVE Inv'
<1> USE PortAssumption DEF threadVars, kernelVars
<1> DEFINE moved == [pc EXCEPT ![g] = "idle"]
<1>1. /\ pc[g] = "generating" /\ ulPendingInterrupts' = ulPendingInterrupts \cup {GeneratedBy(g)}
      /\ ReleaseMutex(moved, TRUE)
      /\ UNCHANGED <<threadVars, kernelVars, pvYieldEvent, ulCriticalNesting, xInsideInterrupt,
                     xPortRunning>>
  BY DEF PendFromWindows, At
<1>2. mutexOwner = g /\ mutexCount = 1 /\ ulCriticalNesting' = 0 /\ mutexOwner \notin Tasks
  BY <1>1 DEF Inv, OwnerInv, CountInv, Generators
<1>3. /\ moved \in [Threads -> Labels]
      /\ \A th \in Threads : moved[th] = IF th = g THEN "idle" ELSE pc[th]
  BY DEF Inv, TypeOK, Labels, GeneratorLabel, Generators, Threads
<1> HIDE DEF moved
<1>4. /\ \A th \in Threads : Queued(th) => moved[th] = pc[th]
      /\ \A t \in Tasks : moved[t] = pc[t]
      /\ moved[Isr] \in IsrLabel \ IsrHolds
      /\ \A h \in Generators : moved[h] \in GeneratorLabel \ {"generating"}
  BY <1>2, <1>3
     DEF Inv, QueueInv, LabelInv, OwnerInv, Threads, Generators, GeneratorLabel
<1>5. /\ pc' \in [Threads -> Labels]
      /\ mutexOwner' \in Threads \cup {Nobody} /\ mutexCount' \in {0, 1}
      /\ mutexQueue' \in Seq(Threads) /\ pvInterruptEvent' \in BOOLEAN
      /\ LabelInv' /\ CountInv' /\ OwnerInv' /\ QueueInv' /\ ThreadInv'
  BY <1>1, <1>2, <1>3, <1>4, ThreadHands
<1>6. ulPendingInterrupts' \subseteq Interrupts
  BY <1>1 DEF Inv, TypeOK, GeneratedBy, Interrupts
<1> QED
  BY <1>1, <1>5, <1>6 DEF Inv, TypeOK, Labels

\* The interrupt thread sets the first tick pending, alone or while another thread pends one.
LEMMA FirstTickStep ==
  ASSUME Inv, SetFirstTick \/ \E g \in WindowsThreads : SetFirstTickRacing(g) PROVE Inv'
<1> USE PortAssumption DEF threadVars, kernelVars
<1>1. CASE SetFirstTick
  <2>1. /\ pc[Isr] = "start" /\ pc' = [pc EXCEPT ![Isr] = "loop"]
        /\ ulPendingInterrupts' = ulPendingInterrupts \cup {Tick} /\ pvInterruptEvent' = TRUE
        /\ UNCHANGED <<threadVars, kernelVars, mutexVars, pvYieldEvent, ulCriticalNesting,
                       xInsideInterrupt, xPortRunning>>
        /\ ~Queued(Isr)
    BY <1>1 DEF SetFirstTick, At, Goto, Scheduled, Blocked
  <2>2. /\ pc' \in [Threads -> Labels]
        /\ \A th \in Threads : pc'[th] = IF th = Isr THEN "loop" ELSE pc[th]
    BY <2>1 DEF Inv, TypeOK, Labels, IsrLabel, Threads
  <2>3. TypeOK' /\ LabelInv'
    BY <2>1, <2>2 DEF Inv, TypeOK, LabelInv, Labels, IsrLabel, Interrupts, mutexVars,
                      Threads, Generators
  <2>4. CountInv' /\ OwnerInv'
    BY <2>1, <2>2 DEF Inv, CountInv, OwnerInv, IsrHolds, mutexVars, Threads, Generators
  <2>5. QueueInv' /\ ThreadInv'
    BY <2>1, <2>2 DEF Inv, TypeOK, QueueInv, Queued, ThreadInv, mutexVars, Threads
  <2> QED
    BY <2>3, <2>4, <2>5 DEF Inv
<1>2. ASSUME NEW g \in WindowsThreads, SetFirstTickRacing(g) PROVE Inv'
  <2> DEFINE moved == [pc EXCEPT ![Isr] = "loop", ![g] = "idle"]
  <2>1. /\ pc[g] = "generating" /\ pc[Isr] = "start" /\ ReleaseMutex(moved, TRUE)
        /\ \E i \in {Tick, GeneratedBy(g)} :
             ulPendingInterrupts' = ulPendingInterrupts \cup {i}
        /\ UNCHANGED <<threadVars, kernelVars, pvYieldEvent, ulCriticalNesting,
                       xInsideInterrupt, xPortRunning>>
        /\ ~Queued(Isr)
    BY <1>2 DEF SetFirstTickRacing, At, Scheduled, Blocked
  <2>2. mutexOwner = g /\ mutexCount = 1 /\ ulCriticalNesting' = 0 /\ mutexOwner \notin Tasks
        /\ g \in Generators /\ g # Isr
    BY <2>1 DEF Inv, OwnerInv, CountInv, Generators
  <2>3. /\ moved \in [Threads -> Labels]
        /\ \A th \in Threads :
             moved[th] = IF th = g THEN "idle" ELSE IF th = Isr THEN "loop" ELSE pc[th]
    BY <2>2 DEF Inv, TypeOK, Labels, GeneratorLabel, IsrLabel, Generators, Threads
  <2> HIDE DEF moved
  <2>4. /\ \A th \in Threads : Queued(th) => moved[th] = pc[th]
        /\ \A t \in Tasks : moved[t] = pc[t]
        /\ moved[Isr] \in IsrLabel \ IsrHolds
        /\ \A h \in Generators : moved[h] \in GeneratorLabel \ {"generating"}
    BY <2>1, <2>2, <2>3
       DEF Inv, QueueInv, LabelInv, OwnerInv, Threads, Generators, GeneratorLabel, IsrLabel,
           IsrHolds
  <2>5. /\ pc' \in [Threads -> Labels]
        /\ mutexOwner' \in Threads \cup {Nobody} /\ mutexCount' \in {0, 1}
        /\ mutexQueue' \in Seq(Threads) /\ pvInterruptEvent' \in BOOLEAN
        /\ LabelInv' /\ CountInv' /\ OwnerInv' /\ QueueInv' /\ ThreadInv'
    BY <2>1, <2>2, <2>3, <2>4, ThreadHands
  <2>6. ulPendingInterrupts' \subseteq Interrupts
    BY <2>1 DEF Inv, TypeOK, GeneratedBy, Interrupts
  <2> QED
    BY <2>1, <2>5, <2>6 DEF Inv, TypeOK, Labels
<1> QED
  BY <1>1, <1>2

-----------------------------------------------------------------------------
(* The steps of the interrupt thread. *)

\* The interrupt thread waits for the mutex and the event, or gives up.
LEMMA IsrWaits == ASSUME Inv, WaitForInterrupt \/ WaitTimesOut PROVE Inv'
<1> USE PortAssumption
    DEF Threads, Generators, threadVars, kernelVars, eventVars, portVars
<1>1. CASE WaitForInterrupt /\ mutexOwner = Nobody /\ pvInterruptEvent
  <2>1. /\ pc[Isr] = "loop" /\ ~Queued(Isr) /\ pc' = [pc EXCEPT ![Isr] = "interrupted"]
        /\ mutexOwner' = Isr /\ mutexCount' = 1 /\ mutexQueue' = mutexQueue
        /\ pvInterruptEvent' = FALSE /\ xInsideInterrupt' = FALSE
        /\ UNCHANGED <<threadVars, kernelVars, pvYieldEvent, ulPendingInterrupts,
                       ulCriticalNesting, xPortRunning>>
    BY <1>1 DEF WaitForInterrupt, At, Scheduled, Blocked, Goto
  <2>2. /\ pc' \in [Threads -> Labels]
        /\ \A th \in Threads : pc'[th] = IF th = Isr THEN "interrupted" ELSE pc[th]
    BY <2>1 DEF Inv, TypeOK, Labels, IsrLabel
  <2>3. TypeOK' /\ LabelInv'
    <3>1. mutexOwner' \in Threads /\ mutexCount' \in 0 .. MaxNesting + 1
      BY <2>1
    <3>2. TypeOK'
      BY <2>1, <2>2, <3>1 DEF Inv, TypeOK, Labels
    <3>3. LabelInv'
      BY <2>1, <2>2 DEF Inv, LabelInv, IsrLabel
    <3> QED
      BY <3>2, <3>3
  <2>4. CountInv' /\ OwnerInv'
    BY <1>1, <2>1, <2>2 DEF Inv, CountInv, OwnerInv, IsrHolds
  <2>5. QueueInv' /\ ThreadInv'
    BY <1>1, <2>1, <2>2 DEF Inv, TypeOK, QueueInv, Queued, ThreadInv
  <2> QED
    BY <2>3, <2>4, <2>5 DEF Inv
<1>2. CASE WaitForInterrupt /\ ~(mutexOwner = Nobody /\ pvInterruptEvent)
  <2>1. /\ pc[Isr] = "loop" /\ ~In(Isr, mutexQueue) /\ pc' = [pc EXCEPT ![Isr] = "wait"]
        /\ mutexQueue' = Append(mutexQueue, Isr) /\ xInsideInterrupt' = FALSE
        /\ UNCHANGED <<mutexOwner, mutexCount, threadVars, kernelVars, eventVars,
                       ulPendingInterrupts, ulCriticalNesting, xPortRunning>>
    BY <1>2 DEF WaitForInterrupt, At, Scheduled, Blocked, Goto, Queued, In
  <2>2. /\ mutexQueue' \in Seq(Threads) /\ Distinct(mutexQueue')
        /\ \A u : In(u, mutexQueue') <=> In(u, mutexQueue) \/ u = Isr
    BY <2>1, AppendOne DEF Inv, TypeOK, QueueInv
  <2>3. /\ pc' \in [Threads -> Labels]
        /\ \A th \in Threads : pc'[th] = IF th = Isr THEN "wait" ELSE pc[th]
    BY <2>1 DEF Inv, TypeOK, Labels, IsrLabel
  <2>4. TypeOK' /\ LabelInv'
    BY <2>1, <2>2, <2>3 DEF Inv, TypeOK, LabelInv, Labels, IsrLabel
  <2>5. CountInv' /\ OwnerInv'
    BY <2>1, <2>3 DEF Inv, CountInv, OwnerInv, IsrHolds
  <2>6. QueueInv'
    <3>1. \A th \in Threads : Queued(th)' => Queued(th) \/ th = Isr
      BY <2>2 DEF In, Queued
    <3> QED
      BY <2>1, <2>2, <2>3, <2>5, <3>1, HoldingValues
         DEF Inv, QueueInv, Distinct, OwnerInv, IsrHolds
  <2>7. ThreadInv'
    BY <2>1, <2>3 DEF Inv, TypeOK, ThreadInv
  <2> QED
    BY <2>4, <2>5, <2>6, <2>7 DEF Inv
<1>3. CASE WaitTimesOut
  <2>1. /\ pc[Isr] = "wait" /\ pc' = [pc EXCEPT ![Isr] = "loop"]
        /\ mutexQueue' = Without(mutexQueue, Isr)
        /\ UNCHANGED <<threadVars, kernelVars, mutexOwner, mutexCount, eventVars, portVars>>
    BY <1>3 DEF WaitTimesOut, Goto
  <2>2. /\ mutexQueue' \in Seq(Threads) /\ Distinct(mutexQueue')
        /\ \A u : In(u, mutexQueue') <=> In(u, mutexQueue) /\ u # Isr
    BY <2>1, WithoutAny DEF Inv, TypeOK, QueueInv
  <2>3. /\ pc' \in [Threads -> Labels]
        /\ \A th \in Threads : pc'[th] = IF th = Isr THEN "loop" ELSE pc[th]
    BY <2>1 DEF Inv, TypeOK, Labels, IsrLabel
  <2>4. TypeOK' /\ LabelInv'
    BY <2>1, <2>2, <2>3 DEF Inv, TypeOK, LabelInv, Labels, IsrLabel
  <2>5. CountInv' /\ OwnerInv'
    BY <2>1, <2>3 DEF Inv, CountInv, OwnerInv, IsrHolds
  <2>6. QueueInv'
    <3>1. \A th \in Threads : Queued(th)' => Queued(th) /\ th # Isr
      BY <2>2 DEF In, Queued
    <3> QED
      BY <2>1, <2>2, <2>3, <3>1 DEF Inv, QueueInv, Distinct
  <2>7. ThreadInv'
    BY <2>1, <2>3 DEF Inv, TypeOK, ThreadInv
  <2> QED
    BY <2>4, <2>5, <2>6, <2>7 DEF Inv
<1> QED
  BY <1>1, <1>2, <1>3

\* A step of the interrupt thread that gives nothing up and asks for nothing.
LEMMA IsrMoves ==
  ASSUME Inv, NEW label \in IsrLabel, pc' = [pc EXCEPT ![Isr] = label],
         UNCHANGED <<threadVars, CurrentTCB, mutexOwner, mutexQueue>>,
         pc[Isr] # "wait", label \in IsrHolds <=> pc[Isr] \in IsrHolds,
         label \in {"handlers", "nested", "handled", "switch", "signal"} => xInsideInterrupt',
         mutexOwner = Isr =>
           /\ ulCriticalNesting' = IF label = "nested" THEN 1 ELSE 0
           /\ mutexCount' = ulCriticalNesting' + 1,
         mutexOwner # Isr => UNCHANGED <<mutexCount, ulCriticalNesting>>
  PROVE  /\ pc' \in [Threads -> Labels] /\ mutexCount' \in 0 .. MaxNesting + 1
         /\ ulCriticalNesting' \in 0 .. MaxNesting
         /\ LabelInv' /\ CountInv' /\ OwnerInv' /\ QueueInv' /\ ThreadInv'
<1> USE PortAssumption DEF Threads, Generators, threadVars
<1>1. /\ pc' \in [Threads -> Labels]
      /\ \A th \in Threads : pc'[th] = IF th = Isr THEN label ELSE pc[th]
  BY DEF Inv, TypeOK, Labels, IsrLabel
<1>2. mutexCount' \in 0 .. MaxNesting + 1 /\ ulCriticalNesting' \in 0 .. MaxNesting
  BY DEF Inv, TypeOK
<1>3. LabelInv'
  BY <1>1 DEF Inv, LabelInv
<1>4. CountInv'
  BY <1>1 DEF Inv, CountInv
<1>5. OwnerInv'
  BY <1>1 DEF Inv, OwnerInv
<1>6. QueueInv'
  BY <1>1, HoldingValues DEF Inv, LabelInv, IsrLabel, QueueInv, Queued
<1>7. ThreadInv'
  BY <1>1 DEF Inv, TypeOK, ThreadInv
<1> QED
  BY <1>1, <1>2, <1>3, <1>4, <1>5, <1>6, <1>7

\* The interrupt thread starts and runs the handlers, or ends.
LEMMA IsrRuns ==
  ASSUME Inv, SchedulerEnded \/ Interrupted \/ HandlerEntersCritical \/ RunHandlers
  PROVE  Inv'
<1> USE PortAssumption
    DEF threadVars, kernelVars, mutexVars, eventVars, portVars, Goto
<1>1. CASE SchedulerEnded
  <2>1. /\ pc[Isr] = "loop" /\ pc' = [pc EXCEPT ![Isr] = "done"]
        /\ UNCHANGED <<threadVars, kernelVars, mutexVars, eventVars, portVars>>
    BY <1>1 DEF SchedulerEnded, At
  <2>2. mutexOwner # Isr
    BY <2>1 DEF Inv, OwnerInv, IsrHolds
  <2>3. /\ pc' \in [Threads -> Labels] /\ mutexCount' \in 0 .. MaxNesting + 1
        /\ ulCriticalNesting' \in 0 .. MaxNesting
        /\ LabelInv' /\ CountInv' /\ OwnerInv' /\ QueueInv' /\ ThreadInv'
    BY <2>1, <2>2, IsrMoves DEF IsrLabel, IsrHolds
  <2> QED
    BY <2>1, <2>3 DEF Inv, TypeOK, Labels
<1>2. CASE Interrupted
  <2>1. /\ pc[Isr] = "interrupted" /\ pc' = [pc EXCEPT ![Isr] = "handlers"]
        /\ xInsideInterrupt' = TRUE
        /\ UNCHANGED <<threadVars, kernelVars, mutexVars, eventVars, ulPendingInterrupts,
                       ulCriticalNesting, xPortRunning>>
    BY <1>2 DEF Interrupted, At
  <2>2. mutexOwner = Isr /\ ulCriticalNesting = 0 /\ mutexCount = 1
    BY <2>1 DEF Inv, OwnerInv, CountInv, IsrHolds
  <2>3. /\ pc' \in [Threads -> Labels] /\ mutexCount' \in 0 .. MaxNesting + 1
        /\ ulCriticalNesting' \in 0 .. MaxNesting
        /\ LabelInv' /\ CountInv' /\ OwnerInv' /\ QueueInv' /\ ThreadInv'
    BY <2>1, <2>2, IsrMoves DEF IsrLabel, IsrHolds
  <2> QED
    BY <2>1, <2>3 DEF Inv, TypeOK, Labels
<1>3. CASE HandlerEntersCritical
  <2>1. /\ pc[Isr] = "handlers" /\ pc' = [pc EXCEPT ![Isr] = "nested"]
        /\ mutexCount' = mutexCount + 1 /\ ulCriticalNesting' = ulCriticalNesting + 1
        /\ UNCHANGED <<threadVars, kernelVars, mutexOwner, mutexQueue, eventVars,
                       ulPendingInterrupts, xInsideInterrupt, xPortRunning>>
    BY <1>3 DEF HandlerEntersCritical, At
  <2>2. mutexOwner = Isr /\ ulCriticalNesting = 0 /\ mutexCount = 1 /\ xInsideInterrupt
    BY <2>1 DEF Inv, OwnerInv, CountInv, LabelInv, IsrHolds
  <2>3. /\ pc' \in [Threads -> Labels] /\ mutexCount' \in 0 .. MaxNesting + 1
        /\ ulCriticalNesting' \in 0 .. MaxNesting
        /\ LabelInv' /\ CountInv' /\ OwnerInv' /\ QueueInv' /\ ThreadInv'
    BY <2>1, <2>2, IsrMoves DEF IsrLabel, IsrHolds
  <2> QED
    BY <2>1, <2>3 DEF Inv, TypeOK, Labels
<1>4. CASE RunHandlers
  <2>1. PICK label \in {"switch", "signal"} :
          /\ pc[Isr] \in {"handlers", "handled"} /\ pc' = [pc EXCEPT ![Isr] = label]
          /\ ulPendingInterrupts' = {}
          /\ UNCHANGED <<threadVars, kernelVars, mutexVars, eventVars, ulCriticalNesting,
                         xInsideInterrupt, xPortRunning>>
    BY <1>4 DEF RunHandlers, At
  <2>2. mutexOwner = Isr /\ ulCriticalNesting = 0 /\ mutexCount = 1 /\ xInsideInterrupt
    BY <2>1 DEF Inv, OwnerInv, CountInv, LabelInv, IsrHolds
  <2>3. /\ pc' \in [Threads -> Labels] /\ mutexCount' \in 0 .. MaxNesting + 1
        /\ ulCriticalNesting' \in 0 .. MaxNesting
        /\ LabelInv' /\ CountInv' /\ OwnerInv' /\ QueueInv' /\ ThreadInv'
    <3>1. label \in IsrLabel /\ label \in IsrHolds /\ pc[Isr] \in IsrHolds /\ pc[Isr] # "wait"
          /\ label # "nested"
      BY <2>1 DEF IsrLabel, IsrHolds
    <3>2. UNCHANGED <<threadVars, CurrentTCB, mutexOwner, mutexQueue>> /\ xInsideInterrupt'
          /\ ulCriticalNesting' = 0 /\ mutexCount' = ulCriticalNesting' + 1
      BY <2>1, <2>2
    <3> QED
      BY <2>1, <2>2, <3>1, <3>2, IsrMoves
  <2> QED
    BY <2>1, <2>3 DEF Inv, TypeOK, Labels
<1> QED
  BY <1>1, <1>2, <1>3, <1>4

\* A handler's own critical section ends: it asks for no interrupt and keeps the mutex.
LEMMA HandlerExits ==
  ASSUME Inv, HandlerExitsCritical
  PROVE  /\ pc[Isr] = "nested" /\ pc' = [pc EXCEPT ![Isr] = "handled"]
         /\ ulCriticalNesting = 1 /\ ulCriticalNesting' = 0 /\ mutexOwner = Isr
         /\ mutexCount' = 1 /\ pvInterruptEvent' \in BOOLEAN
         /\ UNCHANGED <<threadVars, kernelVars, mutexOwner, mutexQueue, pvYieldEvent,
                        ulPendingInterrupts, xInsideInterrupt, xPortRunning>>
<1>1. pc[Isr] = "nested" /\ LeaveCritical(Isr, "handled")
  BY DEF HandlerExitsCritical, At
<1>2. mutexOwner = Isr /\ ulCriticalNesting = 1 /\ mutexCount = 2 /\ ~WaitsForInterrupt
  BY <1>1 DEF Inv, OwnerInv, CountInv, LabelInv, IsrHolds, WaitsForInterrupt
<1>3. /\ ulCriticalNesting' = 0 /\ pvYieldEvent' = pvYieldEvent
      /\ ReleaseMutex([pc EXCEPT ![Isr] = "handled"], pvInterruptEvent \/ FALSE)
      /\ UNCHANGED <<threadVars, kernelVars, ulPendingInterrupts, xInsideInterrupt,
                     xPortRunning>>
  BY <1>1, <1>2 DEF LeaveCritical
<1>4. (pvInterruptEvent \/ FALSE) \in BOOLEAN
  BY DEF Inv, TypeOK
<1>5. pvInterruptEvent' \in BOOLEAN /\ Keeps([pc EXCEPT ![Isr] = "handled"])
  <2> DEFINE moved == [pc EXCEPT ![Isr] = "handled"]
  <2>1. /\ pvInterruptEvent' \in BOOLEAN
        /\ Keeps(moved) \/ Frees(moved) \/ \E th \in Threads : HandsTo(th, moved)
    BY <1>3, <1>4, ReleaseCases DEF Inv
  <2> QED
    BY <1>2, <2>1 DEF Frees, HandsTo
<1> QED
  BY <1>1, <1>2, <1>3, <1>5 DEF Keeps

\* The end of a handler's critical section leaves the mutex with the interrupt thread.
LEMMA IsrExits == ASSUME Inv, HandlerExitsCritical PROVE Inv'
<1> USE DEF threadVars, kernelVars
<1>1. xInsideInterrupt
  BY HandlerExits DEF Inv, LabelInv
<1>2. /\ pc' \in [Threads -> Labels] /\ mutexCount' \in 0 .. MaxNesting + 1
      /\ ulCriticalNesting' \in 0 .. MaxNesting
      /\ LabelInv' /\ CountInv' /\ OwnerInv' /\ QueueInv' /\ ThreadInv'
  BY <1>1, HandlerExits, IsrMoves DEF IsrLabel, IsrHolds
<1> QED
  BY <1>2, HandlerExits DEF Inv, TypeOK, Labels

\* Another task is selected: of the others only those that end their own threads go on.
LEMMA SwitchStep == ASSUME Inv, SwitchContext PROVE Inv'
<1> USE PortAssumption DEF Threads, Generators, eventVars, portVars
<1>1. PICK t \in Selectable :
        /\ CurrentTCB' = t /\ Suspended' = (Suspended \cup SuspendedBySwitch) \ {t}
        /\ pc[Isr] = "switch" /\ pc' = [pc EXCEPT ![Isr] = "signal"] /\ PendYield' = FALSE
        /\ mutexQueue' = IF CurrentTCB \in Closing THEN mutexQueue
                                                   ELSE Without(mutexQueue, CurrentTCB)
        /\ UNCHANGED <<Closing, Removed, toDelete, victim, mutexOwner, mutexCount, eventVars,
                     portVars>>
  BY DEF SwitchContext, At, Goto
<1>2. t \in Tasks /\ pc[t] # "none" /\ t \notin Closing /\ t \notin Removed
  BY DEF Selectable
<1>3. /\ pc' \in [Threads -> Labels]
      /\ \A th \in Threads : pc'[th] = IF th = Isr THEN "signal" ELSE pc[th]
  BY <1>1 DEF Inv, TypeOK, Labels, IsrLabel
<1>4. mutexOwner = Isr
  BY <1>1 DEF Inv, OwnerInv, IsrHolds
<1>5. /\ mutexQueue' \in Seq(Threads) /\ Distinct(mutexQueue')
      /\ \A u \in Threads :
           In(u, mutexQueue') => In(u, mutexQueue) /\ (u = CurrentTCB => u \in Closing)
  BY <1>1, WithoutAny DEF Inv, TypeOK, QueueInv
<1>6. TypeOK' /\ LabelInv'
  <2>1. Suspended' \subseteq Tasks
    BY <1>1 DEF Inv, TypeOK, SuspendedBySwitch
  <2>2. TypeOK'
    BY <1>1, <1>2, <1>3, <1>5, <2>1 DEF Inv, TypeOK, Labels
  <2>3. LabelInv'
    BY <1>1, <1>3 DEF Inv, LabelInv, IsrLabel
  <2> QED
    BY <2>2, <2>3
<1>7. CountInv' /\ OwnerInv'
  BY <1>1, <1>3, <1>4 DEF Inv, CountInv, OwnerInv, IsrHolds
<1>8. QueueInv'
  <2>1. \A th \in Threads : Queued(th)' => Queued(th) /\ (th = CurrentTCB => th \in Closing)
    BY <1>5 DEF In, Queued
  <2> QED
    BY <1>1, <1>3, <1>5, <2>1, HoldingValues DEF Inv, QueueInv, Distinct
<1>9. ThreadInv'
  BY <1>1, <1>2, <1>3 DEF Inv, TypeOK, ThreadInv, SuspendedBySwitch
<1> QED
  BY <1>6, <1>7, <1>8, <1>9 DEF Inv

\* The current task is signalled and the mutex given up.
LEMMA SignalStep == ASSUME Inv, SignalCurrent PROVE Inv'
<1> USE PortAssumption DEF threadVars, kernelVars, portVars
<1> DEFINE moved == [pc EXCEPT ![Isr] = "loop"]
<1>1. /\ pc[Isr] = "signal" /\ pvYieldEvent' = [pvYieldEvent EXCEPT ![CurrentTCB] = TRUE]
      /\ ReleaseMutex(moved, pvInterruptEvent)
      /\ UNCHANGED <<threadVars, kernelVars, portVars>>
  BY DEF SignalCurrent, At
<1>2. mutexOwner = Isr /\ mutexCount = 1 /\ ulCriticalNesting' = 0 /\ mutexOwner \notin Tasks
  BY <1>1 DEF Inv, OwnerInv, CountInv, IsrHolds
<1>3. /\ moved \in [Threads -> Labels]
      /\ \A th \in Threads : moved[th] = IF th = Isr THEN "loop" ELSE pc[th]
  BY DEF Inv, TypeOK, Labels, IsrLabel, Threads
<1> HIDE DEF moved
<1>4. /\ \A th \in Threads : Queued(th) => moved[th] = pc[th]
      /\ \A t \in Tasks : moved[t] = pc[t]
      /\ moved[Isr] \in IsrLabel \ IsrHolds
      /\ \A h \in Generators : moved[h] \in GeneratorLabel \ {"generating"}
  BY <1>2, <1>3
     DEF Inv, QueueInv, LabelInv, OwnerInv, Threads, Generators, IsrLabel, IsrHolds
<1>5. pvInterruptEvent \in BOOLEAN /\ pvYieldEvent' \in [Tasks -> BOOLEAN]
  BY <1>1 DEF Inv, TypeOK
<1>6. /\ pc' \in [Threads -> Labels]
      /\ mutexOwner' \in Threads \cup {Nobody} /\ mutexCount' \in {0, 1}
      /\ mutexQueue' \in Seq(Threads) /\ pvInterruptEvent' \in BOOLEAN
      /\ LabelInv' /\ CountInv' /\ OwnerInv' /\ QueueInv' /\ ThreadInv'
  BY <1>1, <1>2, <1>3, <1>4, <1>5, ThreadHands
<1> QED
  BY <1>1, <1>5, <1>6 DEF Inv, TypeOK, Labels

-----------------------------------------------------------------------------
(* The invariant, and what follows from it. *)

\* The invariant holds when the scheduler starts, ...
LEMMA InvInit == Init => Inv
<1> SUFFICES ASSUME Init PROVE Inv
  OBVIOUS
<1> USE PortAssumption DEF Threads, Generators
<1>1. pc = [th \in Threads |-> CASE th = Isr -> "start"
                                 [] th \in Tasks -> IF th = First THEN "run" ELSE "none"
                                 [] OTHER -> "idle"]
  BY DEF Init
<1>2. pc[Isr] = "start"
  BY <1>1
<1>3. \A t \in Tasks : pc[t] = IF t = First THEN "run" ELSE "none"
  BY <1>1
<1>4. \A g \in Generators : pc[g] = "idle"
  BY <1>1
<1>5. pc \in [Threads -> Labels]
  BY <1>1, <1>2, <1>3, <1>4 DEF Labels, TaskLabel, IsrLabel, GeneratorLabel
<1>6. TypeOK
  <2>1. mutexQueue \in Seq(Threads) /\ mutexOwner \in Threads \cup {Nobody}
    BY DEF Init
  <2>2. mutexCount \in 0 .. MaxNesting + 1 /\ ulCriticalNesting \in 0 .. MaxNesting
    BY DEF Init
  <2> QED
    BY <1>5, <2>1, <2>2 DEF Init, TypeOK, Labels
<1>7. LabelInv /\ CountInv /\ OwnerInv
  BY <1>2, <1>3, <1>4
     DEF Init, LabelInv, CountInv, OwnerInv, TaskLabel, IsrLabel, GeneratorLabel, IsrHolds,
         TaskHolds
<1>8. QueueInv /\ ThreadInv
  BY <1>3 DEF Init, QueueInv, Queued, Distinct, ThreadInv
<1> QED
  BY <1>6, <1>7, <1>8 DEF Inv

\* ... every step of every thread keeps it, ...
LEMMA InvStep == Inv /\ [Next]_vars => Inv'
<1> SUFFICES ASSUME Inv, [Next]_vars PROVE Inv'
  OBVIOUS
<1>1. ASSUME NEW t \in Tasks, TaskStep(t) PROVE Inv'
  BY <1>1, WaitStep, EnteredStep, SectionStep, ExitStep, PendingStep, TaskQuiet, DeleteStep,
     CloseStep
     DEF TaskStep
<1>2. ASSUME NEW t \in Tasks, TaskCall(t) PROVE Inv'
  BY <1>2, TaskQuiet, SectionStep, CreateStep DEF TaskCall
<1>3. CASE IsrStep
  BY <1>3, FirstTickStep, IsrWaits, IsrRuns, IsrExits, SwitchStep, SignalStep DEF IsrStep
<1>4. ASSUME NEW g \in Generators, Wake(g) \/ GeneratorStep(g) PROVE Inv'
  BY <1>4, WakeStep, WaitStep, PendStep DEF GeneratorStep
<1>5. ASSUME NEW g \in WindowsThreads, SetFirstTickRacing(g) PROVE Inv'
  BY <1>5, FirstTickStep
<1>6. CASE UNCHANGED vars
  <2>1. TypeOK' /\ LabelInv' /\ CountInv' /\ OwnerInv'
    BY <1>6 DEF vars, threadVars, kernelVars, mutexVars, eventVars, portVars, Inv, TypeOK,
                LabelInv, CountInv, OwnerInv
  <2>2. QueueInv' /\ ThreadInv'
    BY <1>6 DEF vars, threadVars, kernelVars, mutexVars, eventVars, portVars, Inv, QueueInv,
                Queued, ThreadInv
  <2> QED
    BY <2>1, <2>2 DEF Inv
<1> QED
  BY <1>1, <1>2, <1>3, <1>4, <1>5, <1>6 DEF Next, Stopped

\* ... and so it holds always.
LEMMA Invariance == Spec => []Inv
  BY InvInit, InvStep, PTL DEF Spec

\* Every variable keeps its type: the critical nesting and the count of the mutex never wrap.
THEOREM TypeCorrect == Spec => []TypeOK
<1>1. Inv => TypeOK
  BY DEF Inv
<1> QED
  BY Invariance, <1>1, PTL

\* The interrupt thread processes interrupts only with the mutex, taken once, and outside of
\* critical sections; and a task that has the mutex is there to release it.
THEOREM MutexIsSound == Spec => []MutexSound
<1>1. Inv => MutexSound
  <2> SUFFICES ASSUME Inv PROVE NotInCriticalSection /\ OwnerCanRelease
    BY DEF MutexSound
  <2>1. NotInCriticalSection
    BY DEF Inv, OwnerInv, CountInv, IsrHolds, NotInCriticalSection
  <2>2. OwnerCanRelease
    BY DEF Inv, TypeOK, OwnerInv, ThreadInv, OwnerCanRelease
  <2> QED
    BY <2>1, <2>2
<1> QED
  BY Invariance, <1>1, PTL

-----------------------------------------------------------------------------
(* The threads are one processor. *)

\* Where a task is that asked for an interrupt.
Asking == {"recheck", "await"}

\* A request is seen in where the tasks and the interrupt thread are; giving the mutex to a
\* thread that waits for it changes neither.
LEMMA ReleaseView ==
  ASSUME Inv, NEW moved \in [Threads -> Labels], NEW signalled \in BOOLEAN,
         ReleaseMutex(moved, signalled),
         \A th \in Threads : Queued(th) => moved[th] = pc[th]
  PROVE  /\ \A t \in Tasks : pc'[t] \in Asking <=> moved[t] \in Asking
         /\ pc'[Isr] = "signal" <=> moved[Isr] = "signal"
         /\ mutexCount > 1 => mutexOwner' = mutexOwner
<1> USE DEF Threads
<1>1. Keeps(moved) \/ Frees(moved) \/ \E th \in Threads : HandsTo(th, moved)
  BY ReleaseCases DEF Inv
<1>2. CASE Keeps(moved) \/ Frees(moved)
  BY <1>2 DEF Keeps, Frees, Inv, TypeOK
<1>3. ASSUME NEW th \in Threads, HandsTo(th, moved)
      PROVE  /\ \A t \in Tasks : pc'[t] \in Asking <=> moved[t] \in Asking
             /\ pc'[Isr] = "signal" <=> moved[Isr] = "signal"
             /\ mutexCount <= 1
  <2>1. moved[th] \in DOMAIN Holding /\ mutexCount <= 1
    BY <1>3 DEF HandsTo, In, Queued, Inv, QueueInv
  <2>2. \A u \in Threads : pc'[u] = IF u = th THEN Holding[moved[th]] ELSE moved[u]
    BY <1>3 DEF HandsTo
  <2> QED
    BY <2>1, <2>2, HoldingValues DEF Asking
<1> QED
  BY <1>1, <1>2, <1>3 DEF Inv, TypeOK, Keeps, Frees

\* A step that changes nothing of what the processor is seen by.
LEMMA Stutters ==
  ASSUME CurrentTCB' = CurrentTCB, Holder' = Holder,
         \A t \in Tasks : Request(t)' = Request(t)
  PROVE  UNCHANGED Processor!vars
  BY DEF Processor!vars

\* The interrupt thread signals only with the mutex.
LEMMA NoSignal == ASSUME Inv, mutexOwner # Isr PROVE pc[Isr] # "signal"
  BY DEF Inv, OwnerInv, IsrHolds

Refines == Processor!Next \/ UNCHANGED Processor!vars

\* A step that moves one thread, which asks for nothing before or after it.
LEMMA MoveStutters ==
  ASSUME Inv, NEW th \in Threads, NEW label, pc' = [pc EXCEPT ![th] = label],
         UNCHANGED <<CurrentTCB, Closing, pvYieldEvent>>, Holder' = Holder,
         pc[th] \notin Asking \cup {"signal"}, label \notin Asking \cup {"signal"}
  PROVE  Refines
<1>1. \A u \in Threads : pc'[u] = IF u = th THEN label ELSE pc[u]
  BY DEF Inv, TypeOK
<1>2. \A t \in Tasks : Request(t)' = Request(t)
  BY <1>1 DEF Request, Asking, Threads
<1> QED
  BY <1>2, Stutters DEF Refines

\* A step that gives the mutex up outside of critical sections and asks for nothing.
LEMMA ReleaseStutters ==
  ASSUME Inv, mutexOwner # Isr, UNCHANGED <<CurrentTCB, Closing, pvYieldEvent>>,
         ulCriticalNesting = 0, ulCriticalNesting' = 0,
         NEW moved \in [Threads -> Labels], NEW signalled \in BOOLEAN,
         ReleaseMutex(moved, signalled),
         \A th \in Threads : Queued(th) => moved[th] = pc[th],
         \A t \in Tasks : moved[t] \in Asking <=> pc[t] \in Asking, moved[Isr] # "signal"
  PROVE  Refines
<1>1. /\ \A t \in Tasks : pc'[t] \in Asking <=> pc[t] \in Asking
      /\ pc'[Isr] # "signal" /\ pc[Isr] # "signal"
  BY ReleaseView, NoSignal
<1>2. Holder = Nobody /\ Holder' = Nobody
  BY DEF Holder
<1>3. \A t \in Tasks : Request(t)' = Request(t)
  BY <1>1, <1>2 DEF Request, Asking
<1> QED
  BY <1>2, <1>3, Stutters DEF Refines

\* Entering a critical section is Enter, or nothing if it is nested.
LEMMA EnteredRefines ==
  ASSUME Inv, NEW t \in Tasks, Entered(t) \/ Remove(t) \/ CloseRunningThread(t)
  PROVE  Refines
<1>0. /\ pc[t] = "entered"
      /\ pc' = [pc EXCEPT ![t] = "run"] \/ pc' = [pc EXCEPT ![t] = "leave"]
      /\ ulCriticalNesting' = ulCriticalNesting + 1
      /\ \A u \in Tasks \ {t} : u \in Closing' <=> u \in Closing
      /\ UNCHANGED <<CurrentTCB, mutexOwner, pvYieldEvent>>
  <2>1. CASE Entered(t)
    BY <2>1 DEF Entered, At, Goto, threadVars, kernelVars, mutexVars, eventVars
  <2>2. CASE Remove(t)
    BY <2>2 DEF Remove, At, Goto, kernelVars, mutexVars, eventVars
  <2>3. CASE CloseRunningThread(t)
    BY <2>3 DEF CloseRunningThread, At, Goto, mutexVars, eventVars
  <2> QED
    BY <2>1, <2>2, <2>3
<1>1. PICK label \in {"run", "leave"} :
        /\ pc[t] = "entered" /\ pc' = [pc EXCEPT ![t] = label]
        /\ ulCriticalNesting' = ulCriticalNesting + 1
        /\ \A u \in Tasks \ {t} : u \in Closing' <=> u \in Closing
        /\ UNCHANGED <<CurrentTCB, mutexOwner, pvYieldEvent>>
  BY <1>0
<1>2. /\ mutexOwner = t /\ t = CurrentTCB /\ ulCriticalNesting \in Nat
      /\ pc[Isr] # "signal" /\ pc'[Isr] # "signal" /\ t # Nobody
  BY <1>1, NoSignal, PortAssumption
     DEF Inv, TypeOK, OwnerInv, TaskHolds, Threads
<1>3. \A u \in Threads : pc'[u] = IF u = t THEN label ELSE pc[u]
  BY <1>1 DEF Inv, TypeOK
<1>4. Holder' = t /\ Holder = IF ulCriticalNesting = 0 THEN Nobody ELSE t
  BY <1>1, <1>2 DEF Holder
<1>5. \A u \in Tasks : Request(u)' = Request(u)
  <2>1. Request(t)' = Request(t)
    BY <1>1, <1>3 DEF Request, Threads
  <2>2. ASSUME NEW u \in Tasks, u # t PROVE Request(u)' = Request(u)
    <3>1. Holder # u /\ Holder' # u /\ pc'[u] = pc[u]
      BY <1>2, <1>3, <1>4, <2>2, PortAssumption DEF Threads
    <3> QED
      BY <1>1, <1>2, <3>1 DEF Request
  <2> QED
    BY <2>1, <2>2
<1>6. Request(t) = "none"
  BY <1>1 DEF Request
<1>7. CASE ulCriticalNesting = 0
  <2> DEFINE request == [u \in Tasks |-> Request(u)]
  <2>1. request' = request /\ request[CurrentTCB] = "none"
    BY <1>2, <1>5, <1>6
  <2>2. Holder = Nobody /\ Holder' = CurrentTCB
    BY <1>2, <1>4, <1>7
  <2> QED
    BY <1>1, <2>1, <2>2 DEF Refines, Processor!Next, Processor!Enter
<1>8. CASE ulCriticalNesting # 0
  BY <1>1, <1>4, <1>5, <1>8, Stutters DEF Refines
<1> QED
  BY <1>7, <1>8

\* Leaving one is Leave, with a request if an interrupt is pending, or nothing if it was nested.
LEMMA ExitRefines == ASSUME Inv, NEW t \in Tasks, ExitCritical(t) PROVE Refines
<1> DEFINE waits == ulCriticalNesting = 1 /\ WaitsForInterrupt
           label == IF waits THEN "await" ELSE AfterSection(t)
           moved == [pc EXCEPT ![t] = label]
<1>1. mutexOwner = t /\ pc[t] \in {"run", "leave"}
  BY DEF ExitCritical, Running, At, Inv, OwnerInv
<1>2. /\ ulCriticalNesting' = ulCriticalNesting - 1
      /\ pvYieldEvent' = IF waits THEN [pvYieldEvent EXCEPT ![CurrentTCB] = FALSE]
                                  ELSE pvYieldEvent
      /\ ReleaseMutex(moved, pvInterruptEvent \/ waits)
      /\ UNCHANGED <<CurrentTCB, Closing>>
  BY DEF ExitCritical, LeaveCritical, threadVars, kernelVars
<1>3. /\ label \in {"await", "close", "delete", "run"} /\ (label = "await" <=> waits)
  BY DEF AfterSection
<1>4. /\ t = CurrentTCB /\ mutexCount = ulCriticalNesting /\ ulCriticalNesting \in Nat
      /\ ulCriticalNesting >= 1 /\ t # Nobody /\ t # Isr
  BY <1>1, PortAssumption DEF Inv, TypeOK, OwnerInv, CountInv, TaskHolds, Threads
<1>5. /\ moved \in [Threads -> Labels]
      /\ \A u \in Threads : moved[u] = IF u = t THEN label ELSE pc[u]
  BY <1>3 DEF Inv, TypeOK, Labels, TaskLabel
<1>6. /\ \A u \in Tasks : pc'[u] \in Asking <=> moved[u] \in Asking
      /\ pc'[Isr] = "signal" <=> moved[Isr] = "signal"
      /\ mutexCount > 1 => mutexOwner' = mutexOwner
  <2>1. \A th \in Threads : Queued(th) => moved[th] = pc[th]
    BY <1>1, <1>5 DEF Inv, QueueInv
  <2>2. (pvInterruptEvent \/ waits) \in BOOLEAN
    OBVIOUS
  <2> QED
    BY <1>2, <1>5, <2>1, <2>2, ReleaseView
<1> HIDE DEF label, moved
<1>7. pc[Isr] # "signal" /\ pc'[Isr] # "signal"
  BY <1>1, <1>4, <1>5, <1>6, NoSignal DEF Threads
<1>8. CASE ulCriticalNesting = 1
  <2>1. Holder = CurrentTCB /\ Holder' = Nobody
    BY <1>1, <1>2, <1>4, <1>8 DEF Holder
  <2>2. \A u \in Tasks \ {t} : Request(u)' = Request(u)
    <3>1. \A u \in Tasks \ {t} :
            /\ pc'[u] \in Asking <=> pc[u] \in Asking
            /\ pvYieldEvent'[u] = pvYieldEvent[u]
      BY <1>2, <1>4, <1>5, <1>6 DEF Threads, Inv, TypeOK
    <3> QED
      BY <1>2, <1>4, <1>7, <2>1, <3>1, PortAssumption DEF Request, Asking, Threads
  <2>3. Request(t) = "none"
    BY <2>1, <1>4 DEF Request
  <2>4. Request(t)' = IF waits /\ t \notin Closing THEN "made" ELSE "none"
    <3>1. pc'[t] \in Asking <=> waits
      BY <1>3, <1>5, <1>6 DEF Asking, Threads
    <3>2. waits => ~pvYieldEvent'[t]
      BY <1>2, <1>4 DEF Inv, TypeOK
    <3> QED
      BY <1>2, <1>4, <1>7, <2>1, <3>1, <3>2 DEF Request, Asking
  <2> DEFINE request == [u \in Tasks |-> Request(u)]
  <2>5. request' \in {request, [request EXCEPT ![CurrentTCB] = "made"]}
    BY <1>4, <2>2, <2>3, <2>4
  <2> QED
    BY <1>2, <2>1, <2>5 DEF Refines, Processor!Next, Processor!Leave
<1>9. CASE ulCriticalNesting # 1
  <2>1. Holder = t /\ Holder' = t
    BY <1>1, <1>2, <1>4, <1>6, <1>9 DEF Holder
  <2>2. \A u \in Tasks \ {t} : pc'[u] \in Asking <=> pc[u] \in Asking
    BY <1>5, <1>6 DEF Threads
  <2>3. \A u \in Tasks : Request(u)' = Request(u)
    BY <1>2, <1>7, <1>9, <2>1, <2>2 DEF Request, Asking
  <2> QED
    BY <1>2, <2>1, <2>3, Stutters DEF Refines
<1> QED
  BY <1>8, <1>9

\* Pending an interrupt outside of critical sections is Request; in one it waits for its end.
LEMMA PendingRefines == ASSUME Inv, NEW t \in Tasks, SetPending(t) PROVE Refines
<1> DEFINE moved == [pc EXCEPT ![t] = "recheck"]
<1>1. /\ pc[t] = "pending" /\ pvYieldEvent' = EventBeforeWait(t)
      /\ ReleaseMutex(moved, pvInterruptEvent \/ ulCriticalNesting = 0)
      /\ UNCHANGED <<CurrentTCB, Closing, ulCriticalNesting>>
  BY DEF SetPending, At, threadVars, kernelVars
<1>2. /\ mutexOwner = t /\ t = CurrentTCB /\ t # Nobody /\ t # Isr /\ t \notin Closing
      /\ ulCriticalNesting \in Nat /\ mutexCount = ulCriticalNesting + 1
  BY <1>1, PortAssumption DEF Inv, TypeOK, OwnerInv, CountInv, ThreadInv, TaskHolds, Threads
<1>3. /\ moved \in [Threads -> Labels]
      /\ \A u \in Threads : moved[u] = IF u = t THEN "recheck" ELSE pc[u]
  BY DEF Inv, TypeOK, Labels, TaskLabel
<1> HIDE DEF moved
<1>4. /\ \A u \in Tasks : pc'[u] \in Asking <=> moved[u] \in Asking
      /\ pc'[Isr] = "signal" <=> moved[Isr] = "signal"
      /\ mutexCount > 1 => mutexOwner' = mutexOwner
  <2>1. \A th \in Threads : Queued(th) => moved[th] = pc[th]
    BY <1>2, <1>3 DEF Inv, QueueInv
  <2>2. (pvInterruptEvent \/ ulCriticalNesting = 0) \in BOOLEAN
    OBVIOUS
  <2> QED
    BY <1>1, <1>3, <2>1, <2>2, ReleaseView
<1>5. pc[Isr] # "signal" /\ pc'[Isr] # "signal"
  BY <1>2, <1>3, <1>4, NoSignal DEF Threads
<1>6. \A u \in Tasks \ {t} : pc'[u] \in Asking <=> pc[u] \in Asking
  BY <1>3, <1>4 DEF Threads
<1>7. CASE ulCriticalNesting = 0
  <2>1. Holder = Nobody /\ Holder' = Nobody
    BY <1>1, <1>7 DEF Holder
  <2>2. Request(t) = "none"
    BY <1>1 DEF Request
  <2>3. Request(t)' = "made"
    <3>1. pc'[t] \in Asking /\ ~pvYieldEvent'[t]
      BY <1>1, <1>3, <1>4, <1>7 DEF Asking, Threads, EventBeforeWait, Inv, TypeOK
    <3> QED
      BY <1>1, <1>2, <1>5, <2>1, <3>1 DEF Request, Asking
  <2>4. \A u \in Tasks \ {t} : Request(u)' = Request(u)
    <3>1. \A u \in Tasks \ {t} : pvYieldEvent'[u] = pvYieldEvent[u]
      BY <1>1 DEF EventBeforeWait, Inv, TypeOK
    <3> QED
      BY <1>1, <1>5, <1>6, <2>1, <3>1, PortAssumption DEF Request, Asking, Threads
  <2> DEFINE request == [u \in Tasks |-> Request(u)]
  <2>5. request' = [request EXCEPT ![CurrentTCB] = "made"] /\ request[CurrentTCB] = "none"
    BY <1>2, <2>2, <2>3, <2>4
  <2> QED
    BY <1>1, <2>1, <2>5 DEF Refines, Processor!Next, Processor!Request
<1>8. CASE ulCriticalNesting # 0
  <2>1. Holder = t /\ Holder' = t
    BY <1>1, <1>2, <1>4, <1>8 DEF Holder
  <2>2. \A u \in Tasks : Request(u)' = Request(u)
    BY <1>1, <1>5, <1>6, <1>8, <2>1 DEF Request, Asking, EventBeforeWait
  <2> QED
    BY <1>1, <2>1, <2>2, Stutters DEF Refines
<1> QED
  BY <1>7, <1>8

\* A task that runs, and has not ended its own thread, is the current one.
LEMMA CurrentRuns ==
  ASSUME Inv, NEW t \in Tasks, Scheduled(t), t \notin Closing, pc[t] # "none"
  PROVE  t = CurrentTCB
  BY DEF Inv, ThreadInv, Scheduled, Blocked

\* While the interrupt thread has a critical section no task runs.
LEMMA HandlerRuns ==
  ASSUME Inv, NEW t \in Tasks, Scheduled(t), t \notin Closing
  PROVE  pc[Isr] # "nested"
<1> SUFFICES ASSUME pc[Isr] = "nested" PROVE FALSE
  OBVIOUS
<1> USE PortAssumption
<1>1. ~Blocked(Isr)
  BY DEF Blocked, Inv, TypeOK, QueueInv, Holding, Threads
<1>2. Priority(Isr) = 3
  BY DEF Priority
<1>3. Priority(t) = 1
  BY DEF Priority
<1>4. Priority(Isr) <= Priority(t)
  BY <1>1 DEF Scheduled, Pinned
<1> QED
  BY <1>2, <1>3, <1>4

\* The nesting that a task reads after it released the mutex is its own.
LEMMA RecheckRefines == ASSUME Inv, NEW t \in Tasks, Recheck(t) PROVE Refines
<1>1. /\ pc[t] = "recheck" /\ Scheduled(t)
      /\ pc' = [pc EXCEPT ![t] = IF ulCriticalNesting = 0 THEN "await" ELSE "run"]
      /\ UNCHANGED <<CurrentTCB, Closing, mutexOwner, ulCriticalNesting, pvYieldEvent>>
  BY DEF Recheck, At, Goto, threadVars, kernelVars, mutexVars, eventVars, portVars
<1>2. t \notin Closing
  BY <1>1 DEF Inv, ThreadInv
<1>3. t = CurrentTCB /\ pc[Isr] # "nested"
  BY <1>1, <1>2, CurrentRuns, HandlerRuns
<1>4. ulCriticalNesting # 0 => mutexOwner = t
  BY <1>3 DEF Inv, TypeOK, CountInv, OwnerInv, Threads, Generators
<1>5. /\ t # Isr
      /\ \A u \in Threads \ {t} : pc'[u] = pc[u]
      /\ pc'[t] = IF ulCriticalNesting = 0 THEN "await" ELSE "run"
  BY <1>1, PortAssumption DEF Inv, TypeOK, Threads
<1>6. Holder' = Holder /\ (ulCriticalNesting # 0 => Holder = t)
  BY <1>1, <1>4 DEF Holder, Inv, TypeOK
<1>7. \A u \in Tasks : Request(u)' = Request(u)
  BY <1>1, <1>5, <1>6, PortAssumption DEF Request, Threads
<1> QED
  BY <1>1, <1>6, <1>7, Stutters DEF Refines

\* The wait for the interrupt ends, which is Return unless the thread is to be closed.
LEMMA ReturnRefines == ASSUME Inv, NEW t \in Tasks, YieldEventSet(t) PROVE Refines
<1>1. /\ pc[t] = "await" /\ Scheduled(t) /\ pc' = [pc EXCEPT ![t] = AfterSection(t)]
      /\ pvYieldEvent' = [pvYieldEvent EXCEPT ![t] = FALSE]
      /\ UNCHANGED <<CurrentTCB, Closing, mutexOwner, ulCriticalNesting>>
  BY DEF YieldEventSet, At, Goto, threadVars, kernelVars, mutexVars, portVars
<1>2. pvYieldEvent[t] /\ mutexOwner # t /\ t # Nobody
  BY <1>1, PortAssumption DEF Scheduled, Blocked, Inv, OwnerInv, Threads
<1>3. /\ \A u \in Threads \ {t} : pc'[u] = pc[u]
      /\ \A u \in Tasks \ {t} : pvYieldEvent'[u] = pvYieldEvent[u]
      /\ pc'[t] \notin Asking
  BY <1>1 DEF Inv, TypeOK, Threads, AfterSection, Asking
<1>4. Holder' = Holder /\ Holder # t
  BY <1>1, <1>2 DEF Holder
<1>5. \A u \in Tasks \ {t} : Request(u)' = Request(u)
  <2>1. t # Isr /\ Isr \in Threads /\ Tasks \subseteq Threads
    BY PortAssumption DEF Threads
  <2> QED
    BY <1>1, <1>3, <1>4, <2>1 DEF Request
<1>6. Request(t)' = "none"
  BY <1>3 DEF Request, Asking
<1>7. CASE t \in Closing
  <2>1. Request(t) = "none"
    BY <1>7 DEF Request
  <2> QED
    BY <1>1, <1>4, <1>5, <1>6, <2>1, Stutters DEF Refines
<1>8. CASE t \notin Closing
  <2>1. t = CurrentTCB
    BY <1>1, <1>8, CurrentRuns
  <2>2. Request(t) = "served"
    BY <1>1, <1>2, <1>4, <1>8 DEF Request
  <2> DEFINE request == [u \in Tasks |-> Request(u)]
  <2>3. request' = [request EXCEPT ![CurrentTCB] = "none"] /\ request[CurrentTCB] = "served"
    BY <1>5, <1>6, <2>1, <2>2
  <2> QED
    BY <1>1, <1>4, <2>3 DEF Refines, Processor!Next, Processor!Return
<1> QED
  BY <1>7, <1>8

\* Terminating the thread of another task is Forget.
LEMMA ForgetRefines == ASSUME Inv, NEW t \in Tasks, DeleteThread(t) PROVE Refines
<1>1. PICK u : u = victim[t]
  OBVIOUS
<1> DEFINE moved == [pc EXCEPT ![t] = "run", ![u] = "none"]
<1>2. /\ pc[t] = "deleting" /\ ReleaseMutex(moved, pvInterruptEvent)
      /\ UNCHANGED <<CurrentTCB, Closing, ulCriticalNesting, pvYieldEvent>>
  BY <1>1 DEF DeleteThread, At, kernelVars, portVars
<1>3. /\ mutexOwner = t /\ t = CurrentTCB /\ t # Nobody /\ t # Isr
      /\ ulCriticalNesting \in Nat /\ mutexCount = ulCriticalNesting + 1
  BY <1>2, PortAssumption DEF Inv, TypeOK, OwnerInv, CountInv, ThreadInv, TaskHolds, Threads
<1>4. /\ u \in Tasks /\ u # t /\ u \notin Closing /\ u # Isr
  <2>1. u \in Tasks /\ u \in Removed
    BY <1>1, <1>2 DEF Inv, TypeOK, ThreadInv
  <2>2. u \in Suspended
    BY <2>1 DEF Inv, ThreadInv
  <2> QED
    BY <1>3, <2>1, <2>2, PortAssumption DEF Inv, ThreadInv
<1>5. /\ moved \in [Threads -> Labels]
      /\ moved[t] = "run" /\ moved[u] = "none"
      /\ \A v \in Threads \ {t, u} : moved[v] = pc[v]
  BY <1>4 DEF Inv, TypeOK, Labels, TaskLabel, Threads
<1>6. \A th \in Threads : Queued(th) => moved[th] = pc[th]
  BY <1>3, <1>4, <1>5 DEF Inv, QueueInv
<1> HIDE DEF moved
<1>7. /\ \A v \in Tasks : pc'[v] \in Asking <=> moved[v] \in Asking
      /\ pc'[Isr] = "signal" <=> moved[Isr] = "signal"
      /\ mutexCount > 1 => mutexOwner' = mutexOwner
  <2>1. pvInterruptEvent \in BOOLEAN
    BY DEF Inv, TypeOK
  <2> QED
    BY <1>2, <1>5, <1>6, <2>1, ReleaseView
<1>8. pc[Isr] # "signal" /\ pc'[Isr] # "signal"
  BY <1>3, <1>4, <1>5, <1>7, NoSignal DEF Threads
<1>9. Holder' = Holder
  BY <1>2, <1>3, <1>7 DEF Holder
<1>10. \A v \in Tasks \ {u} : Request(v)' = Request(v)
  <2>1. \A v \in Tasks \ {t, u} : pc'[v] \in Asking <=> pc[v] \in Asking
    BY <1>5, <1>7 DEF Threads
  <2>2. pc[t] \notin Asking /\ pc'[t] \notin Asking
    BY <1>2, <1>5, <1>7 DEF Asking
  <2>3. ASSUME NEW v \in Tasks \ {u} PROVE pc'[v] \in Asking <=> pc[v] \in Asking
    BY <2>1, <2>2
  <2> QED
    BY <1>2, <1>8, <1>9, <2>3 DEF Request, Asking
<1>11. Request(u)' = "none"
  BY <1>4, <1>5, <1>7 DEF Request, Asking
<1> DEFINE request == [v \in Tasks |-> Request(v)]
<1>12. request' = [request EXCEPT ![u] = "none"] /\ u # CurrentTCB
  BY <1>3, <1>4, <1>10, <1>11
<1> QED
  BY <1>2, <1>4, <1>9, <1>12 DEF Refines, Processor!Next, Processor!Forget

\* The handlers are an Interrupt that leaves the current task its processor, if none of them
\* requires a context switch.
LEMMA HandlersRefine == ASSUME Inv, RunHandlers PROVE Refines
<1>1. PICK label \in {"switch", "signal"} : pc' = [pc EXCEPT ![Isr] = label]
  BY DEF RunHandlers, Goto
<1>2. /\ pc[Isr] \in {"handlers", "handled"}
      /\ UNCHANGED <<CurrentTCB, Closing, mutexOwner, ulCriticalNesting, pvYieldEvent>>
  BY DEF RunHandlers, At, threadVars, kernelVars, mutexVars, eventVars
<1>3. CurrentTCB \in Tasks /\ Holder = Nobody /\ Holder' = Holder
  BY <1>2, PortAssumption DEF Inv, TypeOK, OwnerInv, IsrHolds, Holder
<1>4. CASE label = "switch"
  BY <1>1, <1>2, <1>3, <1>4, MoveStutters DEF Threads, Asking
<1>5. CASE label = "signal"
  <2>1. pc'[Isr] = "signal" /\ \A u \in Tasks : pc'[u] = pc[u]
    BY <1>1, <1>5, PortAssumption DEF Inv, TypeOK, Threads
  <2>2. \A u \in Tasks \ {CurrentTCB} : Request(u)' = Request(u)
    BY <1>2, <1>3, <2>1 DEF Request
  <2>3. Request(CurrentTCB)' =
          IF Request(CurrentTCB) = "made" THEN "served" ELSE Request(CurrentTCB)
    BY <1>2, <1>3, <2>1 DEF Request
  <2> DEFINE request == [u \in Tasks |-> Request(u)]
  <2>4. request' = [request EXCEPT ![CurrentTCB'] = IF @ = "made" THEN "served" ELSE @]
    BY <1>2, <1>3, <2>2, <2>3
  <2> QED
    BY <1>2, <1>3, <2>4 DEF Refines, Processor!Next, Processor!Interrupt
<1> QED
  BY <1>1, <1>4, <1>5

\* A context switch is an Interrupt.
LEMMA SwitchRefines == ASSUME Inv, SwitchContext PROVE Refines
<1>1. /\ pc[Isr] = "switch" /\ pc' = [pc EXCEPT ![Isr] = "signal"]
      /\ CurrentTCB' \in Tasks
      /\ UNCHANGED <<Closing, mutexOwner, ulCriticalNesting, pvYieldEvent>>
  BY DEF SwitchContext, Selectable, At, Goto, eventVars, portVars
<1>2. Holder = Nobody /\ Holder' = Holder
  BY <1>1, PortAssumption DEF Inv, TypeOK, OwnerInv, IsrHolds, Holder
<1>3. pc'[Isr] = "signal" /\ \A u \in Tasks : pc'[u] = pc[u]
  BY <1>1, PortAssumption DEF Inv, TypeOK, Threads
<1>4. PICK t \in Tasks : t = CurrentTCB'
  BY <1>1
<1>5. \A u \in Tasks \ {t} : Request(u)' = Request(u)
  BY <1>1, <1>2, <1>3, <1>4 DEF Request
<1>6. Request(t)' = IF Request(t) = "made" THEN "served" ELSE Request(t)
  BY <1>1, <1>2, <1>3, <1>4 DEF Request
<1> DEFINE request == [u \in Tasks |-> Request(u)]
<1>7. request' = [request EXCEPT ![t] = IF @ = "made" THEN "served" ELSE @]
  BY <1>5, <1>6
<1> QED
  BY <1>1, <1>2, <1>4, <1>7 DEF Refines, Processor!Next, Processor!Interrupt

\* Setting the current task's event tells it what is so already.
LEMMA SignalRefines == ASSUME Inv, SignalCurrent PROVE Refines
<1> DEFINE moved == [pc EXCEPT ![Isr] = "loop"]
<1>1. /\ pc[Isr] = "signal" /\ ReleaseMutex(moved, pvInterruptEvent)
      /\ pvYieldEvent' = [pvYieldEvent EXCEPT ![CurrentTCB] = TRUE]
      /\ UNCHANGED <<CurrentTCB, Closing, ulCriticalNesting>>
  BY DEF SignalCurrent, At, threadVars, kernelVars, portVars
<1>2. mutexOwner = Isr /\ ulCriticalNesting = 0
  BY <1>1 DEF Inv, OwnerInv, CountInv, IsrHolds
<1>3. /\ moved \in [Threads -> Labels] /\ moved[Isr] = "loop"
      /\ \A u \in Threads \ {Isr} : moved[u] = pc[u]
  BY DEF Inv, TypeOK, Labels, IsrLabel, Threads
<1>4. \A th \in Threads : Queued(th) => moved[th] = pc[th]
  BY <1>2, <1>3 DEF Inv, QueueInv
<1> HIDE DEF moved
<1>5. /\ \A u \in Tasks : pc'[u] \in Asking <=> moved[u] \in Asking
      /\ pc'[Isr] = "signal" <=> moved[Isr] = "signal"
  <2>1. pvInterruptEvent \in BOOLEAN
    BY DEF Inv, TypeOK
  <2> QED
    BY <1>1, <1>3, <1>4, <2>1, ReleaseView
<1>6. \A u \in Tasks : pc'[u] \in Asking <=> pc[u] \in Asking
  BY <1>3, <1>5, PortAssumption DEF Threads
<1>7. pc'[Isr] # "signal"
  BY <1>3, <1>5
<1>8. Holder = Nobody /\ Holder' = Nobody
  BY <1>1, <1>2 DEF Holder
<1>9. /\ pvYieldEvent'[CurrentTCB]
      /\ \A u \in Tasks \ {CurrentTCB} : pvYieldEvent'[u] = pvYieldEvent[u]
  BY <1>1 DEF Inv, TypeOK
<1>10. \A u \in Tasks : Request(u)' = Request(u)
  BY <1>1, <1>6, <1>7, <1>8, <1>9 DEF Request, Asking
<1> QED
  BY <1>1, <1>8, <1>10, Stutters DEF Refines

\* Waiting for the mutex is not seen, nor is taking it.
LEMMA WaitRefines == ASSUME Inv, NEW th \in Threads, WaitForMutex(th) PROVE Refines
<1>1. /\ pc[th] \in DOMAIN Holding
      /\ UNCHANGED <<CurrentTCB, Closing, pvYieldEvent, ulCriticalNesting>>
  BY DEF WaitForMutex, threadVars, kernelVars, eventVars, portVars
<1>2. CASE mutexOwner \in {Nobody, th}
  <2>1. pc' = [pc EXCEPT ![th] = Holding[pc[th]]] /\ mutexOwner' = th
    BY <1>2 DEF WaitForMutex, Goto
  <2>2. Holder' = Holder
    BY <1>1, <1>2, <2>1 DEF Holder, Inv, TypeOK, CountInv
  <2>3. /\ pc[th] \notin Asking \cup {"signal"}
        /\ Holding[pc[th]] \notin Asking \cup {"signal"}
    BY <1>1, HoldingValues DEF Asking
  <2> QED
    BY <1>1, <2>1, <2>2, <2>3, MoveStutters
<1>3. CASE mutexOwner \notin {Nobody, th}
  <2>1. UNCHANGED <<pc, mutexOwner>>
    BY <1>3 DEF WaitForMutex
  <2> QED
    BY <1>1, <2>1, Stutters DEF Refines, Holder, Request
<1> QED
  BY <1>2, <1>3

\* What tasks do that moves only themselves.
LEMMA QuietRefines ==
  ASSUME Inv, NEW t \in Tasks,
         \/ EnterCritical(t) \/ GenerateSimulatedInterrupt(t) \/ ExitThread(t)
         \/ \E u \in Tasks : TaskDelete(t, u)
  PROVE  Refines
<1>1. /\ \E label \in {"enter", "pend", "none"} : pc' = [pc EXCEPT ![t] = label]
      /\ pc[t] \in {"run", "exit"}
      /\ UNCHANGED <<CurrentTCB, Closing, mutexOwner, ulCriticalNesting, pvYieldEvent>>
  BY DEF EnterCritical, GenerateSimulatedInterrupt, ExitThread, TaskDelete, Running, At, Goto,
         threadVars, kernelVars, mutexVars, eventVars, portVars
<1>2. Holder' = Holder
  BY <1>1 DEF Holder
<1> QED
  BY <1>1, <1>2, MoveStutters DEF Threads, Asking

\* Stopping the scheduler, and the ends and beginnings of threads.
LEMMA LifeRefines ==
  ASSUME Inv, NEW t \in Tasks,
         \/ EndScheduler(t) \/ \E u \in Tasks : InitialiseStack(t, u)
  PROVE  Refines
<1>1. UNCHANGED <<CurrentTCB, mutexOwner, ulCriticalNesting>> /\ Holder' = Holder
  BY DEF EndScheduler, InitialiseStack, Holder, kernelVars, mutexVars, portVars
<1>2. CASE EndScheduler(t)
  BY <1>1, <1>2, Stutters
     DEF EndScheduler, Refines, Request, threadVars, eventVars
<1>3. ASSUME NEW u \in Tasks, pc[u] \notin Asking, pc'[u] \notin Asking,
             \A v \in Threads \ {u} : pc'[v] = pc[v],
             \A v \in Tasks \ {u} : /\ v \in Closing' <=> v \in Closing
                                    /\ pvYieldEvent'[v] = pvYieldEvent[v]
      PROVE  Refines
  <2>1. pc'[Isr] = pc[Isr]
    BY <1>3, PortAssumption DEF Threads
  <2>2. Request(u)' = Request(u)
    BY <1>3 DEF Request, Asking
  <2>3. \A v \in Tasks \ {u} : Request(v)' = Request(v)
    BY <1>1, <1>3, <2>1 DEF Request, Threads
  <2> QED
    BY <1>1, <2>2, <2>3, Stutters DEF Refines
<1>4. ASSUME NEW u \in Tasks, InitialiseStack(t, u) PROVE Refines
  <2>1. /\ pc[u] = "none" /\ pc' = [pc EXCEPT ![u] = "run"]
        /\ Closing' = Closing \ {u} /\ pvYieldEvent' = [pvYieldEvent EXCEPT ![u] = FALSE]
    BY <1>4 DEF InitialiseStack, Goto
  <2>2. /\ pc'[u] = "run" /\ \A v \in Threads \ {u} : pc'[v] = pc[v]
        /\ \A v \in Tasks \ {u} : pvYieldEvent'[v] = pvYieldEvent[v]
    BY <2>1 DEF Inv, TypeOK, Threads
  <2> QED
    BY <1>3, <2>1, <2>2 DEF Asking
<1> QED
  BY <1>2, <1>4

\* Pending the yield of a thread that is to be closed asks for nothing.
LEMMA ClosingRefines == ASSUME Inv, NEW t \in Tasks, PendClosingYield(t) PROVE Refines
<1> DEFINE moved == [pc EXCEPT ![t] = "exit"]
<1>1. /\ pc[t] = "closing" /\ ReleaseMutex(moved, pvInterruptEvent)
      /\ UNCHANGED <<CurrentTCB, Closing, ulCriticalNesting, pvYieldEvent>>
  BY DEF PendClosingYield, At, threadVars, kernelVars
<1>2. mutexOwner = t /\ ulCriticalNesting = 0 /\ t # Isr /\ pc[Isr] # "signal"
  BY <1>1, NoSignal, PortAssumption DEF Inv, OwnerInv, CountInv, TaskHolds
<1>3. /\ moved \in [Threads -> Labels] /\ moved[t] = "exit"
      /\ \A u \in Threads \ {t} : moved[u] = pc[u]
  BY DEF Inv, TypeOK, Labels, TaskLabel, Threads
<1>4. \A th \in Threads : Queued(th) => moved[th] = pc[th]
  BY <1>2, <1>3 DEF Inv, QueueInv
<1> HIDE DEF moved
<1>5. (\A u \in Tasks : moved[u] \in Asking <=> pc[u] \in Asking) /\ moved[Isr] # "signal"
  BY <1>1, <1>2, <1>3 DEF Asking, Threads
<1>6. pvInterruptEvent \in BOOLEAN
  BY DEF Inv, TypeOK
<1> QED
  BY <1>1, <1>2, <1>3, <1>4, <1>5, <1>6, ReleaseStutters

\* Nor does pending an interrupt from another thread, while the interrupt thread starts or not.
LEMMA GeneratorRefines ==
  ASSUME Inv, NEW g \in Generators, PendFromWindows(g) \/ SetFirstTickRacing(g)
  PROVE  Refines
<1>0. PICK label \in {pc[Isr], "loop"} :
        /\ label # pc[Isr] => pc[Isr] = "start"
        /\ ReleaseMutex([pc EXCEPT ![Isr] = label, ![g] = "idle"], TRUE)
  <2>1. CASE PendFromWindows(g)
    <3>1. [pc EXCEPT ![Isr] = pc[Isr], ![g] = "idle"] = [pc EXCEPT ![g] = "idle"]
      BY DEF Inv, TypeOK
    <3> QED
      BY <2>1, <3>1 DEF PendFromWindows
  <2>2. CASE SetFirstTickRacing(g)
    BY <2>2 DEF SetFirstTickRacing, At
  <2> QED
    BY <2>1, <2>2
<1> DEFINE moved == [pc EXCEPT ![Isr] = label, ![g] = "idle"]
<1>1. /\ label \in {pc[Isr], "loop"}
      /\ label # pc[Isr] => pc[Isr] = "start"
      /\ moved = [pc EXCEPT ![Isr] = label, ![g] = "idle"] /\ ReleaseMutex(moved, TRUE)
  BY <1>0
<1> HIDE DEF moved
<1>2. /\ pc[g] = "generating"
      /\ UNCHANGED <<CurrentTCB, Closing, ulCriticalNesting, pvYieldEvent>>
  BY DEF PendFromWindows, SetFirstTickRacing, At, threadVars, kernelVars
<1>3. mutexOwner = g /\ ulCriticalNesting = 0 /\ g # Isr /\ g \notin Tasks /\ pc[Isr] # "signal"
  BY <1>2, NoSignal, PortAssumption DEF Inv, OwnerInv, CountInv, Generators
<1>4. /\ moved \in [Threads -> Labels] /\ moved[g] = "idle" /\ moved[Isr] = label
      /\ \A u \in Threads \ {g, Isr} : moved[u] = pc[u]
  BY <1>1, <1>3 DEF Inv, TypeOK, Labels, GeneratorLabel, IsrLabel, Threads, Generators
<1>5. \A th \in Threads : Queued(th) => moved[th] = pc[th]
  BY <1>1, <1>2, <1>3, <1>4 DEF Inv, QueueInv, Holding
<1>6. (\A u \in Tasks : moved[u] \in Asking <=> pc[u] \in Asking) /\ moved[Isr] # "signal"
  BY <1>1, <1>3, <1>4, PortAssumption DEF Threads
<1> QED
  BY <1>1, <1>2, <1>3, <1>4, <1>5, <1>6, ReleaseStutters

\* The interrupt thread outside of its handlers is not seen.
LEMMA LoopRefines ==
  ASSUME Inv,
         \/ SetFirstTick \/ WaitForInterrupt \/ WaitTimesOut \/ SchedulerEnded \/ Interrupted
  PROVE  Refines
<1>1. /\ \E label \in {"loop", "interrupted", "wait", "done", "handlers"} :
           pc' = [pc EXCEPT ![Isr] = label]
      /\ pc[Isr] \in {"start", "loop", "wait", "interrupted"}
      /\ UNCHANGED <<CurrentTCB, Closing, ulCriticalNesting, pvYieldEvent>>
  BY DEF SetFirstTick, WaitForInterrupt, WaitTimesOut, SchedulerEnded, Interrupted, At, Goto,
         threadVars, kernelVars, eventVars, portVars
<1>2. mutexOwner' = mutexOwner \/ (mutexOwner = Nobody /\ mutexOwner' = Isr)
  BY DEF SetFirstTick, WaitForInterrupt, WaitTimesOut, SchedulerEnded, Interrupted, mutexVars
<1>3. Holder' = Holder
  BY <1>1, <1>2, PortAssumption DEF Holder, Threads
<1> QED
  BY <1>1, <1>3, MoveStutters DEF Threads, Asking

\* Nor is a critical section of a handler: it is inside of the interrupt.
LEMMA NestedRefines == ASSUME Inv, HandlerEntersCritical \/ HandlerExitsCritical PROVE Refines
<1>1. mutexOwner = Isr /\ pc[Isr] \in {"handlers", "nested"}
  BY DEF HandlerEntersCritical, HandlerExitsCritical, At, Inv, OwnerInv, IsrHolds
<1>2. /\ \E label \in {"nested", "handled"} : pc' = [pc EXCEPT ![Isr] = label]
      /\ UNCHANGED <<CurrentTCB, Closing, mutexOwner, pvYieldEvent>>
  <2>1. CASE HandlerEntersCritical
    BY <2>1 DEF HandlerEntersCritical, Goto, threadVars, kernelVars, eventVars
  <2>2. CASE HandlerExitsCritical
    <3>1. pc[Isr] = "nested" /\ xInsideInterrupt /\ mutexCount = 2
      BY <1>1, <2>2 DEF HandlerExitsCritical, At, Inv, LabelInv, CountInv
    <3>2. /\ ReleaseMutex([pc EXCEPT ![Isr] = "handled"], pvInterruptEvent)
          /\ UNCHANGED <<CurrentTCB, Closing, pvYieldEvent>>
      BY <2>2, <3>1 DEF HandlerExitsCritical, LeaveCritical, WaitsForInterrupt, threadVars,
                        kernelVars, Inv, TypeOK
    <3> QED
      BY <3>1, <3>2 DEF ReleaseMutex
  <2> QED
    BY <2>1, <2>2
<1>3. Holder' = Holder
  BY <1>1, <1>2, PortAssumption DEF Holder
<1> QED
  BY <1>1, <1>2, <1>3, MoveStutters DEF Threads, Asking

\* A generator that wakes is not seen.
LEMMA WakeRefines == ASSUME Inv, NEW g \in Generators, Wake(g) PROVE Refines
<1>1. /\ \E label \in {"generate", "done"} : pc' = [pc EXCEPT ![g] = label]
      /\ pc[g] = "idle"
      /\ UNCHANGED <<CurrentTCB, Closing, mutexOwner, ulCriticalNesting, pvYieldEvent>>
  BY DEF Wake, Goto, threadVars, kernelVars, mutexVars, eventVars, portVars
<1>2. Holder' = Holder
  BY <1>1 DEF Holder
<1> QED
  BY <1>1, <1>2, MoveStutters DEF Threads, Generators, Asking

\* Every step of the threads is one of the processor or changes nothing of it.
LEMMA StepRefines == Inv /\ [Next]_vars => [Processor!Next]_(Processor!vars)
<1> SUFFICES ASSUME Inv, [Next]_vars PROVE Refines
  BY DEF Refines
<1>1. ASSUME NEW t \in Tasks, TaskStep(t) PROVE Refines
  BY <1>1, WaitRefines, EnteredRefines, ExitRefines, PendingRefines, RecheckRefines,
     ReturnRefines, ForgetRefines, ClosingRefines, QuietRefines
     DEF TaskStep, Threads
<1>2. ASSUME NEW t \in Tasks, TaskCall(t) PROVE Refines
  BY <1>2, QuietRefines, LifeRefines DEF TaskCall
<1>3. CASE IsrStep
  BY <1>3, LoopRefines, NestedRefines, HandlersRefine, SwitchRefines, SignalRefines DEF IsrStep
<1>4. ASSUME NEW g \in Generators, Wake(g) \/ GeneratorStep(g) PROVE Refines
  BY <1>4, WakeRefines, WaitRefines, GeneratorRefines DEF GeneratorStep, Threads, Generators
<1>5. ASSUME NEW g \in WindowsThreads, SetFirstTickRacing(g) PROVE Refines
  BY <1>5, GeneratorRefines DEF Generators
<1>6. CASE UNCHANGED vars
  BY <1>6, Stutters DEF vars, threadVars, kernelVars, mutexVars, eventVars, portVars, Refines,
                        Holder, Request
<1> QED
  BY <1>1, <1>2, <1>3, <1>4, <1>5, <1>6 DEF Next, Stopped

\* The port's threads, its mutex and its events implement one processor: no task runs past a
\* yield before an interrupt ran and gave it the processor back, and no interrupt runs while a
\* task is in a critical section.
THEOREM PortImplementsProcessor == Spec => ImplementsProcessor
<1>1. Init => Processor!Init
  <2> SUFFICES ASSUME Init PROVE Processor!Init
    OBVIOUS
  <2>1. Holder = Nobody /\ CurrentTCB \in Tasks
    BY PortAssumption DEF Init, Holder, Threads
  <2>2. ASSUME NEW t \in Tasks PROVE Request(t) = "none"
    <3>1. pc[t] \in {"run", "none"}
      BY PortAssumption DEF Init, Threads
    <3> QED
      BY <3>1 DEF Request
  <2> QED
    BY <2>1, <2>2 DEF Processor!Init
<1> QED
  BY <1>1, StepRefines, Invariance, PTL DEF Spec, ImplementsProcessor, Processor!Spec
=============================================================================
