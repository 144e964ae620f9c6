---------------------------- MODULE Timers_proofs ----------------------------
(***************************************************************************)
(* Theorems about Timers, for every set of timers and of tasks, every      *)
(* width of the tick count, every choice of periods and every length of    *)
(* the command queue.                                                      *)
(***************************************************************************)
EXTENDS Timers, FiniteSetTheorems, SequenceTheorems, TLAPS

-----------------------------------------------------------------------------
(* The inductive invariant. *)

\* An epoch is the time from one wrap of the tick count to the next; this is when it starts.
Base(n) == n - (n % TickMod)

\* The lists are being switched, so the current one has what is left of the last epoch.
InSwitch == pc = "switch" \/ (pc = "reload" /\ back = "switch")
CurrentBase == IF InSwitch THEN Base(sampled) - TickMod ELSE Base(sampled)

\* The time up to which ReloadTimer reports: of the sample, or of the end of the last epoch.
Limit == IF back = "switch" THEN Base(sampled) - 1 ELSE sampled

\* A message says when it was sent, and asks for a period if it changes one.
Sound(m, now) ==
  /\ m.ID = "start" => m.at <= now /\ m.Value = m.at % TickMod
  /\ m.ID = "change" => m.Value \in Periods

MessageInv ==
  /\ \A i \in DOMAIN queue : queue[i].ID # "call" => Sound(queue[i], time)
  /\ \A c \in Tasks : call[c] # None => call[c].ID = "start" /\ Sound(call[c], time)
  /\ msg # None => Sound(msg, time)
  /\ msg # None /\ msg.ID = "start" =>
       msg.at <= sampled /\ (~overslept => sampled - msg.at < TickMod)

\* What the daemon knows of the time, and what it works on.
DaemonInv ==
  /\ sampled <= time /\ xLastTime = sampled % TickMod
  /\ InSwitch => Base(sampled) >= TickMod
  /\ pc = "command" => msg # None
  /\ msg # None => pc = "command" \/ InSwitch
  /\ pc = "reload" => Timer \in Timers

\* The deletion of a timer that is not static is the last command about it.
MemoryInv ==
  /\ \A t \in StaticTimers : memory[t] = "live"
  /\ \A i \in DOMAIN queue : queue[i].ID # "call" =>
       /\ memory[queue[i].Timer] # "freed"
       /\ queue[i].ID = "delete" /\ queue[i].Timer \notin StaticTimers =>
            /\ memory[queue[i].Timer] = "deleting"
            /\ \A j \in DOMAIN queue : i < j => queue[j].Timer # queue[i].Timer
  /\ \A c \in Tasks : call[c] # None => memory[call[c].Timer] = "live"
  /\ msg # None =>
       /\ memory[msg.Timer] # "freed"
       /\ msg.ID = "delete" /\ msg.Timer \notin StaticTimers =>
            /\ memory[msg.Timer] = "deleting"
            /\ \A j \in DOMAIN queue : queue[j].Timer # msg.Timer

\* A timer is in one list, once, if it is active, except while the daemon works on it.
Apart(t) == (pc = "reload" /\ t = Timer) \/ (msg # None /\ t = msg.Timer)
LinkInv ==
  /\ Sorted(Current) /\ Sorted(Overflow) /\ In(Current) \cap In(Overflow) = {}
  /\ \A t \in Timers : memory[t] = "freed" => t \notin Linked
  /\ \A t \in Timers : ~Apart(t) /\ memory[t] # "freed" => (Active[t] <=> t \in Linked)
  /\ msg # None => msg.Timer \notin Linked
  /\ pc = "reload" =>
       /\ Timer \notin Linked /\ Active[Timer] /\ memory[Timer] # "freed"
       /\ msg # None => msg.Timer # Timer

\* No timer expires later than its list says, ...
DueInv ==
  /\ \A t \in Linked : Value[t] = due[t] % TickMod
  /\ \A t \in In(Current) : Base(due[t]) <= CurrentBase
  /\ \A t \in In(Overflow) : Base(due[t]) <= CurrentBase + TickMod
  /\ pc = "reload" =>
       /\ Expired = due[Timer] % TickMod /\ UpTo = Limit % TickMod
       /\ due[Timer] <= Limit
  /\ ~early

\* ... nor earlier, unless the daemon or a command was late by an epoch.
EpochInv ==
  ~overslept =>
    /\ \A t \in In(Current) : Base(due[t]) = CurrentBase
    /\ \A t \in In(Overflow) : Base(due[t]) = CurrentBase + TickMod
    /\ pc = "reload" => Limit - due[Timer] < TickMod

Inv ==
  /\ TypeOK /\ MessageInv /\ DaemonInv /\ MemoryInv /\ LinkInv /\ DueInv /\ EpochInv
  /\ NothingOverdue

-----------------------------------------------------------------------------
(* Time. *)

\* A time is the start of its epoch and the tick count at it.
LEMMA ModFacts ==
  ASSUME NEW n \in Nat
  PROVE  /\ n % TickMod \in Ticks /\ Base(n) \in Nat /\ n = Base(n) + (n % TickMod)
         /\ TickMod \in Nat \ {0} /\ MaxTick = TickMod - 1
  BY TimersAssumption DEF Base, Ticks, MaxTick

\* The start of an epoch is a multiple of the length of an epoch.
LEMMA Mult ==
  ASSUME NEW n \in Nat
  PROVE  Base(n) = TickMod * (n \div TickMod) /\ n \div TickMod \in Nat
  BY TimersAssumption DEF Base

\* The next multiple is no larger than any larger one.
LEMMA MulMono ==
  ASSUME NEW M \in Nat, NEW q \in Nat, NEW r \in Nat, q < r
  PROVE  M * q + M <= M * r
<1>1. r >= q + 1
  OBVIOUS
<1>2. r - (q + 1) \in Nat
  BY <1>1
<1>3. M * (r - (q + 1)) >= 0
  BY <1>2
<1>4. M * r = M * (q + 1) + M * (r - (q + 1)) 
  OBVIOUS
<1>5. M * (q + 1) = M * q + M
  OBVIOUS
<1> QED
  BY <1>3, <1>4, <1>5

\* Epochs begin at least their length apart, and follow one another.
LEMMA Bases ==
  ASSUME NEW n \in Nat, NEW m \in Nat, Base(n) < Base(m)
  PROVE  Base(n) + TickMod = Base(m) \/ Base(n) + 2 * TickMod <= Base(m)
<1> DEFINE q == n \div TickMod
           r == m \div TickMod
<1>1. q \in Nat /\ r \in Nat /\ Base(n) = TickMod * q /\ Base(m) = TickMod * r
  BY Mult
<1>2. TickMod \in Nat /\ Base(n) \in Nat /\ Base(m) \in Nat
  BY ModFacts
<1> HIDE DEF q, r
<1>3. q < r
  <2>1. r < q => Base(m) + TickMod <= Base(n)
    BY <1>1, <1>2, MulMono
  <2> QED
    BY <1>1, <1>2, <2>1
<1>4. TickMod * (q + 1) = Base(n) + TickMod
  BY <1>1, <1>2
<1>5. CASE r = q + 1
  BY <1>1, <1>4, <1>5
<1>6. CASE q + 1 < r
  <2>1. TickMod * (q + 1) + TickMod <= TickMod * r
    BY <1>1, <1>2, <1>6, MulMono
  <2> QED
    BY <1>1, <1>2, <1>4, <2>1
<1> QED
  BY <1>1, <1>3, <1>5, <1>6

\* A multiple of their length and a tick tell the epoch of a time and its tick count.
LEMMA BaseIs ==
  ASSUME NEW k \in Nat, NEW q \in Nat, NEW s \in Ticks, k = TickMod * q + s
  PROVE  Base(k) = TickMod * q /\ k % TickMod = s
<1> DEFINE r == k \div TickMod
<1>1. r \in Nat /\ Base(k) = TickMod * r
  BY Mult
<1>2. k % TickMod \in Ticks /\ k = Base(k) + (k % TickMod) /\ TickMod \in Nat
  BY ModFacts
<1>3. TickMod * q \in Nat /\ TickMod * r \in Nat
  BY <1>1, <1>2
<1> HIDE DEF r
<1>4. CASE r < q
  BY <1>1, <1>2, <1>3, <1>4, MulMono DEF Ticks, MaxTick
<1>5. CASE q < r
  BY <1>1, <1>2, <1>3, <1>5, MulMono DEF Ticks, MaxTick
<1>6. CASE q = r
  BY <1>1, <1>2, <1>3, <1>6 DEF Ticks, MaxTick
<1> QED
  BY <1>1, <1>4, <1>5, <1>6

\* A remainder of a number that is less than a modulus away from its range.
LEMMA ModOnce ==
  ASSUME NEW n \in Int, NEW m \in Nat \ {0}, -m <= n, n < 2 * m
  PROVE  n % m = IF n < 0 THEN n + m ELSE IF n < m THEN n ELSE n - m
<1>1. CASE n < 0
  BY <1>1
<1>2. CASE 0 <= n /\ n < m
  BY <1>2
<1>3. CASE m <= n
  BY <1>3
<1> QED
  BY <1>1, <1>2, <1>3

\* The tick count and the epoch after p more ticks: the sum of tick counts wraps once, or not.
LEMMA Advance ==
  ASSUME NEW n \in Nat, NEW p \in 1 .. MaxTick
  PROVE  LET s == (n % TickMod) + p
         IN  /\ Plus(n % TickMod, p) = IF s < TickMod THEN s ELSE s - TickMod
             /\ (n + p) % TickMod = Plus(n % TickMod, p)
             /\ Base(n + p) = IF s < TickMod THEN Base(n) ELSE Base(n) + TickMod
<1> DEFINE x == n % TickMod
           s == x + p
           q == n \div TickMod
<1>1. /\ x \in 0 .. TickMod - 1 /\ n = Base(n) + x /\ TickMod \in Nat \ {0}
      /\ p \in 1 .. TickMod - 1
  BY ModFacts DEF Ticks
<1>2. q \in Nat /\ Base(n) = TickMod * q
  BY Mult
<1> HIDE DEF x, q
<1>3. /\ s \in Nat /\ s < 2 * TickMod /\ -TickMod <= s /\ ~(s < 0)
      /\ n + p = Base(n) + s
  BY <1>1, <1>2
<1> HIDE DEF s
<1>4. s % TickMod = IF s < TickMod THEN s ELSE s - TickMod
  <2>1. CASE s < TickMod
    BY <1>1, <1>3, <2>1
  <2>2. CASE TickMod <= s
    BY <1>1, <1>3, <2>2
  <2> QED
    BY <1>1, <1>3, <2>1, <2>2
<1>5. CASE s < TickMod
  <2>1. s \in Ticks /\ n + p = TickMod * q + s
    BY <1>1, <1>2, <1>3, <1>5, ModFacts DEF Ticks
  <2>2. Base(n + p) = TickMod * q /\ (n + p) % TickMod = s
    BY <1>2, <2>1, BaseIs
  <2> QED
    BY <1>2, <1>4, <1>5, <2>2 DEF Plus, s, x
<1>6. CASE ~(s < TickMod)
  <2>1. TickMod * (q + 1) = Base(n) + TickMod
    BY <1>1, <1>2
  <2>2. s - TickMod \in Ticks
    <3>1. TickMod \in Nat /\ s \in Nat /\ TickMod <= s /\ s < 2 * TickMod
      BY <1>1, <1>3, <1>6
    <3>2. s - TickMod \in 0 .. TickMod - 1
      BY <3>1
    <3> QED
      BY <3>2 DEF Ticks, MaxTick
  <2>3. n + p = TickMod * (q + 1) + (s - TickMod)
    BY <1>1, <1>2, <1>3, <2>1
  <2>4. Base(n + p) = TickMod * (q + 1) /\ (n + p) % TickMod = s - TickMod
    BY <1>2, <2>2, <2>3, BaseIs
  <2> QED
    BY <1>4, <1>6, <2>1, <2>4 DEF Plus, s, x
<1> QED
  BY <1>5, <1>6

\* What HasPassed finds about a time d, one period p later, at the time u: a passed expiry is one
\* that is not after u; one that is not passed is in the epoch of u or in the next, as it tells by
\* the comparison of their tick counts, and after u if d is less than an epoch ago.
LEMMA Passed ==
  ASSUME NEW d \in Nat, NEW u \in Nat, d <= u, NEW p \in 1 .. MaxTick
  PROVE  LET next == Plus(d % TickMod, p) IN
         /\ next = (d + p) % TickMod
         /\ HasPassed(next, u % TickMod, d % TickMod, p) => d + p <= u
         /\ ~HasPassed(next, u % TickMod, d % TickMod, p) =>
              /\ Base(d + p) <= IF next <= u % TickMod THEN Base(u) + TickMod ELSE Base(u)
              /\ u - d < TickMod =>
                   /\ d + p > u
                   /\ Base(d + p) = IF next <= u % TickMod THEN Base(u) + TickMod ELSE Base(u)
<1> DEFINE next == Plus(d % TickMod, p)
           x == d % TickMod
           y == u % TickMod
           s == x + p
<1>1. /\ x \in 0 .. TickMod - 1 /\ d = Base(d) + x /\ Base(d) \in Nat
      /\ y \in 0 .. TickMod - 1 /\ u = Base(u) + y /\ Base(u) \in Nat
      /\ TickMod \in Nat \ {0} /\ p \in 1 .. TickMod - 1
  BY ModFacts DEF Ticks
<1>2. /\ next = IF s < TickMod THEN s ELSE s - TickMod
      /\ (d + p) % TickMod = next
      /\ Base(d + p) = IF s < TickMod THEN Base(d) ELSE Base(d) + TickMod
  BY Advance
<1>3. /\ Base(d) < Base(u) => Base(d) + TickMod = Base(u) \/ Base(d) + 2 * TickMod <= Base(u)
      /\ Base(u) < Base(d) => Base(u) + TickMod = Base(d) \/ Base(u) + 2 * TickMod <= Base(d)
  BY Bases
<1>4. HasPassed(next, y, x, p) <=>
        IF next <= y THEN (IF y < x THEN y - x + TickMod ELSE y - x) >= p
                     ELSE y < x /\ next >= x
  <2>1. (y - x) % TickMod = IF y < x THEN y - x + TickMod ELSE y - x
    <3>1. y - x \in Int /\ -TickMod <= y - x /\ y - x < TickMod /\ y - x < 2 * TickMod
      BY <1>1
    <3>2. (y - x) % TickMod = IF y - x < 0 THEN y - x + TickMod
                              ELSE IF y - x < TickMod THEN y - x ELSE y - x - TickMod
      BY <1>1, <3>1, ModOnce
    <3> QED
      BY <1>1, <3>1, <3>2
  <2> QED
    BY <2>1 DEF HasPassed
<1> HIDE DEF next, x, y
<1>5. Base(d) <= Base(u)
  BY <1>1, <1>3
<1>6. HasPassed(next, y, x, p) => d + p <= u
  BY <1>1, <1>2, <1>3, <1>4
<1>7. ~HasPassed(next, y, x, p) => Base(d + p) <= IF next <= y THEN Base(u) + TickMod ELSE Base(u)
  BY <1>1, <1>2, <1>3, <1>4
<1>8. ASSUME ~HasPassed(next, y, x, p), u - d < TickMod
      PROVE  /\ d + p > u
             /\ Base(d + p) = IF next <= y THEN Base(u) + TickMod ELSE Base(u)
  <2>1. CASE Base(d) = Base(u)
    BY <1>1, <1>2, <1>4, <1>8, <2>1
  <2>2. CASE Base(d) # Base(u)
    <3>1. Base(d) + TickMod = Base(u)
      BY <1>1, <1>3, <1>5, <1>8, <2>2
    <3> QED
      BY <1>1, <1>2, <1>4, <1>8, <3>1
  <2> QED
    BY <2>1, <2>2
<1> QED
  BY <1>2, <1>6, <1>7, <1>8 DEF next, x, y
-----------------------------------------------------------------------------
(* The lists. *)

\* Sorted, for any expiries.
SortedBy(f, list) ==
  \A i, j \in DOMAIN list : i < j => list[i] # list[j] /\ f[list[i]] <= f[list[j]]

\* The places after k, counted from the next one.
LEMMA Shifted ==
  ASSUME NEW k \in Int, NEW n \in Int, NEW i \in Int
  PROVE  k + 1 \in Int /\ n - (k + 1) + 1 = n - k /\ (k + 1) + i - 1 = k + i
OBVIOUS

\* A list without one of its timers is sorted and has the others.
LEMMA RemovedOne ==
  ASSUME NEW f, NEW q \in Seq(Timers), SortedBy(f, q), NEW k \in DOMAIN q, NEW r,
         r = SubSeq(q, 1, k - 1) \o SubSeq(q, k + 1, Len(q))
  PROVE  r \in Seq(Timers) /\ SortedBy(f, r) /\ In(r) = In(q) \ {q[k]}
<1> DEFINE n == Len(q)
           a == SubSeq(q, 1, k - 1)
           b == SubSeq(q, k + 1, n)
<1>1. /\ n \in Nat /\ k \in 1 .. n /\ DOMAIN q = 1 .. n
      /\ \A i \in 1 .. n : q[i] \in Timers
  OBVIOUS
<1>2. /\ a \in Seq(Timers) /\ Len(a) = k - 1
      /\ \A i \in 1 .. k - 1 : a[i] = q[i]
  BY <1>1, SubSeqProperties
<1>3. /\ b \in Seq(Timers) /\ Len(b) = n - k
      /\ \A i \in 1 .. n - k : b[i] = q[k + i]
  <2>1. b \in Seq(Timers) /\ Len(b) = IF k + 1 <= n THEN n - (k + 1) + 1 ELSE 0
    BY <1>1, SubSeqProperties
  <2>2. Len(b) = n - k
    BY <1>1, <2>1
  <2>3. ASSUME NEW i \in 1 .. n - k PROVE b[i] = q[k + i]
    <3> DEFINE m == k + 1
    <3>1. m \in Int /\ n - m + 1 = n - k /\ m + i - 1 = k + i
      <4>1. k \in Int /\ n \in Int /\ i \in Int
        BY <1>1
      <4> QED
        BY <4>1, Shifted
    <3>2. \A j \in m .. n : q[j] \in Timers
      BY <1>1, <3>1
    <3> HIDE DEF m
    <3>3. \A j \in 1 .. n - m + 1 : SubSeq(q, m, n)[j] = q[m + j - 1]
      BY <1>1, <3>1, <3>2, SubSeqProperties
    <3> QED
      BY <3>1, <3>3 DEF m
  <2> QED
    BY <2>1, <2>2, <2>3
<1>4. r = a \o b
  OBVIOUS
<1> HIDE DEF n, a, b
\* Where the timers that stay are in the list.
<1> DEFINE at(i) == IF i < k THEN i ELSE i + 1
<1>5. /\ \A i \in 1 .. n - 1 : at(i) \in 1 .. n /\ at(i) # k
      /\ \A i, j \in 1 .. n - 1 : i < j => at(i) < at(j)
      /\ \A j \in 1 .. n : j # k => \E i \in 1 .. n - 1 : at(i) = j
  <2>1. ASSUME NEW j \in 1 .. n, j # k PROVE \E i \in 1 .. n - 1 : at(i) = j
    <3>1. CASE j < k
      <4>1. j \in 1 .. n - 1 /\ at(j) = j
        BY <1>1, <3>1
      <4> QED
        BY <4>1
    <3>2. CASE j > k
      <4>1. j - 1 \in 1 .. n - 1 /\ at(j - 1) = j
        BY <1>1, <3>2
      <4> QED
        BY <4>1
    <3> QED
      BY <1>1, <2>1, <3>1, <3>2
  <2> QED
    BY <1>1, <2>1
<1>6. r \in Seq(Timers) /\ DOMAIN r = 1 .. n - 1
  <2>1. r \in Seq(Timers) /\ Len(r) = Len(a) + Len(b)
    BY <1>2, <1>3, <1>4, ConcatProperties
  <2>2. Len(r) = n - 1
    BY <1>1, <1>2, <1>3, <2>1
  <2> QED
    BY <2>1, <2>2
<1>7. ASSUME NEW i \in 1 .. n - 1 PROVE r[i] = q[at(i)]
  <2>1. i \in 1 .. Len(a) + Len(b)
    BY <1>1, <1>2, <1>3
  <2>2. \A j \in 1 .. Len(a) + Len(b) : (a \o b)[j] = IF j <= Len(a) THEN a[j] ELSE b[j - Len(a)]
    BY <1>2, <1>3, ConcatProperties
  <2>3. r[i] = IF i <= k - 1 THEN a[i] ELSE b[i - (k - 1)]
    BY <1>2, <1>4, <2>1, <2>2
  <2>4. CASE i < k
    BY <1>1, <1>2, <2>3, <2>4
  <2>5. CASE ~(i < k)
    <3>1. i - (k - 1) \in 1 .. n - k
      BY <1>1, <2>5
    <3>2. k + (i - (k - 1)) = i + 1
      BY <1>1, <2>5
    <3>3. ~(i <= k - 1)
      BY <1>1, <2>5
    <3>4. b[i - (k - 1)] = q[k + (i - (k - 1))]
      BY <1>3, <3>1
    <3> QED
      BY <2>3, <2>5, <3>2, <3>3, <3>4
  <2> QED
    BY <2>4, <2>5
<1> HIDE DEF at
<1>8. SortedBy(f, r)
  <2> SUFFICES ASSUME NEW i \in 1 .. n - 1, NEW j \in 1 .. n - 1, i < j
               PROVE  r[i] # r[j] /\ f[r[i]] <= f[r[j]]
    BY <1>6 DEF SortedBy
  <2>1. at(i) \in DOMAIN q /\ at(j) \in DOMAIN q /\ at(i) < at(j)
    BY <1>1, <1>5
  <2>2. q[at(i)] # q[at(j)] /\ f[q[at(i)]] <= f[q[at(j)]]
    BY <2>1 DEF SortedBy
  <2> QED
    BY <1>7, <2>2
<1>9. ASSUME NEW u \in In(r) PROVE u \in In(q) \ {q[k]}
  <2>1. PICK i \in 1 .. n - 1 : r[i] = u
    BY <1>6 DEF In
  <2>2. at(i) \in 1 .. n /\ at(i) # k /\ q[at(i)] = u
    BY <1>5, <1>7, <2>1
  <2>3. at(i) < k \/ k < at(i)
    BY <1>1, <2>2
  <2> QED
    BY <1>1, <2>2, <2>3 DEF In, SortedBy
<1>10. ASSUME NEW u \in In(q) \ {q[k]} PROVE u \in In(r)
  <2>1. PICK j \in 1 .. n : q[j] = u /\ j # k
    BY <1>1, <1>10 DEF In
  <2>2. PICK i \in 1 .. n - 1 : at(i) = j
    BY <1>5, <2>1
  <2> QED
    BY <1>6, <1>7, <2>1, <2>2 DEF In
<1> QED
  BY <1>6, <1>8, <1>9, <1>10

\* The same of Without, whether the timer is in the list or not.
LEMMA RemovedAny ==
  ASSUME NEW f, NEW q \in Seq(Timers), SortedBy(f, q), NEW t
  PROVE  /\ Without(q, t) \in Seq(Timers) /\ SortedBy(f, Without(q, t))
         /\ In(Without(q, t)) = In(q) \ {t}
<1>1. CASE t \in In(q)
  <2> DEFINE k == CHOOSE j \in DOMAIN q : q[j] = t
  <2>1. k \in DOMAIN q /\ q[k] = t
    BY <1>1 DEF In
  <2>2. Without(q, t) = SubSeq(q, 1, k - 1) \o SubSeq(q, k + 1, Len(q))
    BY <1>1 DEF Without
  <2> HIDE DEF k
  <2> QED
    BY <2>1, <2>2, RemovedOne
<1>2. CASE t \notin In(q)
  BY <1>2 DEF Without
<1> QED
  BY <1>1, <1>2

\* Taking the head off.
LEMMA RemovedHead ==
  ASSUME NEW f, NEW q \in Seq(Timers), SortedBy(f, q), q # <<>>
  PROVE  /\ Head(q) \in Timers /\ Head(q) \in In(q)
         /\ Tail(q) \in Seq(Timers) /\ SortedBy(f, Tail(q)) /\ In(Tail(q)) = In(q) \ {Head(q)}
         /\ \A u \in In(q) : u # Head(q) => f[Head(q)] <= f[u]
<1>1. /\ Len(q) \in Nat \ {0} /\ DOMAIN q = 1 .. Len(q) /\ Head(q) = q[1]
      /\ \A i \in 1 .. Len(q) : q[i] \in Timers
  BY EmptySeq
<1>2. /\ Tail(q) \in Seq(Timers) /\ DOMAIN Tail(q) = 1 .. Len(q) - 1
      /\ \A i \in 1 .. Len(q) - 1 : Tail(q)[i] = q[i + 1]
  BY <1>1, HeadTailProperties
<1>3. SortedBy(f, Tail(q))
  BY <1>1, <1>2 DEF SortedBy
<1>4. ASSUME NEW u \in In(Tail(q)) PROVE u \in In(q) \ {Head(q)}
  <2>1. PICK i \in 1 .. Len(q) - 1 : Tail(q)[i] = u
    BY <1>2 DEF In
  <2>2. i + 1 \in 1 .. Len(q) /\ 1 \in 1 .. Len(q) /\ 1 < i + 1 /\ q[i + 1] = u
    BY <1>1, <1>2, <2>1
  <2> QED
    BY <1>1, <2>2 DEF In, SortedBy
<1>5. ASSUME NEW u \in In(q) \ {Head(q)} PROVE u \in In(Tail(q)) /\ f[Head(q)] <= f[u]
  <2>1. PICK i \in 1 .. Len(q) : q[i] = u
    BY <1>1 DEF In
  <2>2. i - 1 \in 1 .. Len(q) - 1 /\ 1 \in 1 .. Len(q) /\ 1 < i /\ (i - 1) + 1 = i
    BY <1>1, <1>5, <2>1
  <2>3. Tail(q)[i - 1] = u
    BY <1>2, <2>1, <2>2
  <2> QED
    BY <1>1, <1>2, <2>1, <2>2, <2>3 DEF In, SortedBy
<1>6. Head(q) \in Timers /\ Head(q) \in In(q)
  BY <1>1 DEF In
<1> QED
  BY <1>2, <1>3, <1>4, <1>5, <1>6

\* The numbers up to n are n.
LEMMA Numbers == ASSUME NEW n \in Nat PROVE IsFiniteSet(1 .. n) /\ Cardinality(1 .. n) = n
<1>1. IsFiniteSet(1 .. n) /\ Cardinality(1 .. n) = IF 1 > n THEN 0 ELSE n - 1 + 1
  BY FS_Interval
<1>2. CASE n = 0
  BY <1>1, <1>2
<1>3. CASE n # 0
  BY <1>1, <1>3
<1> QED
  BY <1>2, <1>3

\* A set of them that has all below each of its numbers is those up to its cardinality.
LEMMA Prefix ==
  ASSUME NEW l \in Nat, NEW S \in SUBSET (1 .. l), \A i \in S : 1 .. i \subseteq S
  PROVE  Cardinality(S) \in 0 .. l /\ S = 1 .. Cardinality(S)
<1> DEFINE n == Cardinality(S)
<1>1. IsFiniteSet(1 .. l) /\ Cardinality(1 .. l) = l
  BY Numbers
<1>2. IsFiniteSet(S) /\ n <= l
  <2>1. IsFiniteSet(S) /\ Cardinality(S) <= Cardinality(1 .. l)
    BY <1>1, FS_Subset
  <2> QED
    BY <1>1, <2>1
<1>3. n \in Nat
  BY <1>2, FS_CardinalityType
<1> HIDE DEF n
<1>4. ASSUME NEW i \in S PROVE i \in 1 .. n
  <2>1. i \in Nat /\ 1 .. i \in SUBSET S
    OBVIOUS
  <2>2. Cardinality(1 .. i) = i
    BY <2>1, Numbers
  <2>3. Cardinality(1 .. i) <= Cardinality(S)
    BY <1>2, <2>1, FS_Subset
  <2> QED
    BY <1>3, <2>2, <2>3 DEF n
<1>5. S \in SUBSET (1 .. n)
  BY <1>4
<1>6. IsFiniteSet(1 .. n) /\ Cardinality(1 .. n) = Cardinality(S)
  BY <1>3, Numbers DEF n
<1>7. 1 .. n = S
  BY <1>5, <1>6, FS_Subset
<1> QED
  BY <1>2, <1>3, <1>7 DEF n

\* In a sorted list those that expire no later than v come first.
FirstAre(f, q, v, n) ==
  n \in 0 .. Len(q) /\ \A i \in DOMAIN q : f[q[i]] <= v <=> i <= n
LEMMA FirstOnes ==
  ASSUME NEW f \in [Timers -> Int], NEW q \in Seq(Timers), SortedBy(f, q), NEW v \in Int
  PROVE  FirstAre(f, q, v, Cardinality({i \in DOMAIN q : f[q[i]] <= v}))
<1> DEFINE l == Len(q)
           S == {i \in DOMAIN q : f[q[i]] <= v}
<1>1. /\ l \in Nat /\ DOMAIN q = 1 .. l
      /\ \A i \in 1 .. l : q[i] \in Timers /\ f[q[i]] \in Int
  OBVIOUS
<1>2. \A i \in S : i \in 1 .. l /\ f[q[i]] <= v
  BY <1>1
<1>3. \A i \in 1 .. l : f[q[i]] <= v => i \in S
  BY <1>1
<1> HIDE DEF l, S
<1>4. ASSUME NEW i \in S PROVE 1 .. i \subseteq S
  <2> SUFFICES ASSUME NEW j \in 1 .. i PROVE j \in S
    OBVIOUS
  <2>1. i \in 1 .. l /\ j \in 1 .. l /\ (j < i \/ j = i) /\ f[q[i]] <= v
    BY <1>1, <1>2
  <2>2. CASE j < i
    <3>1. f[q[j]] <= f[q[i]]
      BY <1>1, <2>1, <2>2 DEF SortedBy
    <3> QED
      BY <1>1, <1>3, <2>1, <3>1
  <2> QED
    BY <2>1, <2>2
<1>5. S \in SUBSET (1 .. l)
  BY <1>2
<1>6. Cardinality(S) \in 0 .. l /\ S = 1 .. Cardinality(S)
  BY <1>1, <1>4, <1>5, Prefix
<1>7. \A i \in 1 .. l : f[q[i]] <= v <=> i <= Cardinality(S)
  BY <1>1, <1>2, <1>3, <1>6
<1> QED
  BY <1>1, <1>6, <1>7 DEF S, l, FirstAre

\* The list r is q with t behind its first n timers.
Splice(q, n, t) == SubSeq(q, 1, n) \o <<t>> \o SubSeq(q, n + 1, Len(q))
Behind(i, n) == IF i <= n THEN i ELSE i + 1
IsSplice(r, q, n, t) ==
  /\ r \in Seq(Timers) /\ DOMAIN r = 1 .. Len(q) + 1 /\ r[n + 1] = t
  /\ \A i \in 1 .. Len(q) : r[Behind(i, n)] = q[i]

\* The parts of the list have their timers where the whole has them.
LEMMA Spliced ==
  ASSUME NEW q \in Seq(Timers), NEW t \in Timers, NEW n \in 0 .. Len(q)
  PROVE  IsSplice(Splice(q, n, t), q, n, t)
<1> DEFINE l == Len(q)
           a == SubSeq(q, 1, n)
           b == SubSeq(q, n + 1, l)
           c == a \o <<t>>
           r == c \o b
<1>1. /\ l \in Nat /\ DOMAIN q = 1 .. l /\ n \in 0 .. l
      /\ \A i \in 1 .. l : q[i] \in Timers
  OBVIOUS
<1>2. a \in Seq(Timers) /\ Len(a) = n /\ \A i \in 1 .. n : a[i] = q[i]
  BY <1>1, SubSeqProperties
<1>3. /\ b \in Seq(Timers) /\ Len(b) = l - n
      /\ \A i \in 1 .. l - n : b[i] = q[n + i]
  <2>1. b \in Seq(Timers) /\ Len(b) = IF n + 1 <= l THEN l - (n + 1) + 1 ELSE 0
    BY <1>1, SubSeqProperties
  <2>2. ASSUME NEW i \in 1 .. l - n PROVE b[i] = q[n + i]
    <3>1. i \in 1 .. l - (n + 1) + 1 /\ (n + 1) + i - 1 = n + i
      BY <1>1
    <3>2. b[i] = q[(n + 1) + i - 1]
      BY <1>1, <3>1, SubSeqProperties
    <3> QED
      BY <3>1, <3>2
  <2> HIDE DEF b, l
  <2>3. Len(b) = l - n
    BY <1>1, <2>1
  <2> QED
    BY <2>1, <2>2, <2>3
<1>4. r = c \o b
  OBVIOUS
<1> HIDE DEF a, b, l, r
<1>5. c \in Seq(Timers) /\ Len(c) = n + 1 /\ c[n + 1] = t /\ \A i \in 1 .. n : c[i] = q[i]
  <2>1. <<t>> \in Seq(Timers) /\ Len(<<t>>) = 1 /\ <<t>>[1] = t
    OBVIOUS
  <2>2. /\ c \in Seq(Timers) /\ Len(c) = n + 1
        /\ \A i \in 1 .. n + 1 : c[i] = IF i <= n THEN a[i] ELSE <<t>>[i - n]
    BY <1>1, <1>2, <2>1, ConcatProperties
  <2>3. (n + 1) - n = 1 /\ ~(n + 1 <= n) /\ n + 1 \in 1 .. n + 1
    BY <1>1
  <2>4. \A i \in 1 .. n : i \in 1 .. n + 1 /\ i <= n
    BY <1>1
  <2> QED
    BY <1>2, <2>1, <2>2, <2>3, <2>4
<1> HIDE DEF c
<1>6. r \in Seq(Timers) /\ DOMAIN r = 1 .. l + 1
  <2>1. r \in Seq(Timers) /\ Len(r) = Len(c) + Len(b)
    BY <1>3, <1>4, <1>5, ConcatProperties
  <2>2. Len(r) = l + 1
    BY <1>1, <1>3, <1>5, <2>1
  <2> QED
    BY <2>1, <2>2
<1>7. \A i \in 1 .. l + 1 : r[i] = IF i <= n + 1 THEN c[i] ELSE b[i - (n + 1)]
  <2>1. Len(c) + Len(b) = l + 1
    BY <1>1, <1>3, <1>5
  <2>2. \A i \in 1 .. Len(c) + Len(b) : (c \o b)[i] = IF i <= Len(c) THEN c[i] ELSE b[i - Len(c)]
    BY <1>3, <1>5, ConcatProperties
  <2> QED
    BY <1>4, <1>5, <2>1, <2>2
<1>8. r[n + 1] = t
  <2>1. n + 1 \in 1 .. l + 1 /\ n + 1 <= n + 1
    BY <1>1
  <2> QED
    BY <1>5, <1>7, <2>1
<1>9. ASSUME NEW i \in 1 .. l PROVE r[IF i <= n THEN i ELSE i + 1] = q[i]
  <2>1. CASE i <= n
    <3>1. i \in 1 .. n /\ i \in 1 .. l + 1 /\ i <= n + 1
      BY <1>1, <2>1
    <3> QED
      BY <1>5, <1>7, <2>1, <3>1
  <2>2. CASE ~(i <= n)
    <3>1. i + 1 \in 1 .. l + 1 /\ ~(i + 1 <= n + 1)
      BY <1>1, <2>2
    <3>2. (i + 1) - (n + 1) \in 1 .. l - n
      BY <1>1, <2>2
    <3>3. n + ((i + 1) - (n + 1)) = i
      BY <1>1
    <3>4. r[i + 1] = b[(i + 1) - (n + 1)]
      BY <1>7, <3>1
    <3> QED
      BY <1>3, <2>2, <3>2, <3>3, <3>4
  <2> QED
    BY <2>1, <2>2
<1> QED
  BY <1>6, <1>8, <1>9 DEF a, b, c, r, l, Splice, IsSplice, Behind

\* A sorted list with one more timer, behind those that expire no later.
Expiries == [Timers -> Int]
Setting(f, t, v) == [f EXCEPT ![t] = v]
LEMMA InsertedOne ==
  ASSUME NEW f \in Expiries, NEW q \in Seq(Timers), SortedBy(f, q),
         NEW t \in Timers, t \notin In(q), NEW v \in Int,
         NEW n, FirstAre(f, q, v, n),
         NEW r, IsSplice(r, q, n, t)
  PROVE  SortedBy(Setting(f, t, v), r) /\ In(r) = In(q) \cup {t}
<1> DEFINE l == Len(q)
           at(i) == IF i <= n THEN i ELSE i + 1
           g == Setting(f, t, v)
<1>1. /\ l \in Nat /\ DOMAIN q = 1 .. l /\ n \in 0 .. l /\ DOMAIN r = 1 .. l + 1
      /\ \A i \in 1 .. l : q[i] \in Timers /\ f[q[i]] \in Int
      /\ \A i \in 1 .. l : f[q[i]] <= v <=> i <= n
      /\ r[n + 1] = t
  <2>1. l \in Nat /\ DOMAIN q = 1 .. l /\ \A i \in 1 .. l : q[i] \in Timers
    OBVIOUS
  <2>2. \A u \in Timers : f[u] \in Int
    BY DEF Expiries
  <2>3. DOMAIN r = 1 .. l + 1 /\ r[n + 1] = t
    BY DEF IsSplice
  <2>4. n \in 0 .. l /\ \A i \in 1 .. l : f[q[i]] <= v <=> i <= n
    BY <2>1 DEF FirstAre
  <2> QED
    BY <2>1, <2>2, <2>3, <2>4
<1>2. \A i \in 1 .. l : r[at(i)] = q[i]
  BY DEF IsSplice, Behind
<1>3. g[t] = v /\ \A i \in 1 .. l : q[i] # t /\ g[q[i]] = f[q[i]]
  BY <1>1 DEF In, Setting, Expiries
<1> HIDE DEF l, g
<1>4. /\ \A i \in 1 .. l : at(i) \in 1 .. l + 1 /\ at(i) # n + 1
      /\ \A j \in 1 .. l + 1 : j # n + 1 => \E i \in 1 .. l : at(i) = j
      /\ \A i, j \in 1 .. l : at(i) < at(j) => i < j
      /\ \A i \in 1 .. l : at(i) < n + 1 <=> i <= n
      /\ \A i \in 1 .. l : n + 1 < at(i) <=> ~(i <= n)
  <2>1. ASSUME NEW j \in 1 .. l + 1, j # n + 1 PROVE \E i \in 1 .. l : at(i) = j
    <3>1. CASE j <= n
      <4>1. j \in 1 .. l /\ at(j) = j
        BY <1>1, <3>1
      <4> QED
        BY <4>1
    <3>2. CASE ~(j <= n)
      <4>1. j - 1 \in 1 .. l /\ ~(j - 1 <= n) /\ (j - 1) + 1 = j
        BY <1>1, <2>1, <3>2
      <4>2. at(j - 1) = j
        BY <4>1
      <4> QED
        BY <4>1, <4>2
    <3> QED
      BY <3>1, <3>2
  <2> QED
    BY <1>1, <2>1
<1> HIDE DEF at
<1>5. In(r) = In(q) \cup {t}
  <2>1. n + 1 \in 1 .. l + 1
    BY <1>1
  <2>2. ASSUME NEW u \in In(r) PROVE u \in In(q) \cup {t}
    <3>1. PICK j \in 1 .. l + 1 : r[j] = u
      BY <1>1 DEF In
    <3>2. ASSUME j # n + 1 PROVE u \in In(q)
      <4>1. PICK i \in 1 .. l : at(i) = j
        BY <1>4, <3>2
      <4>2. q[i] = u
        BY <1>2, <3>1, <4>1
      <4> QED
        BY <1>1, <4>2 DEF In
    <3> QED
      BY <1>1, <3>1, <3>2
  <2>3. ASSUME NEW u \in In(q) PROVE u \in In(r)
    <3>1. PICK i \in 1 .. l : q[i] = u
      BY <1>1 DEF In
    <3>2. r[at(i)] = u /\ at(i) \in 1 .. l + 1
      BY <1>2, <1>4, <3>1
    <3> QED
      BY <1>1, <3>2 DEF In
  <2>4. t \in In(r)
    BY <1>1, <2>1 DEF In
  <2> QED
    BY <2>2, <2>3, <2>4
<1>6. SortedBy(g, r)
  <2> SUFFICES ASSUME NEW i \in 1 .. l + 1, NEW j \in 1 .. l + 1, i < j
               PROVE  r[i] # r[j] /\ g[r[i]] <= g[r[j]]
    BY <1>1 DEF SortedBy
  <2>1. CASE i = n + 1
    <3>1. PICK y \in 1 .. l : at(y) = j
      BY <1>1, <1>4, <2>1
    <3>2. ~(y <= n) /\ r[j] = q[y] /\ ~(f[q[y]] <= v)
      BY <1>1, <1>2, <1>4, <2>1, <3>1
    <3>3. r[i] = t /\ g[t] = v /\ q[y] # t /\ g[q[y]] = f[q[y]] /\ f[q[y]] \in Int
      BY <1>1, <1>3, <2>1
    <3> QED
      BY <3>2, <3>3
  <2>2. CASE j = n + 1
    <3> i # n + 1
      BY <1>1, <2>2
    <3>1. PICK x \in 1 .. l : at(x) = i
      BY <1>4
    <3>2. x <= n /\ r[i] = q[x] /\ f[q[x]] <= v
      BY <1>1, <1>2, <1>4, <2>2, <3>1
    <3>3. r[j] = t /\ g[t] = v /\ q[x] # t /\ g[q[x]] = f[q[x]]
      BY <1>1, <1>3, <2>2
    <3> QED
      BY <3>2, <3>3
  <2>3. CASE i # n + 1 /\ j # n + 1
    <3>1. PICK x \in 1 .. l, y \in 1 .. l : at(x) = i /\ at(y) = j
      BY <1>4, <2>3
    <3>2. x < y /\ r[i] = q[x] /\ r[j] = q[y]
      BY <1>2, <1>4, <3>1
    <3>3. q[x] # q[y] /\ f[q[x]] <= f[q[y]]
      BY <1>1, <3>2 DEF SortedBy
    <3>4. g[q[x]] = f[q[x]] /\ g[q[y]] = f[q[y]]
      BY <1>3
    <3> QED
      BY <3>2, <3>3, <3>4
  <2> QED
    BY <2>1, <2>2, <2>3
<1> QED
  BY <1>5, <1>6 DEF g

\* The expiry of a timer that is in no list may change.
LEMMA SortedStill ==
  ASSUME NEW f \in [Timers -> Int], NEW q \in Seq(Timers), SortedBy(f, q), NEW t, t \notin In(q),
         NEW v
  PROVE  SortedBy([f EXCEPT ![t] = v], q)
<1>1. \A i \in DOMAIN q : q[i] \in Timers /\ q[i] # t
  BY DEF In
<1> QED
  BY <1>1 DEF SortedBy

\* A list with one more timer is sorted by the new expiries, and has the others.
LEMMA InsertedSorted ==
  ASSUME Value \in [Timers -> Int], NEW q \in Seq(Timers), SortedBy(Value, q),
         NEW t \in Timers, t \notin In(q), NEW v \in Int
  PROVE  /\ Inserted(q, t, v) \in Seq(Timers)
         /\ SortedBy([Value EXCEPT ![t] = v], Inserted(q, t, v))
         /\ In(Inserted(q, t, v)) = In(q) \cup {t}
<1>1. PICK n : FirstAre(Value, q, v, n) /\ Inserted(q, t, v) = Splice(q, n, t)
  <2> DEFINE n == Cardinality({i \in DOMAIN q : Value[q[i]] <= v})
  <2>1. FirstAre(Value, q, v, n)
    BY FirstOnes
  <2>2. Inserted(q, t, v) = Splice(q, n, t)
    BY DEF Inserted, Splice
  <2> HIDE DEF n
  <2> QED
    BY <2>1, <2>2
<1>2. n \in 0 .. Len(q)
  BY <1>1 DEF FirstAre
<1>3. IsSplice(Inserted(q, t, v), q, n, t)
  BY <1>1, <1>2, Spliced
<1> DEFINE r == Inserted(q, t, v)
<1>4. IsSplice(r, q, n, t) /\ Value \in Expiries
  BY <1>3 DEF Expiries
<1> HIDE DEF r
<1>5. SortedBy(Setting(Value, t, v), r) /\ In(r) = In(q) \cup {t}
  BY <1>1, <1>4, InsertedOne
<1>6. r \in Seq(Timers)
  BY <1>4 DEF IsSplice
<1> QED
  BY <1>5, <1>6 DEF Setting, r

\* Insert puts a timer that is in no list into the list that the comparison chooses.
LEMMA InsertLists ==
  ASSUME TypeOK, Sorted(Current), Sorted(Overflow), NEW t \in Timers, t \notin Linked,
         NEW next \in Ticks, NEW now \in Ticks, Insert(t, next, now)
  PROVE  /\ Value' = [Value EXCEPT ![t] = next]
         /\ Current' \in Seq(Timers) /\ Overflow' \in Seq(Timers)
         /\ Sorted(Current)' /\ Sorted(Overflow)'
         /\ In(Current)' = IF next <= now THEN In(Current) ELSE In(Current) \cup {t}
         /\ In(Overflow)' = IF next <= now THEN In(Overflow) \cup {t} ELSE In(Overflow)
<1> DEFINE g == [Value EXCEPT ![t] = next]
           c == Inserted(Current, t, next)
           o == Inserted(Overflow, t, next)
<1>1. /\ Value \in [Timers -> Int] /\ next \in Int
      /\ Current \in Seq(Timers) /\ Overflow \in Seq(Timers)
      /\ SortedBy(Value, Current) /\ SortedBy(Value, Overflow)
      /\ t \notin In(Current) /\ t \notin In(Overflow)
  BY ModFacts DEF TypeOK, Ticks, Sorted, SortedBy, Linked
<1>2. SortedBy(g, Current) /\ SortedBy(g, Overflow)
  BY <1>1, SortedStill
<1>3. c \in Seq(Timers) /\ SortedBy(g, c) /\ In(c) = In(Current) \cup {t}
  BY <1>1, InsertedSorted
<1>4. o \in Seq(Timers) /\ SortedBy(g, o) /\ In(o) = In(Overflow) \cup {t}
  BY <1>1, InsertedSorted
<1>5. /\ Value' = g
      /\ IF next <= now THEN Overflow' = o /\ Current' = Current
                        ELSE Current' = c /\ Overflow' = Overflow
  BY DEF Insert
<1> HIDE DEF g, c, o
<1>6. SortedBy(g, Current') /\ SortedBy(g, Overflow')
  BY <1>2, <1>3, <1>4, <1>5
<1>7. Sorted(Current)' /\ Sorted(Overflow)'
  BY <1>5, <1>6 DEF Sorted, SortedBy
<1>8. /\ Current' \in Seq(Timers) /\ Overflow' \in Seq(Timers)
      /\ In(Current') = IF next <= now THEN In(Current) ELSE In(Current) \cup {t}
      /\ In(Overflow') = IF next <= now THEN In(Overflow) \cup {t} ELSE In(Overflow)
  BY <1>1, <1>3, <1>4, <1>5
<1> QED
  BY <1>5, <1>7, <1>8 DEF g

-----------------------------------------------------------------------------
(* Those who send commands, and time. *)

\* The fields of a message about a timer, and where such messages are.
LEMMA Fields ==
  ASSUME NEW m \in MessageType
  PROVE  /\ m.ID \in Commands /\ m.ID # "call" /\ m.Timer \in Timers
         /\ m.Value \in Ticks /\ m.at \in Nat /\ m # None /\ m.Timer # None
<1>1. m.ID \in Commands /\ m.Timer \in Timers /\ m.Value \in Ticks /\ m.at \in Nat
  BY DEF MessageType
<1>2. None \notin Timers /\ None \notin MessageType
  BY TimersAssumption
<1> QED
  BY <1>1, <1>2 DEF Commands

LEMMA Queued ==
  ASSUME TypeOK
  PROVE  /\ \A i \in DOMAIN queue : queue[i].ID # "call" => queue[i] \in MessageType
         /\ \A c \in Tasks : call[c] # None => call[c] \in MessageType
         /\ msg # None => msg \in MessageType
<1>1. \A i \in DOMAIN queue : queue[i] \in MessageType \/ queue[i] = CallMessage
  <2> DEFINE X == MessageType \cup {CallMessage}
  <2>1. queue \in Seq(X)
    BY DEF TypeOK
  <2> HIDE DEF X
  <2>2. \A i \in DOMAIN queue : queue[i] \in X
    BY <2>1
  <2> QED
    BY <2>2 DEF X
<1>2. CallMessage.ID = "call"
  BY DEF CallMessage
<1>3. \A c \in Tasks : call[c] \in MessageType \cup {None}
  BY DEF TypeOK
<1> QED
  BY <1>1, <1>2, <1>3 DEF TypeOK

\* The kind of the messages: what is sent is well-formed and sound.
LEMMA MessageTypes ==
  ASSUME TypeOK, NEW t \in Timers
  PROVE  /\ StartMessage(t) \in MessageType /\ StartMessage(t).ID = "start"
         /\ StartMessage(t).Timer = t /\ Sound(StartMessage(t), time)
         /\ \A m \in Messages(t) : m \in MessageType /\ m.Timer = t /\ Sound(m, time)
<1>1. time \in Nat /\ TickCount \in Ticks /\ 0 \in Ticks /\ Periods \subseteq Ticks
  <2>1. time \in Nat
    BY DEF TypeOK
  <2>2. TickMod \in Nat \ {0} /\ MaxTick = TickMod - 1 /\ time % TickMod \in Ticks
    BY <2>1, ModFacts
  <2>3. Periods \subseteq 1 .. MaxTick
    BY TimersAssumption
  <2> QED
    BY <2>1, <2>2, <2>3 DEF Ticks, TickCount
<1>2. StartMessage(t) \in MessageType
  BY <1>1 DEF StartMessage, MessageType, Commands
<1>3. /\ StartMessage(t).ID = "start" /\ StartMessage(t).Timer = t /\ StartMessage(t).at = time
      /\ StartMessage(t).Value = TickCount
  BY DEF StartMessage
<1>4. Sound(StartMessage(t), time)
  BY <1>1, <1>3 DEF Sound, TickCount
<1>5. ASSUME NEW m \in Messages(t) PROVE m \in MessageType /\ m.Timer = t /\ Sound(m, time)
  <2>1. /\ m \in [ID : Commands \ {"start"}, Timer : {t}, Value : Periods \cup {0}, at : {0}]
        /\ m.ID = "change" <=> m.Value # 0
    BY DEF Messages
  <2>2. /\ m.ID \in Commands \ {"start"} /\ m.Timer = t
        /\ m.Value \in Periods \cup {0} /\ m.at = 0
    BY <2>1
  <2>3. m.Value \in Ticks /\ m.at \in Nat
    BY <1>1, <2>2
  <2>4. m \in MessageType
    BY <2>1, <2>2, <2>3 DEF MessageType
  <2> QED
    BY <2>1, <2>2, <2>4 DEF Sound
<1> QED
  BY <1>2, <1>3, <1>4, <1>5

\* What the queue holds once a message has been sent.
LEMMA Appended ==
  ASSUME TypeOK, NEW m \in MessageType \cup {CallMessage}, Enqueue(m)
  PROVE  /\ queue' \in Seq(MessageType \cup {CallMessage}) /\ Len(queue') <= QueueLength
         /\ Len(queue) \in Nat /\ DOMAIN queue = 1 .. Len(queue)
         /\ DOMAIN queue' = 1 .. Len(queue) + 1
         /\ \A i \in DOMAIN queue : queue'[i] = queue[i]
         /\ queue'[Len(queue) + 1] = m
         /\ pc' = IF pc = "blocked" THEN "recv" ELSE pc
         /\ wake' = Forever
<1> DEFINE X == MessageType \cup {CallMessage}
<1>1. queue \in Seq(X) /\ m \in X /\ queue' = Append(queue, m) /\ QueueLength \in Nat
  BY TimersAssumption DEF TypeOK, Enqueue
<1>2. Len(queue) < QueueLength /\ pc' = IF pc = "blocked" THEN "recv" ELSE pc
  BY DEF Enqueue
<1>3. wake' = Forever
  BY DEF Enqueue
<1> HIDE DEF X
<1>4. /\ queue' \in Seq(X) /\ Len(queue') = Len(queue) + 1
      /\ Len(queue) \in Nat /\ DOMAIN queue = 1 .. Len(queue)
      /\ DOMAIN queue' = 1 .. Len(queue) + 1
      /\ \A i \in DOMAIN queue : queue'[i] = queue[i]
      /\ queue'[Len(queue) + 1] = m
  BY <1>1
<1> QED
  BY <1>1, <1>2, <1>3, <1>4 DEF X

\* A step that leaves alone what the daemon works on: all those that are not the daemon's.
Outside ==
  /\ UNCHANGED daemonVars
  /\ time' \in {time, time + 1}
  /\ pc' = pc \/ (pc \in {"blocked", "recv"} /\ pc' \in {"recv", "loop"})
  /\ wake' = wake \/ pc' # "blocked"
  /\ memory' \in [Timers -> {"live", "deleting", "freed"}]
  /\ \A t \in Timers : memory'[t] = "freed" <=> memory[t] = "freed"

\* It keeps what concerns the daemon.
LEMMA OutsideKeeps ==
  ASSUME Inv, Outside
  PROVE  DaemonInv' /\ LinkInv' /\ DueInv' /\ EpochInv' /\ NothingOverdue'
<1> USE DEF Inv
<1>1. /\ Current' = Current /\ Overflow' = Overflow /\ Value' = Value /\ Period' = Period
      /\ Active' = Active /\ msg' = msg /\ xLastTime' = xLastTime /\ sampled' = sampled
      /\ Timer' = Timer /\ Expired' = Expired /\ UpTo' = UpTo /\ back' = back
      /\ due' = due /\ early' = early /\ overslept' = overslept
  BY DEF Outside, daemonVars, listVars, sampleVars, reloadVars, historyVars
<1>2. /\ In(Current)' = In(Current) /\ In(Overflow)' = In(Overflow) /\ Linked' = Linked
      /\ InSwitch' = InSwitch /\ CurrentBase' = CurrentBase /\ Limit' = Limit
      /\ Sorted(Current)' = Sorted(Current) /\ Sorted(Overflow)' = Sorted(Overflow)
      /\ Base(sampled)' = Base(sampled)
  BY <1>1 DEF In, Linked, InSwitch, CurrentBase, Limit, Sorted, Base, Outside
<1>3. DaemonInv'
  BY <1>1, <1>2 DEF DaemonInv, Outside, TypeOK
<1>4. LinkInv'
  <2>1. \A t \in Timers : Apart(t)' = Apart(t)
    BY <1>1 DEF Apart, Outside
  <2>2. msg # None => msg.Timer \in Timers
    BY DEF TypeOK, MessageType
  <2>3. pc' = "reload" => pc = "reload" /\ Timer \in Timers
    BY DEF Outside, DaemonInv
  <2> QED
    BY <1>1, <1>2, <2>1, <2>2, <2>3 DEF LinkInv, Outside
<1>5. DueInv'
  BY <1>1, <1>2 DEF DueInv, Outside, Base
<1>6. EpochInv'
  BY <1>1, <1>2 DEF EpochInv, Outside, Base
<1>7. NothingOverdue'
  BY <1>1, <1>2 DEF NothingOverdue, Outside
<1> QED
  BY <1>3, <1>4, <1>5, <1>6, <1>7

\* Sending a message that deletes nothing keeps what is known of the messages.
LEMMA SentKeeps ==
  ASSUME Inv, NEW m \in MessageType \cup {CallMessage}, Enqueue(m),
         m.ID # "call" => Sound(m, time) /\ m.ID # "delete" /\ memory[m.Timer] = "live",
         time' = time, memory' = memory, UNCHANGED daemonVars,
         \A c \in Tasks : call'[c] = call[c] \/ call'[c] = None
  PROVE  MessageInv' /\ MemoryInv'
<1> USE DEF Inv
<1>1. /\ Len(queue) \in Nat /\ DOMAIN queue = 1 .. Len(queue)
      /\ DOMAIN queue' = 1 .. Len(queue) + 1
      /\ \A i \in DOMAIN queue : queue'[i] = queue[i]
      /\ queue'[Len(queue) + 1] = m
  BY Appended
<1>2. msg' = msg /\ sampled' = sampled /\ overslept' = overslept
  BY DEF daemonVars, sampleVars, historyVars
<1>3. \A n : Sound(n, time) => Sound(n, time')
  BY DEF Sound
<1> m.ID = "call" => m.Timer = None
  <2>1. m \in MessageType => m.ID # "call"
    BY Fields
  <2>2. m = CallMessage => m.Timer = None
    BY DEF CallMessage
  <2> QED
    BY <2>1, <2>2
<1>4. \A i \in DOMAIN queue' : (i \in DOMAIN queue /\ queue'[i] = queue[i]) \/ queue'[i] = m
  BY <1>1
<1>5. MessageInv'
  <2>1. ASSUME NEW i \in DOMAIN queue', queue'[i].ID # "call" PROVE Sound(queue'[i], time')
    <3>1. CASE i \in DOMAIN queue /\ queue'[i] = queue[i]
      BY <1>3, <2>1, <3>1 DEF MessageInv
    <3>2. CASE queue'[i] = m
      BY <1>3, <2>1, <3>2
    <3> QED
      BY <1>4, <3>1, <3>2
  <2>2. \A c \in Tasks : call'[c] # None => call'[c].ID = "start" /\ Sound(call'[c], time')
    BY <1>3 DEF MessageInv
  <2>3. msg' # None => Sound(msg', time')
    BY <1>2, <1>3 DEF MessageInv
  <2> QED
    BY <1>2, <2>1, <2>2, <2>3 DEF MessageInv
<1>6. MemoryInv'
  <2>1. ASSUME NEW i \in DOMAIN queue', queue'[i].ID # "call"
        PROVE  /\ memory[queue'[i].Timer] # "freed"
               /\ queue'[i].ID = "delete" /\ queue'[i].Timer \notin StaticTimers =>
                    /\ memory[queue'[i].Timer] = "deleting"
                    /\ \A j \in DOMAIN queue' : i < j => queue'[j].Timer # queue'[i].Timer
    <3>1. CASE i \in DOMAIN queue /\ queue'[i] = queue[i]
      <4>1. memory[queue[i].Timer] # "freed"
        BY <2>1, <3>1 DEF MemoryInv
      <4>2. ASSUME queue[i].ID = "delete", queue[i].Timer \notin StaticTimers
            PROVE  /\ memory[queue[i].Timer] = "deleting"
                   /\ \A j \in DOMAIN queue' : i < j => queue'[j].Timer # queue[i].Timer
        <5>1. /\ memory[queue[i].Timer] = "deleting"
              /\ \A j \in DOMAIN queue : i < j => queue[j].Timer # queue[i].Timer
          BY <2>1, <3>1, <4>2 DEF MemoryInv
        <5>2. i \in Nat /\ queue[i].Timer # None
          <6>1. i \in Nat
            BY <1>1, <3>1
          <6>2. queue[i] \in MessageType
            BY <2>1, <3>1, Queued
          <6> QED
            BY <6>1, <6>2, Fields
        <5>3. m.Timer # queue[i].Timer
          BY <5>1, <5>2
        <5> QED
          BY <1>4, <5>1, <5>3
      <4> QED
        BY <3>1, <4>1, <4>2
    <3>2. CASE queue'[i] = m
      BY <2>1, <3>2
    <3> QED
      BY <1>4, <3>1, <3>2
  <2>2. msg' # None =>
       /\ memory[msg'.Timer] # "freed"
       /\ msg'.ID = "delete" /\ msg'.Timer \notin StaticTimers =>
            /\ memory[msg'.Timer] = "deleting"
            /\ \A j \in DOMAIN queue' : queue'[j].Timer # msg'.Timer
    <3> SUFFICES ASSUME msg # None, msg.ID = "delete", msg.Timer \notin StaticTimers
                 PROVE  /\ memory[msg.Timer] = "deleting"
                        /\ \A j \in DOMAIN queue' : queue'[j].Timer # msg.Timer
      BY <1>2 DEF MemoryInv
    <3>1. memory[msg.Timer] = "deleting" /\ \A j \in DOMAIN queue : queue[j].Timer # msg.Timer
      BY DEF MemoryInv
    <3>2. msg.Timer # None
      <4>1. msg \in MessageType
        BY Queued
      <4> QED
        BY <4>1, Fields
    <3>3. m.Timer # msg.Timer
      BY <3>1, <3>2
    <3> QED
      BY <1>4, <3>1, <3>3
  <2>3. \A c \in Tasks : call'[c] # None => memory[call'[c].Timer] = "live"
    BY DEF MemoryInv
  <2> QED
    BY <2>1, <2>2, <2>3 DEF MemoryInv
<1> QED
  BY <1>5, <1>6

\* A tick.
LEMMA TickStep == ASSUME Inv, Tick PROVE Inv'
<1> USE DEF Inv
<1>1. /\ time' = time + 1 /\ memory' = memory /\ queue' = queue /\ calls' = calls
      /\ call' = call /\ pc' = pc /\ wake' = wake /\ Autoreload' = Autoreload
      /\ UNCHANGED daemonVars
  BY DEF Tick, sendVars
<1>2. TypeOK'
  BY <1>1 DEF TypeOK, daemonVars, listVars, sampleVars, reloadVars, historyVars
<1>3. Outside
  BY <1>1 DEF Outside, TypeOK
<1>4. msg' = msg /\ sampled' = sampled /\ overslept' = overslept
  BY <1>1 DEF daemonVars, sampleVars, historyVars
<1>5. ASSUME NEW m \in MessageType, Sound(m, time) PROVE Sound(m, time')
  BY <1>1, <1>5 DEF Sound, TypeOK, MessageType
<1>6. MessageInv'
  <2>1. \A i \in DOMAIN queue : queue[i].ID # "call" => Sound(queue'[i], time')
    BY <1>1, <1>5, Queued DEF MessageInv
  <2>2. \A c \in Tasks : call[c] # None => call'[c].ID = "start" /\ Sound(call'[c], time')
    BY <1>1, <1>5, Queued DEF MessageInv
  <2>3. msg # None => Sound(msg', time')
    BY <1>4, <1>5, Queued DEF MessageInv
  <2> QED
    BY <1>1, <1>4, <2>1, <2>2, <2>3 DEF MessageInv
<1>7. MemoryInv'
  BY <1>1, <1>4 DEF MemoryInv
<1> QED
  BY <1>2, <1>3, <1>6, <1>7, OutsideKeeps

\* A task has looked at the clock, or gives up.
LEMMA CallStep == ASSUME Inv, NEW c \in Tasks, TimerStart(c) \/ Refused(c) PROVE Inv'
<1> USE DEF Inv
<1>1. /\ time' = time /\ memory' = memory /\ queue' = queue /\ pc' = pc /\ wake' = wake
      /\ Autoreload' = Autoreload /\ UNCHANGED daemonVars /\ calls' \in 0 .. MaxCalls
  BY TimersAssumption DEF TimerStart, Refused, Call, TypeOK
<1>2. PICK m \in MessageType \cup {None} :
        /\ call' = [call EXCEPT ![c] = m]
        /\ m # None => m.ID = "start" /\ Sound(m, time) /\ memory[m.Timer] = "live"
  <2>1. CASE TimerStart(c)
    <3>1. PICK t \in Timers : memory[t] = "live" /\ call' = [call EXCEPT ![c] = StartMessage(t)]
      BY <2>1 DEF TimerStart
    <3>2. StartMessage(t) \in MessageType /\ StartMessage(t).Timer = t
          /\ StartMessage(t).ID = "start" /\ Sound(StartMessage(t), time)
      BY MessageTypes
    <3> QED
      BY <3>1, <3>2
  <2>2. CASE Refused(c)
    BY <2>2 DEF Refused
  <2> QED
    BY <2>1, <2>2
<1>3. TypeOK'
  <2>1. call' \in [Tasks -> MessageType \cup {None}]
    BY <1>2 DEF TypeOK
  <2> QED
    BY <1>1, <2>1 DEF TypeOK, daemonVars, listVars, sampleVars, reloadVars, historyVars
<1>4. Outside
  BY <1>1 DEF Outside, TypeOK
<1>5. msg' = msg /\ sampled' = sampled /\ overslept' = overslept
  BY <1>1 DEF daemonVars, sampleVars, historyVars
<1>6. \A b \in Tasks : call'[b] # None =>
        \/ call'[b] = call[b]
        \/ call'[b].ID = "start" /\ Sound(call'[b], time) /\ memory[call'[b].Timer] = "live"
  BY <1>2 DEF TypeOK
<1>7. \A n : Sound(n, time) <=> Sound(n, time')
  BY <1>1 DEF Sound
<1>8. MessageInv'
  BY <1>1, <1>5, <1>6, <1>7 DEF MessageInv
<1>9. MemoryInv'
  BY <1>1, <1>5, <1>6 DEF MemoryInv
<1> QED
  BY <1>3, <1>4, <1>8, <1>9, OutsideKeeps

\* Sending a message that deletes nothing.
LEMMA SendStep ==
  ASSUME Inv, NEW m \in MessageType \cup {CallMessage}, Enqueue(m),
         m.ID # "call" => Sound(m, time) /\ m.ID # "delete" /\ memory[m.Timer] = "live",
         time' = time, memory' = memory, Autoreload' = Autoreload, UNCHANGED daemonVars,
         calls' \in 0 .. MaxCalls, call' \in [Tasks -> MessageType \cup {None}],
         \A c \in Tasks : call'[c] = call[c] \/ call'[c] = None
  PROVE  Inv'
<1>1. /\ queue' \in Seq(MessageType \cup {CallMessage}) /\ Len(queue') <= QueueLength
      /\ pc' = IF pc = "blocked" THEN "recv" ELSE pc
      /\ wake' = Forever
  BY Appended DEF Inv
<1>2. TypeOK'
  BY <1>1 DEF Inv, TypeOK, daemonVars, listVars, sampleVars, reloadVars, historyVars
<1>3. Outside
  <2>1. pc' # "blocked"
    BY <1>1
  <2> QED
    BY <1>1, <2>1 DEF Outside, Inv, TypeOK
<1> QED
  BY <1>2, <1>3, SentKeeps, OutsideKeeps DEF Inv

\* A task sends its start command.
LEMMA SendStartStep == ASSUME Inv, NEW c \in Tasks, SendStart(c) PROVE Inv'
<1>1. PICK m \in MessageType :
        m = call[c] /\ m.ID = "start" /\ Sound(m, time) /\ memory[m.Timer] = "live"
  BY Queued DEF SendStart, Inv, MessageInv, MemoryInv
<1>2. Enqueue(m) /\ m.ID # "delete"
  BY <1>1 DEF SendStart
<1> QED
  BY <1>1, <1>2, SendStep DEF SendStart, Inv, TypeOK

\* The commands that are sent at once.
LEMMA CommandStep ==
  ASSUME Inv, NEW t \in Timers, GenericCommand(t) \/ StartFromISR(t)
  PROVE  Inv'
<1>1. /\ time' = time /\ memory' = memory /\ Autoreload' = Autoreload /\ UNCHANGED daemonVars
      /\ call' = call /\ memory[t] = "live" /\ calls' \in 0 .. MaxCalls
  BY TimersAssumption DEF GenericCommand, StartFromISR, Call, Inv, TypeOK
<1>2. PICK m \in MessageType : Enqueue(m) /\ Sound(m, time) /\ m.ID # "delete" /\ m.Timer = t
  <2>1. CASE GenericCommand(t)
    <3>1. PICK m \in Messages(t) : m.ID # "delete" /\ Enqueue(m)
      BY <2>1 DEF GenericCommand
    <3> QED
      BY <3>1, MessageTypes DEF Inv
  <2>2. CASE StartFromISR(t)
    BY <2>2, MessageTypes DEF StartFromISR, Inv
  <2> QED
    BY <2>1, <2>2
<1>3. call' \in [Tasks -> MessageType \cup {None}] /\ \A c \in Tasks : call'[c] = call[c]
  BY <1>1 DEF Inv, TypeOK
<1> QED
  BY <1>1, <1>2, <1>3, SendStep

\* A function to call.
LEMMA PendStep == ASSUME Inv, PendFunctionCall PROVE Inv'
<1>1. /\ time' = time /\ memory' = memory /\ Autoreload' = Autoreload /\ UNCHANGED daemonVars
      /\ call' = call /\ calls' \in 0 .. MaxCalls /\ Enqueue(CallMessage)
  BY TimersAssumption DEF PendFunctionCall, Call, Inv, TypeOK
<1>2. CallMessage.ID = "call"
  BY DEF CallMessage
<1> QED
  BY <1>1, <1>2, SendStep DEF Inv, TypeOK

\* The last command about a timer that is not static.
LEMMA DeleteStep == ASSUME Inv, NEW t \in Timers, TimerDelete(t) PROVE Inv'
<1> USE DEF Inv
<1>1. /\ time' = time /\ Autoreload' = Autoreload /\ UNCHANGED daemonVars
      /\ call' = call /\ memory[t] = "live" /\ calls' \in 0 .. MaxCalls
      /\ memory' = [memory EXCEPT ![t] = IF t \in StaticTimers THEN "live" ELSE "deleting"]
      /\ \A c \in Tasks : call[c] # None => call[c].Timer # t
  BY TimersAssumption DEF TimerDelete, Call, TypeOK
<1>2. PICK m \in MessageType : Enqueue(m) /\ Sound(m, time) /\ m.ID = "delete" /\ m.Timer = t
  BY MessageTypes DEF TimerDelete
<1>3. /\ queue' \in Seq(MessageType \cup {CallMessage}) /\ Len(queue') <= QueueLength
      /\ Len(queue) \in Nat /\ DOMAIN queue = 1 .. Len(queue)
      /\ DOMAIN queue' = 1 .. Len(queue) + 1
      /\ \A i \in DOMAIN queue : queue'[i] = queue[i]
      /\ queue'[Len(queue) + 1] = m
      /\ pc' = IF pc = "blocked" THEN "recv" ELSE pc
      /\ wake' = Forever
  BY <1>2, Appended
<1>4. /\ memory' \in [Timers -> {"live", "deleting", "freed"}]
      /\ \A u \in Timers : u # t => memory'[u] = memory[u]
      /\ memory'[t] = IF t \in StaticTimers THEN "live" ELSE "deleting"
  BY <1>1 DEF TypeOK
<1>5. TypeOK'
  BY <1>1, <1>3, <1>4 DEF TypeOK, daemonVars, listVars, sampleVars, reloadVars, historyVars
<1>6. Outside
  <2>1. pc' # "blocked"
    BY <1>3
  <2> QED
    BY <1>1, <1>3, <1>4, <2>1 DEF Outside
<1>7. msg' = msg /\ sampled' = sampled /\ overslept' = overslept
  BY <1>1 DEF daemonVars, sampleVars, historyVars
<1>8. \A i \in DOMAIN queue' :
        (i \in DOMAIN queue /\ queue'[i] = queue[i]) \/ (i = Len(queue) + 1 /\ queue'[i] = m)
  BY <1>3
<1>9. MessageInv'
  BY <1>1, <1>2, <1>7, <1>8 DEF MessageInv
<1>10. MemoryInv'
  <2>1. \A u \in StaticTimers : memory'[u] = "live"
    BY <1>4, TimersAssumption DEF MemoryInv
  <2>2. \A c \in Tasks : call'[c] # None => memory'[call'[c].Timer] = "live"
    <3>1. \A c \in Tasks : call[c] # None => call[c].Timer \in Timers
      BY Queued, Fields
    <3> QED
      BY <1>1, <1>4, <3>1 DEF MemoryInv
  <2>3. ASSUME NEW i \in DOMAIN queue', queue'[i].ID # "call"
        PROVE  /\ memory'[queue'[i].Timer] # "freed"
               /\ queue'[i].ID = "delete" /\ queue'[i].Timer \notin StaticTimers =>
                    /\ memory'[queue'[i].Timer] = "deleting"
                    /\ \A j \in DOMAIN queue' : i < j => queue'[j].Timer # queue'[i].Timer
    <3>1. CASE i \in DOMAIN queue /\ queue'[i] = queue[i]
      <4>1. queue[i].Timer \in Timers /\ i \in Nat /\ queue[i] \in MessageType
        <5>1. queue[i] \in MessageType
          BY <2>3, <3>1, Queued
        <5> QED
          BY <1>3, <3>1, <5>1, Fields
      <4>2. memory'[queue[i].Timer] # "freed"
        BY <1>4, <2>3, <3>1, <4>1 DEF MemoryInv
      <4>3. ASSUME queue[i].ID = "delete", queue[i].Timer \notin StaticTimers
            PROVE  /\ memory'[queue[i].Timer] = "deleting"
                   /\ \A j \in DOMAIN queue' : i < j => queue'[j].Timer # queue[i].Timer
        <5>1. /\ memory[queue[i].Timer] = "deleting"
              /\ \A j \in DOMAIN queue : i < j => queue[j].Timer # queue[i].Timer
          BY <2>3, <3>1, <4>3 DEF MemoryInv
        <5>2. queue[i].Timer # t
          BY <1>1, <5>1
        <5> QED
          BY <1>2, <1>4, <1>8, <4>1, <5>1, <5>2
      <4> QED
        BY <3>1, <4>2, <4>3
    <3>2. CASE i = Len(queue) + 1 /\ queue'[i] = m
      <4>1. \A j \in DOMAIN queue' : ~(i < j)
        BY <1>3, <3>2
      <4> QED
        BY <1>2, <1>4, <3>2, <4>1
    <3> QED
      BY <1>8, <3>1, <3>2
  <2>4. msg' # None =>
       /\ memory'[msg'.Timer] # "freed"
       /\ msg'.ID = "delete" /\ msg'.Timer \notin StaticTimers =>
            /\ memory'[msg'.Timer] = "deleting"
            /\ \A j \in DOMAIN queue' : queue'[j].Timer # msg'.Timer
    <3> SUFFICES ASSUME msg # None
                 PROVE  /\ memory'[msg.Timer] # "freed"
                        /\ msg.ID = "delete" /\ msg.Timer \notin StaticTimers =>
                             /\ memory'[msg.Timer] = "deleting"
                             /\ \A j \in DOMAIN queue' : queue'[j].Timer # msg.Timer
      BY <1>7
    <3>1. msg.Timer \in Timers
      BY Queued, Fields
    <3>2. memory'[msg.Timer] # "freed"
      BY <1>4, <3>1 DEF MemoryInv
    <3>3. ASSUME msg.ID = "delete", msg.Timer \notin StaticTimers
          PROVE  /\ memory'[msg.Timer] = "deleting"
                 /\ \A j \in DOMAIN queue' : queue'[j].Timer # msg.Timer
      <4>1. memory[msg.Timer] = "deleting" /\ \A j \in DOMAIN queue : queue[j].Timer # msg.Timer
        BY <3>3 DEF MemoryInv
      <4>2. msg.Timer # t
        BY <1>1, <4>1
      <4> QED
        BY <1>2, <1>4, <1>8, <3>1, <4>1, <4>2
    <3> QED
      BY <3>2, <3>3
  <2> QED
    BY <2>1, <2>2, <2>3, <2>4 DEF MemoryInv
<1> QED
  BY <1>5, <1>6, <1>9, <1>10, OutsideKeeps

\* The mode of a timer is read only when it expires.
LEMMA ReloadModeStep == ASSUME Inv, NEW t \in Timers, SetReloadMode(t) PROVE Inv'
<1> USE DEF Inv
<1>1. /\ time' = time /\ memory' = memory /\ queue' = queue /\ call' = call /\ pc' = pc
      /\ wake' = wake /\ UNCHANGED daemonVars /\ calls' \in 0 .. MaxCalls
      /\ Autoreload' \in [Timers -> BOOLEAN]
  BY TimersAssumption DEF SetReloadMode, Call, TypeOK
<1>2. TypeOK'
  BY <1>1 DEF TypeOK, daemonVars, listVars, sampleVars, reloadVars, historyVars
<1>3. Outside
  BY <1>1 DEF Outside, TypeOK
<1>4. msg' = msg /\ sampled' = sampled /\ overslept' = overslept
  BY <1>1 DEF daemonVars, sampleVars, historyVars
<1>5. MessageInv' /\ MemoryInv'
  BY <1>1, <1>4 DEF MessageInv, MemoryInv
<1> QED
  BY <1>2, <1>3, <1>5, OutsideKeeps

-----------------------------------------------------------------------------
(* The daemon waits, and receives. *)

\* What the queue holds without its first message.
LEMMA Shortened ==
  ASSUME TypeOK, queue # <<>>, queue' = Tail(queue)
  PROVE  /\ queue' \in Seq(MessageType \cup {CallMessage}) /\ Len(queue') <= QueueLength
         /\ 1 \in DOMAIN queue /\ Head(queue) = queue[1]
         /\ \A i \in DOMAIN queue' : i \in Nat /\ i + 1 \in DOMAIN queue /\ 1 < i + 1
                                     /\ queue'[i] = queue[i + 1]
<1> DEFINE X == MessageType \cup {CallMessage}
<1>1. queue \in Seq(X) /\ Len(queue) <= QueueLength /\ QueueLength \in Nat
  BY TimersAssumption DEF TypeOK
<1> HIDE DEF X
<1>2. /\ Len(queue) \in Nat \ {0} /\ DOMAIN queue = 1 .. Len(queue) /\ Head(queue) = queue[1]
  BY <1>1, EmptySeq
<1>3. /\ queue' \in Seq(X) /\ Len(queue') = Len(queue) - 1
      /\ DOMAIN queue' = 1 .. Len(queue) - 1
      /\ \A i \in 1 .. Len(queue) - 1 : queue'[i] = queue[i + 1]
  BY <1>1, <1>2, HeadTailProperties
<1> QED
  BY <1>1, <1>2, <1>3 DEF X

\* The daemon takes no command.
LEMMA IdleStep ==
  ASSUME Inv, TimesOut \/ NoCommand \/ CallFunction
  PROVE  Inv'
<1> USE DEF Inv
<1>1. /\ time' = time /\ memory' = memory /\ Autoreload' = Autoreload /\ UNCHANGED daemonVars
      /\ call' = call /\ calls' = calls
  BY DEF TimesOut, NoCommand, CallFunction, timerVars, sendVars, daemonVars
<1>2. /\ pc' = pc \/ (pc \in {"blocked", "recv"} /\ pc' \in {"recv", "loop"})
      /\ wake' = wake \/ pc' # "blocked"
      /\ wake' \in Nat \cup {Forever}
  BY DEF TimesOut, NoCommand, CallFunction, TypeOK
<1>3. queue' = queue \/ (queue # <<>> /\ queue' = Tail(queue))
  BY DEF TimesOut, NoCommand, CallFunction, sendVars
<1>4. msg' = msg /\ sampled' = sampled /\ overslept' = overslept
  BY <1>1 DEF daemonVars, sampleVars, historyVars
<1>5. TypeOK'
  <2>1. queue' \in Seq(MessageType \cup {CallMessage}) /\ Len(queue') <= QueueLength
    BY <1>3, Shortened DEF TypeOK
  <2> QED
    BY <1>1, <1>2, <2>1 DEF TypeOK, daemonVars, listVars, sampleVars, reloadVars, historyVars
<1>6. Outside
  BY <1>1, <1>2 DEF Outside, TypeOK
<1>7. CASE queue' = queue
  BY <1>1, <1>4, <1>5, <1>6, <1>7, OutsideKeeps DEF MessageInv, MemoryInv
<1>8. CASE queue # <<>> /\ queue' = Tail(queue)
  <2>1. \A i \in DOMAIN queue' : i \in Nat /\ i + 1 \in DOMAIN queue
                                 /\ queue'[i] = queue[i + 1]
    BY <1>8, Shortened
  <2>2. MessageInv'
    BY <1>1, <1>4, <2>1 DEF MessageInv
  <2>3. MemoryInv'
    <3>1. ASSUME NEW i \in DOMAIN queue', NEW j \in DOMAIN queue', i < j PROVE i + 1 < j + 1
      BY <2>1, <3>1
    <3> QED
      BY <1>1, <1>4, <2>1, <3>1 DEF MemoryInv
  <2> QED
    BY <1>5, <1>6, <2>2, <2>3, OutsideKeeps
<1> QED
  BY <1>3, <1>7, <1>8

\* What a sample tells the daemon about the epochs.
LEMMA Sampling ==
  ASSUME TypeOK, DaemonInv
  PROVE  /\ time \in Nat /\ sampled \in Nat /\ sampled <= time /\ TickMod \in Nat \ {0}
         /\ MaxTick = TickMod - 1 /\ Base(sampled) \in Nat /\ Base(time) \in Nat
         /\ TickCount \in Ticks /\ time = Base(time) + TickCount
         /\ Base(sampled) <= Base(time)
         /\ Wrapped => Base(sampled) + TickMod <= Base(time)
         /\ time - sampled < TickMod =>
              Base(time) = IF Wrapped THEN Base(sampled) + TickMod ELSE Base(sampled)
<1>1. time \in Nat /\ sampled \in Nat /\ sampled <= time /\ xLastTime = sampled % TickMod
  BY DEF TypeOK, DaemonInv
<1>2. /\ TickCount \in Ticks /\ time = Base(time) + TickCount /\ Base(time) \in Nat
      /\ xLastTime \in Ticks /\ sampled = Base(sampled) + xLastTime /\ Base(sampled) \in Nat
      /\ TickMod \in Nat \ {0} /\ MaxTick = TickMod - 1
  BY <1>1, ModFacts DEF TickCount
<1>3. /\ Base(time) < Base(sampled) =>
           Base(time) + TickMod = Base(sampled) \/ Base(time) + 2 * TickMod <= Base(sampled)
      /\ Base(sampled) < Base(time) =>
           Base(sampled) + TickMod = Base(time) \/ Base(sampled) + 2 * TickMod <= Base(time)
  BY <1>1, Bases
<1>4. Base(sampled) <= Base(time)
  BY <1>1, <1>2, <1>3 DEF Ticks
<1>5. Wrapped => Base(sampled) + TickMod <= Base(time)
  <2>1. Wrapped => Base(sampled) # Base(time)
    BY <1>1, <1>2 DEF Ticks, Wrapped
  <2> QED
    BY <1>2, <1>3, <1>4, <2>1
<1>6. ASSUME time - sampled < TickMod
      PROVE  Base(time) = IF Wrapped THEN Base(sampled) + TickMod ELSE Base(sampled)
  <2>1. CASE Base(time) = Base(sampled)
    BY <1>2, <1>5, <2>1
  <2>2. CASE Base(sampled) < Base(time)
    <3>1. Base(time) = Base(sampled) + TickMod
      BY <1>1, <1>2, <1>3, <1>6, <2>2 DEF Ticks
    <3>2. Wrapped
      BY <1>1, <1>2, <1>6, <3>1 DEF Ticks, Wrapped
    <3> QED
      BY <3>1, <3>2
  <2> QED
    BY <1>2, <1>4, <2>1, <2>2
<1> QED
  BY <1>1, <1>2, <1>4, <1>5, <1>6

\* A sample, which makes the daemon switch the lists if the tick count wrapped, leaves no timer in
\* a list of an earlier epoch.
LEMMA Resampled ==
  ASSUME TypeOK, DaemonInv, ~InSwitch, Sample, InSwitch' <=> Wrapped,
         ~overslept' => time - sampled < TickMod
  PROVE  /\ sampled' = time /\ xLastTime' = TickCount /\ TickCount \in Ticks /\ time \in Nat
         /\ CurrentBase \in Int /\ CurrentBase' \in Int /\ CurrentBase <= CurrentBase'
         /\ ~overslept' => CurrentBase' = CurrentBase
         /\ InSwitch' => Base(sampled') >= TickMod
         /\ xLastTime' = sampled' % TickMod
<1>1. sampled' = time /\ xLastTime' = TickCount
  BY DEF Sample
<1>2. /\ CurrentBase = Base(sampled)
      /\ CurrentBase' = IF Wrapped THEN Base(time) - TickMod ELSE Base(time)
  BY <1>1 DEF CurrentBase
<1>3. /\ time \in Nat /\ TickMod \in Nat \ {0}
      /\ Base(sampled) \in Nat /\ Base(time) \in Nat /\ Base(sampled) <= Base(time)
      /\ Wrapped => Base(sampled) + TickMod <= Base(time)
      /\ time - sampled < TickMod =>
           Base(time) = IF Wrapped THEN Base(sampled) + TickMod ELSE Base(sampled)
      /\ TickCount \in Ticks
  BY Sampling
<1> QED
  BY <1>1, <1>2, <1>3 DEF TickCount

\* Then the daemon takes a command, and its timer off its list.
LEMMA ReceiveStep == ASSUME Inv, Receive PROVE Inv'
<1> USE DEF Inv
<1>1. /\ pc = "recv" /\ queue # <<>> /\ queue' = Tail(queue) /\ msg' = Head(queue)
      /\ Current' = Without(Current, msg'.Timer) /\ Overflow' = Without(Overflow, msg'.Timer)
      /\ Sample /\ pc' = IF Wrapped THEN "switch" ELSE "command"
      /\ overslept' = (\/ overslept \/ time - sampled >= TickMod
                       \/ msg'.ID = "start" /\ time - msg'.at >= TickMod)
  BY DEF Receive
<1>2. /\ time' = time /\ Value' = Value /\ Period' = Period /\ Active' = Active
      /\ Autoreload' = Autoreload /\ memory' = memory /\ calls' = calls /\ call' = call
      /\ Timer' = Timer /\ Expired' = Expired /\ UpTo' = UpTo /\ back' = back
      /\ wake' = wake /\ due' = due /\ early' = early
  BY DEF Receive, timerVars, reloadVars
<1>3. /\ queue' \in Seq(MessageType \cup {CallMessage}) /\ Len(queue') <= QueueLength
      /\ 1 \in DOMAIN queue /\ msg' = queue[1] /\ queue[1].ID # "call"
      /\ \A i \in DOMAIN queue' : i \in Nat /\ i + 1 \in DOMAIN queue /\ 1 < i + 1
                                  /\ queue'[i] = queue[i + 1]
  BY <1>1, Shortened DEF Receive
<1>4. PICK m : m = msg'
  OBVIOUS
<1>5. m \in MessageType /\ m.Timer \in Timers /\ m # None /\ m.at \in Nat
  <2>1. m \in MessageType
    BY <1>3, <1>4, Queued
  <2> QED
    BY <2>1, Fields
<1>6. ~InSwitch /\ msg = None /\ (InSwitch' <=> Wrapped)
  BY <1>1 DEF InSwitch, DaemonInv
<1>7. ~overslept' => time - sampled < TickMod /\ ~overslept
  BY <1>1, Sampling
<1>8. /\ sampled' = time /\ xLastTime' = TickCount /\ TickCount \in Ticks /\ time \in Nat
      /\ CurrentBase \in Int /\ CurrentBase' \in Int /\ CurrentBase <= CurrentBase'
      /\ ~overslept' => CurrentBase' = CurrentBase
      /\ InSwitch' => Base(sampled') >= TickMod
      /\ xLastTime' = sampled' % TickMod
  BY <1>1, <1>6, <1>7, Resampled
<1>9. SortedBy(Value, Current) /\ SortedBy(Value, Overflow)
  BY DEF LinkInv, Sorted, SortedBy
<1>10. /\ Current' \in Seq(Timers) /\ Overflow' \in Seq(Timers)
       /\ SortedBy(Value, Current') /\ SortedBy(Value, Overflow')
       /\ In(Current') = In(Current) \ {m.Timer} /\ In(Overflow') = In(Overflow) \ {m.Timer}
  <2>1. Current \in Seq(Timers) /\ Overflow \in Seq(Timers)
    BY DEF TypeOK
  <2>2. Current' = Without(Current, m.Timer) /\ Overflow' = Without(Overflow, m.Timer)
    BY <1>1, <1>4
  <2> QED
    BY <1>9, <2>1, <2>2, RemovedAny
<1>11. TypeOK'
  <2>1. overslept' \in BOOLEAN
    BY <1>1
  <2> QED
    BY <1>1, <1>2, <1>3, <1>4, <1>5, <1>8, <1>10, <2>1 DEF TypeOK
<1>12. MessageInv'
  <2>1. Sound(m, time)
    BY <1>3, <1>4 DEF MessageInv
  <2>2. m.ID = "start" => m.at <= sampled' /\ (~overslept' => sampled' - m.at < TickMod)
    <3>1. m.ID = "start" => m.at <= time
      BY <2>1 DEF Sound
    <3>2. TickMod \in Nat
      BY ModFacts, <1>8
    <3> QED
      BY <1>1, <1>4, <1>5, <1>8, <3>1, <3>2
  <2> QED
    BY <1>2, <1>3, <1>4, <2>1, <2>2 DEF MessageInv
<1>13. MemoryInv'
  <2>1. ASSUME NEW i \in DOMAIN queue', NEW j \in DOMAIN queue', i < j PROVE i + 1 < j + 1
    BY <1>3, <2>1
  <2>2. /\ memory[m.Timer] # "freed"
        /\ m.ID = "delete" /\ m.Timer \notin StaticTimers =>
             /\ memory[m.Timer] = "deleting"
             /\ \A j \in DOMAIN queue' : queue'[j].Timer # m.Timer
    BY <1>3, <1>4 DEF MemoryInv
  <2>3. \A i \in DOMAIN queue' : queue'[i].ID # "call" =>
       /\ memory[queue'[i].Timer] # "freed"
       /\ queue'[i].ID = "delete" /\ queue'[i].Timer \notin StaticTimers =>
            /\ memory[queue'[i].Timer] = "deleting"
            /\ \A j \in DOMAIN queue' : i < j => queue'[j].Timer # queue'[i].Timer
    BY <1>3, <2>1 DEF MemoryInv
  <2> QED
    BY <1>2, <1>4, <2>2, <2>3 DEF MemoryInv
<1>14. DaemonInv'
  BY <1>1, <1>2, <1>4, <1>5, <1>8 DEF DaemonInv, InSwitch
<1>15. Linked' = Linked \ {m.Timer}
  BY <1>10 DEF Linked, In
<1>16. LinkInv'
  <2>1. Sorted(Current)' /\ Sorted(Overflow)'
    BY <1>2, <1>10 DEF Sorted, SortedBy
  <2>2. In(Current)' \cap In(Overflow)' = {}
    BY <1>10 DEF LinkInv, In
  <2>3. \A t \in Timers : Apart(t)' <=> t = m.Timer
    BY <1>1, <1>4, <1>5 DEF Apart
  <2>4. \A t \in Timers : ~Apart(t)
    BY <1>1, <1>6 DEF Apart
  <2> QED
    BY <1>1, <1>2, <1>4, <1>15, <2>1, <2>2, <2>3, <2>4 DEF LinkInv
<1>17. \A t \in Linked : due[t] \in Nat /\ Base(due[t]) \in Nat
  <2>1. Linked \subseteq Timers
    BY DEF Linked, In, TypeOK
  <2> QED
    BY <2>1, ModFacts DEF TypeOK
<1>18. In(Current)' \subseteq In(Current) /\ In(Overflow)' \subseteq In(Overflow)
       /\ In(Current) \subseteq Linked /\ In(Overflow) \subseteq Linked
  BY <1>10 DEF In, Linked
<1>19. TickMod \in Nat
  BY ModFacts, <1>8
<1>20. DueInv'
  <2>1. \A t \in In(Current)' : Base(due[t]) <= CurrentBase'
    BY <1>8, <1>17, <1>18 DEF DueInv
  <2>2. \A t \in In(Overflow)' : Base(due[t]) <= CurrentBase' + TickMod
    BY <1>8, <1>17, <1>18, <1>19 DEF DueInv
  <2> QED
    BY <1>1, <1>2, <1>15, <2>1, <2>2 DEF DueInv
<1>21. EpochInv'
  BY <1>1, <1>2, <1>7, <1>8, <1>18 DEF EpochInv
<1>22. NothingOverdue'
  BY <1>1 DEF NothingOverdue
<1> QED
  BY <1>11, <1>12, <1>13, <1>14, <1>16, <1>20, <1>21, <1>22

\* Every linked timer is a timer with an expiry.
LEMMA LinkedAre ==
  ASSUME TypeOK
  PROVE  /\ Linked \subseteq Timers
         /\ In(Current) \subseteq Linked /\ In(Overflow) \subseteq Linked
         /\ \A t \in Linked : due[t] \in Nat /\ Base(due[t]) \in Nat /\ due[t] % TickMod \in Ticks
                              /\ due[t] = Base(due[t]) + (due[t] % TickMod)
<1>1. Linked \subseteq Timers
  BY DEF Linked, In, TypeOK
<1>2. \A t \in Linked : due[t] \in Nat
  BY <1>1 DEF TypeOK
<1> QED
  BY <1>1, <1>2, ModFacts DEF Linked

\* The daemon's loop changes no list: it has to switch them, or no timer has expired.
WrapBranch ==
  /\ Wrapped /\ pc' = "switch" /\ wake' = wake
WaitBranch ==
  LET ListWasEmpty == Current = <<>>
      NextExpire == IF ListWasEmpty THEN 0 ELSE Value[Head(Current)]
  IN
  /\ ~Wrapped
  /\ ListWasEmpty \/ ~IsDue(NextExpire)
  /\ IF queue = <<>>
     THEN /\ pc' = "blocked"
          /\ wake' = IF WaitsIndefinitely(ListWasEmpty) THEN Forever
                     ELSE time + (NextExpire - TickCount)
     ELSE pc' = "recv" /\ wake' = wake
LEMMA LoopStep ==
  ASSUME Inv, pc = "loop", Sample, overslept' = (overslept \/ time - sampled >= TickMod),
         UNCHANGED <<timerVars, listVars, reloadVars, due, early, time, sendVars, msg>>,
         WrapBranch \/ WaitBranch
  PROVE  Inv'
<1> USE DEF Inv
<1>1. /\ time' = time /\ Value' = Value /\ Period' = Period /\ Active' = Active
      /\ Autoreload' = Autoreload /\ memory' = memory /\ calls' = calls /\ call' = call
      /\ queue' = queue /\ Current' = Current /\ Overflow' = Overflow /\ msg' = msg
      /\ Timer' = Timer /\ Expired' = Expired /\ UpTo' = UpTo /\ back' = back
      /\ due' = due /\ early' = early
  BY DEF timerVars, listVars, reloadVars, sendVars
<1>2. pc' \in {"switch", "blocked", "recv"} /\ (pc' = "switch" <=> Wrapped)
  BY DEF WrapBranch, WaitBranch
<1>3. ~InSwitch /\ msg = None /\ (InSwitch' <=> Wrapped)
  BY <1>2 DEF InSwitch, DaemonInv
<1>4. ~overslept' => time - sampled < TickMod /\ ~overslept
  <2>1. ~overslept' => ~(time - sampled >= TickMod) /\ ~overslept
    OBVIOUS
  <2> QED
    BY <2>1, Sampling
<1>5. /\ sampled' = time /\ xLastTime' = TickCount /\ TickCount \in Ticks /\ time \in Nat
      /\ CurrentBase \in Int /\ CurrentBase' \in Int /\ CurrentBase <= CurrentBase'
      /\ ~overslept' => CurrentBase' = CurrentBase
      /\ InSwitch' => Base(sampled') >= TickMod
      /\ xLastTime' = sampled' % TickMod
  BY <1>3, <1>4, Resampled
<1>6. /\ TickMod \in Nat /\ Base(time) \in Nat /\ time = Base(time) + TickCount
      /\ MaxTick = TickMod - 1
  BY Sampling
<1>7. In(Current)' = In(Current) /\ In(Overflow)' = In(Overflow) /\ Linked' = Linked
  BY <1>1 DEF In, Linked
\* When a timer is due and the tick at which the wait ends.
<1>8. ASSUME WaitBranch
      PROVE  /\ wake' \in Nat \cup {Forever}
             /\ Current # <<>> => Value[Head(Current)] > TickCount
             /\ pc' = "blocked" => wake' = Forever \/
                  (Current # <<>> /\ wake' = time + (Value[Head(Current)] - TickCount))
  <2>1. CASE Current = <<>>
    BY <1>8, <2>1 DEF WaitBranch, WaitsIndefinitely, TypeOK
  <2>2. CASE Current # <<>>
    <3>1. Head(Current) \in Timers
      BY <2>2, RemovedHead DEF TypeOK, LinkInv, Sorted, SortedBy
    <3>2. Value[Head(Current)] \in Ticks
      BY <3>1 DEF TypeOK
    <3>3. Value[Head(Current)] \in Nat /\ TickCount \in Nat
      BY <1>5, <1>6, <3>2 DEF Ticks
    <3>4. Value[Head(Current)] > TickCount
      BY <1>8, <2>2, <3>3 DEF WaitBranch, IsDue
    <3>5. wake \in Nat \cup {Forever}
      BY DEF TypeOK
    <3>6. /\ wake' \in {Forever, wake, time + (Value[Head(Current)] - TickCount)}
          /\ pc' = "blocked" => wake' \in {Forever, time + (Value[Head(Current)] - TickCount)}
      BY <1>8, <2>2 DEF WaitBranch
    <3>7. time + (Value[Head(Current)] - TickCount) \in Nat
      BY <1>5, <3>3, <3>4
    <3> QED
      BY <2>2, <3>4, <3>5, <3>6, <3>7
  <2> QED
    BY <2>1, <2>2
<1>9. TypeOK'
  <2>1. wake' \in Nat \cup {Forever}
    BY <1>8 DEF WrapBranch, TypeOK
  <2>2. overslept' \in BOOLEAN
    OBVIOUS
  <2> QED
    BY <1>1, <1>2, <1>5, <2>1, <2>2 DEF TypeOK
<1>10. MessageInv' /\ MemoryInv'
  BY <1>1, <1>3 DEF MessageInv, MemoryInv
<1>11. DaemonInv'
  BY <1>1, <1>2, <1>3, <1>5 DEF DaemonInv
<1>12. LinkInv'
  <2>1. \A t \in Timers : ~Apart(t) /\ ~Apart(t)'
    BY <1>1, <1>2, <1>3 DEF Apart
  <2>2. Sorted(Current)' /\ Sorted(Overflow)'
    BY <1>1 DEF LinkInv, Sorted
  <2> QED
    BY <1>1, <1>2, <1>3, <1>7, <2>1, <2>2 DEF LinkInv
<1>13. DueInv'
  <2>1. \A t \in In(Current) : Base(due[t]) <= CurrentBase'
    BY <1>5, LinkedAre DEF DueInv
  <2>2. \A t \in In(Overflow) : Base(due[t]) <= CurrentBase' + TickMod
    BY <1>5, <1>6, LinkedAre DEF DueInv
  <2> QED
    BY <1>1, <1>2, <1>7, <2>1, <2>2 DEF DueInv
<1>14. EpochInv'
  BY <1>1, <1>2, <1>4, <1>5, <1>7 DEF EpochInv
<1>15. NothingOverdue'
  <2> SUFFICES ASSUME pc' = "blocked", ~overslept', NEW t \in Linked
               PROVE  due[t] > time /\ (wake' # Forever => wake' <= due[t])
    BY <1>1, <1>5, <1>7 DEF NothingOverdue
  <2>1. WaitBranch /\ CurrentBase = Base(time) /\ ~overslept
    BY <1>3, <1>4, <1>5 DEF CurrentBase, InSwitch, WrapBranch, WaitBranch
  <2>2. /\ due[t] \in Nat /\ Base(due[t]) \in Nat /\ due[t] % TickMod \in Ticks
        /\ due[t] = Base(due[t]) + (due[t] % TickMod) /\ Value[t] = due[t] % TickMod
    BY LinkedAre DEF DueInv
  <2>3. TickCount \in Nat /\ TickCount < TickMod
    BY <1>5, <1>6 DEF Ticks
  <2>4. Current # <<>> => Value[Head(Current)] \in Nat /\ Value[Head(Current)] < TickMod
    <3> HAVE Current # <<>>
    <3>1. Head(Current) \in Timers
      BY RemovedHead DEF TypeOK, LinkInv, Sorted, SortedBy
    <3>2. Value[Head(Current)] \in Ticks
      BY <3>1 DEF TypeOK
    <3> QED
      BY <1>6, <3>2 DEF Ticks
  <2>5. CASE t \in In(Current)
    <3>1. Current # <<>> /\ Value[Head(Current)] <= Value[t]
      <4>1. Current # <<>>
        <5>1. \E i \in DOMAIN Current : TRUE
          BY <2>5 DEF In
        <5> QED
          BY <5>1
      <4>2. t # Head(Current) => Value[Head(Current)] <= Value[t]
        BY <2>5, <4>1, RemovedHead DEF TypeOK, LinkInv, Sorted, SortedBy
      <4> QED
        BY <2>4, <4>1, <4>2
    <3>2. Base(due[t]) = Base(time)
      BY <2>1, <2>5 DEF EpochInv
    <3>3. Value[Head(Current)] > TickCount
      BY <1>8, <2>1, <3>1
    <3>4. due[t] > time
      <4>1. Value[t] > TickCount
        BY <2>2, <2>3, <2>4, <3>1, <3>3 DEF Ticks
      <4> QED
        BY <1>6, <2>2, <2>3, <3>2, <4>1
    <3>5. wake' # Forever => wake' = time + (Value[Head(Current)] - TickCount)
      BY <1>8, <2>1
    <3>6. wake' # Forever => wake' = Base(time) + Value[Head(Current)]
      BY <1>6, <2>3, <2>4, <3>1, <3>5
    <3>7. wake' # Forever => wake' <= due[t]
      BY <1>6, <2>2, <2>4, <3>1, <3>2, <3>6 DEF Ticks
    <3> QED
      BY <3>4, <3>7
  <2>6. CASE t \in In(Overflow)
    <3>1. Base(due[t]) = Base(time) + TickMod
      BY <2>1, <2>6 DEF EpochInv
    <3>2. due[t] > time
      BY <1>6, <2>2, <2>3, <3>1 DEF Ticks
    <3>3. wake' # Forever =>
            Current # <<>> /\ wake' = time + (Value[Head(Current)] - TickCount)
      BY <1>8, <2>1
    <3>4. wake' # Forever => Current # <<>> /\ wake' = Base(time) + Value[Head(Current)]
      BY <1>6, <2>3, <2>4, <3>3
    <3>5. wake' # Forever => wake' <= due[t]
      <4>1. due[t] >= Base(time) + TickMod
        BY <1>6, <2>2, <3>1 DEF Ticks
      <4>2. wake' # Forever => wake' < Base(time) + TickMod
        BY <1>6, <2>4, <3>4
      <4>3. wake' # Forever => wake' \in Int
        BY <1>6, <2>4, <3>4
      <4> QED
        BY <1>6, <2>2, <4>1, <4>2, <4>3
    <3> QED
      BY <3>2, <3>5
  <2> QED
    BY <2>5, <2>6 DEF Linked
<1> QED
  BY <1>9, <1>10, <1>11, <1>12, <1>13, <1>14, <1>15

-----------------------------------------------------------------------------
(* Timers expire. *)

\* The head of the current list expires: no later than L, the limit of the caller.
LEMMA HeadExpires ==
  ASSUME Inv, pc \in {"loop", "switch"}, Current # <<>>,
         NEW now \in Ticks, NEW caller \in {"recv", "switch"},
         ProcessExpired(Value[Head(Current)], now, caller),
         UNCHANGED <<time, Overflow, Value, Period, Autoreload, memory, sendVars, msg, wake>>,
         sampled' \in Nat, xLastTime' \in Ticks, overslept' \in BOOLEAN,
         sampled' <= time, xLastTime' = sampled' % TickMod,
         msg # None => caller = "switch" /\ sampled' = sampled,
         CurrentBase \in Int, CurrentBase' \in Int, CurrentBase <= CurrentBase',
         ~overslept' => ~overslept /\ CurrentBase' = CurrentBase,
         InSwitch' => Base(sampled') >= TickMod,
         NEW L \in Nat, L = (IF caller = "switch" THEN Base(sampled') - 1 ELSE sampled'),
         L <= time, now = L % TickMod, due[Head(Current)] <= L,
         ~overslept' => L - due[Head(Current)] < TickMod
  PROVE  Inv'
<1> USE DEF Inv
<1>1. /\ time' = time /\ Value' = Value /\ Period' = Period /\ Autoreload' = Autoreload
      /\ memory' = memory /\ calls' = calls /\ call' = call /\ queue' = queue /\ msg' = msg
      /\ wake' = wake /\ Overflow' = Overflow
  BY DEF sendVars
<1>2. PICK t : t = Head(Current)
  OBVIOUS
<1>3. /\ t \in Timers /\ t \in In(Current)
      /\ Current' = Tail(Current) /\ Current' \in Seq(Timers)
      /\ SortedBy(Value, Current') /\ In(Current') = In(Current) \ {t}
  <2>1. Current' = Tail(Current)
    BY DEF ProcessExpired
  <2>2. Current \in Seq(Timers) /\ SortedBy(Value, Current)
    BY DEF TypeOK, LinkInv, Sorted, SortedBy
  <2> QED
    BY <1>2, <2>1, <2>2, RemovedHead
<1>4. In(Current)' = In(Current) \ {t} /\ In(Overflow)' = In(Overflow)
      /\ Linked' = Linked \ {t} /\ t \in Linked /\ t \notin In(Overflow)
  <2>1. t \in Linked /\ t \notin In(Overflow)
    BY <1>3 DEF Linked, LinkInv
  <2> QED
    BY <1>1, <1>3, <2>1 DEF Linked
<1>5. /\ msg # None => t # msg.Timer
      /\ memory[t] # "freed" /\ Active[t]
  <2>1. msg # None => t # msg.Timer
    BY <1>4 DEF LinkInv
  <2> QED
    BY <1>3, <1>4, <2>1 DEF LinkInv, Apart
<1>6. /\ due[t] \in Nat /\ time \in Nat /\ Value[t] = due[t] % TickMod /\ Value[t] \in Ticks
  BY <1>3, <1>4 DEF TypeOK, DueInv
\* What is to be done again, or not.
<1>7. \/ /\ pc' = "reload" /\ Timer' = t /\ Expired' = Value[t] /\ UpTo' = now /\ back' = caller
         /\ Active' = Active /\ due' = due /\ early' = early
      \/ /\ pc' = caller /\ Active' = [Active EXCEPT ![t] = FALSE]
         /\ early' = (early \/ due[t] > time) /\ due' = [due EXCEPT ![t] = 0]
         /\ Timer' = Timer /\ Expired' = Expired /\ UpTo' = UpTo /\ back' = back
  BY <1>2 DEF ProcessExpired, Report, reloadVars
<1>8. ~early' /\ early' \in BOOLEAN
  <2>1. ~(due[t] > time)
    BY <1>2, <1>6
  <2>2. ~early /\ early \in BOOLEAN
    BY DEF DueInv, TypeOK
  <2> QED
    BY <1>7, <2>1, <2>2
<1>9. \A u \in Timers : u # t => due'[u] = due[u] /\ Active'[u] = Active[u]
  BY <1>7 DEF TypeOK
<1>10. TypeOK'
  <2>1. due' \in [Timers -> Nat] /\ Active' \in [Timers -> BOOLEAN]
    <3>1. due \in [Timers -> Nat] /\ Active \in [Timers -> BOOLEAN]
      BY DEF TypeOK
    <3>2. /\ due' = due \/ due' = [due EXCEPT ![t] = 0]
          /\ Active' = Active \/ Active' = [Active EXCEPT ![t] = FALSE]
      BY <1>7
    <3>3. [due EXCEPT ![t] = 0] \in [Timers -> Nat]
      BY <3>1
    <3>4. [Active EXCEPT ![t] = FALSE] \in [Timers -> BOOLEAN]
      BY <3>1
    <3> QED
      BY <3>1, <3>2, <3>3, <3>4, Zenon
  <2>2. /\ pc' \in {"reload", "recv", "switch"} /\ Timer' \in Timers \cup {None}
        /\ Expired' \in Ticks /\ UpTo' \in Ticks /\ back' \in {"recv", "switch"}
    BY <1>3, <1>6, <1>7 DEF TypeOK
  <2> QED
    BY <1>1, <1>3, <1>8, <2>1, <2>2 DEF TypeOK
<1>11. MessageInv'
  BY <1>1 DEF MessageInv
<1>12. MemoryInv'
  BY <1>1 DEF MemoryInv
<1>13. DaemonInv'
  BY <1>1, <1>3, <1>7 DEF DaemonInv, InSwitch
<1>14. LinkInv'
  <2>1. Sorted(Current)' /\ Sorted(Overflow)' /\ In(Current)' \cap In(Overflow)' = {}
    BY <1>1, <1>3, <1>4 DEF LinkInv, Sorted, SortedBy
  <2>2. \A u \in Timers : u # t => (Apart(u)' <=> Apart(u))
    BY <1>1, <1>7 DEF Apart
  <2>3. \A u \in Timers : u # t /\ ~Apart(u)' /\ memory[u] # "freed" =>
                            (Active'[u] <=> u \in Linked')
    BY <1>4, <1>9, <2>2 DEF LinkInv
  <2>4. ~Apart(t)' => ~Active'[t]
    BY <1>3, <1>7 DEF Apart, TypeOK
  <2>5. \A u \in Timers : ~Apart(u)' /\ memory'[u] # "freed" => (Active'[u] <=> u \in Linked')
    BY <1>1, <1>4, <2>3, <2>4
  <2>6. pc' = "reload" => /\ Timer' \notin Linked' /\ Active'[Timer'] /\ memory'[Timer'] # "freed"
                          /\ msg' # None => msg'.Timer # Timer'
    BY <1>1, <1>4, <1>5, <1>7
  <2>7. \A u \in Timers : memory'[u] = "freed" => u \notin Linked'
    BY <1>1, <1>4 DEF LinkInv
  <2>8. msg' # None => msg'.Timer \notin Linked'
    BY <1>1, <1>4 DEF LinkInv
  <2> QED
    BY <2>1, <2>5, <2>6, <2>7, <2>8 DEF LinkInv
<1>15. TickMod \in Nat
  BY <1>6, ModFacts
<1>16. pc' = "reload" => Limit' = L /\ due'[Timer'] = due[t]
  BY <1>7 DEF Limit
<1>17. Linked' \subseteq Timers /\ \A u \in Linked' : due'[u] = due[u] /\ u \in Linked
  BY <1>4, <1>9, LinkedAre
<1>18. DueInv'
  <2>1. \A u \in In(Current)' : Base(due'[u]) <= CurrentBase'
    BY <1>4, <1>17, LinkedAre DEF DueInv, Linked
  <2>2. \A u \in In(Overflow)' : Base(due'[u]) <= CurrentBase' + TickMod
    BY <1>4, <1>15, <1>17, LinkedAre DEF DueInv, Linked
  <2>3. pc' = "reload" => /\ Expired' = due'[Timer'] % TickMod /\ UpTo' = Limit' % TickMod
                          /\ due'[Timer'] <= Limit'
    BY <1>2, <1>6, <1>7, <1>16
  <2>4. \A u \in Linked' : Value'[u] = due'[u] % TickMod
    BY <1>1, <1>17 DEF DueInv
  <2> QED
    BY <1>8, <2>1, <2>2, <2>3, <2>4 DEF DueInv
<1>19. EpochInv'
  <2> SUFFICES ASSUME ~overslept'
               PROVE  /\ \A u \in In(Current)' : Base(due'[u]) = CurrentBase'
                      /\ \A u \in In(Overflow)' : Base(due'[u]) = CurrentBase' + TickMod
                      /\ pc' = "reload" => Limit' - due'[Timer'] < TickMod
    BY DEF EpochInv
  <2>1. \A u \in In(Current)' : Base(due'[u]) = CurrentBase'
    BY <1>4, <1>17 DEF EpochInv, Linked
  <2>2. \A u \in In(Overflow)' : Base(due'[u]) = CurrentBase' + TickMod
    BY <1>4, <1>17 DEF EpochInv, Linked
  <2> QED
    BY <1>2, <1>16, <2>1, <2>2
<1>20. NothingOverdue'
  BY <1>7 DEF NothingOverdue
<1> QED
  BY <1>10, <1>11, <1>12, <1>13, <1>14, <1>18, <1>19, <1>20

\* The last tick before an epoch.
LEMMA LastTick ==
  ASSUME NEW n \in Nat, Base(n) >= TickMod
  PROVE  /\ Base(n) - 1 \in Nat /\ (Base(n) - 1) % TickMod = MaxTick
         /\ Base(Base(n) - 1) = Base(n) - TickMod
<1> DEFINE q == n \div TickMod
<1>1. q \in Nat /\ Base(n) = TickMod * q
  BY Mult
<1>2. TickMod \in Nat \ {0} /\ MaxTick = TickMod - 1 /\ Base(n) \in Nat
  BY ModFacts
<1> HIDE DEF q
<1>3. q # 0
  BY <1>1, <1>2
<1>4. q - 1 \in Nat /\ TickMod * (q - 1) = Base(n) - TickMod
  BY <1>1, <1>2, <1>3
<1>5. Base(n) - 1 \in Nat /\ MaxTick \in Ticks /\ Base(n) - 1 = TickMod * (q - 1) + MaxTick
  BY <1>2, <1>4 DEF Ticks
<1> QED
  BY <1>4, <1>5, BaseIs

\* In the daemon's loop: the head of the current list is due.
LEMMA ExpireStep ==
  ASSUME Inv, pc = "loop", ~Wrapped, Current # <<>>, IsDue(Value[Head(Current)]), Sample,
         overslept' = (overslept \/ time - sampled >= TickMod),
         ProcessExpired(Value[Head(Current)], TickCount, "recv"),
         UNCHANGED <<time, Overflow, Value, Period, Autoreload, memory, sendVars, msg, wake>>
  PROVE  Inv'
<1> USE DEF Inv
<1>1. ~InSwitch /\ msg = None /\ ~InSwitch' /\ pc' \in {"reload", "recv"}
  BY DEF InSwitch, DaemonInv, ProcessExpired
<1>2. ~overslept' => time - sampled < TickMod /\ ~overslept
  <2>1. ~overslept' => ~(time - sampled >= TickMod) /\ ~overslept
    OBVIOUS
  <2> QED
    BY <2>1, Sampling
<1>3. /\ sampled' = time /\ xLastTime' = TickCount /\ TickCount \in Ticks /\ time \in Nat
      /\ CurrentBase \in Int /\ CurrentBase' \in Int /\ CurrentBase <= CurrentBase'
      /\ ~overslept' => CurrentBase' = CurrentBase
      /\ xLastTime' = sampled' % TickMod
  BY <1>1, <1>2, Resampled
<1>4. CurrentBase = Base(sampled) /\ CurrentBase' = Base(time)
  BY <1>1, <1>3 DEF CurrentBase
<1>5. PICK t : t = Head(Current)
  OBVIOUS
<1>6. t \in In(Current) /\ t \in Linked
  BY <1>5, RemovedHead DEF TypeOK, LinkInv, Sorted, SortedBy, Linked
<1>7. /\ due[t] \in Nat /\ Base(due[t]) \in Nat /\ due[t] = Base(due[t]) + Value[t]
      /\ Value[t] \in Ticks /\ Base(due[t]) <= Base(sampled)
      /\ ~overslept' => Base(due[t]) = Base(sampled)
  BY <1>2, <1>4, <1>6, LinkedAre DEF DueInv, EpochInv
<1>8. /\ time = Base(time) + TickCount /\ Base(time) \in Nat /\ TickMod \in Nat
      /\ MaxTick = TickMod - 1 /\ Value[t] <= TickCount /\ Base(sampled) \in Nat
  BY <1>5, Sampling DEF IsDue
<1>9. due[t] <= time /\ (~overslept' => time - due[t] < TickMod)
  <2>1. due[t] <= time
    BY <1>3, <1>4, <1>7, <1>8 DEF Ticks
  <2>2. ~overslept' => time - due[t] < TickMod
    BY <1>3, <1>4, <1>7, <1>8 DEF Ticks
  <2> QED
    BY <2>1, <2>2
<1>10. overslept' \in BOOLEAN /\ TickCount = time % TickMod
  BY DEF TickCount
<1> QED
  BY <1>1, <1>2, <1>3, <1>5, <1>9, <1>10, HeadExpires

\* The lists are switched: what is left in the current one has expired by the wrap.
LEMMA SwitchStep == ASSUME Inv, SwitchTimerLists PROVE Inv'
<1> USE DEF Inv
<1>1. /\ pc = "switch" /\ time' = time /\ Value' = Value /\ Period' = Period
      /\ Autoreload' = Autoreload /\ memory' = memory /\ UNCHANGED sendVars /\ msg' = msg
      /\ xLastTime' = xLastTime /\ sampled' = sampled /\ wake' = wake /\ overslept' = overslept
  BY DEF SwitchTimerLists, sampleVars
<1>2. /\ InSwitch /\ Base(sampled) >= TickMod /\ sampled <= time
      /\ xLastTime = sampled % TickMod
      /\ sampled \in Nat /\ time \in Nat /\ xLastTime \in Ticks /\ overslept \in BOOLEAN
  BY <1>1 DEF InSwitch, DaemonInv, TypeOK
<1>3. /\ CurrentBase = Base(sampled) - TickMod /\ TickMod \in Nat /\ Base(sampled) \in Nat
      /\ MaxTick = TickMod - 1 /\ MaxTick \in Ticks /\ Base(sampled) <= sampled
  <2>1. /\ TickMod \in Nat \ {0} /\ MaxTick = TickMod - 1 /\ Base(sampled) \in Nat
        /\ sampled % TickMod \in Ticks /\ sampled = Base(sampled) + (sampled % TickMod)
    BY <1>2, ModFacts
  <2>2. CurrentBase = Base(sampled) - TickMod
    BY <1>2 DEF CurrentBase
  <2> QED
    BY <1>2, <2>1, <2>2 DEF Ticks
<1>4. CASE Current # <<>>
  <2>1. /\ ProcessExpired(Value[Head(Current)], MaxTick, "switch") /\ Overflow' = Overflow
    BY <1>4 DEF SwitchTimerLists
  <2>2. InSwitch' /\ CurrentBase' = CurrentBase
    <3>1. InSwitch'
      BY <2>1 DEF ProcessExpired, InSwitch
    <3> QED
      BY <1>1, <1>2, <3>1 DEF CurrentBase
  <2>3. PICK t : t = Head(Current)
    OBVIOUS
  <2>4. t \in In(Current) /\ t \in Linked
    BY <1>4, <2>3, RemovedHead DEF TypeOK, LinkInv, Sorted, SortedBy, Linked
  <2>5. /\ due[t] \in Nat /\ Base(due[t]) \in Nat /\ due[t] = Base(due[t]) + Value[t]
        /\ Value[t] \in Ticks /\ Base(due[t]) <= CurrentBase
        /\ ~overslept => Base(due[t]) = CurrentBase
    BY <2>4, LinkedAre DEF DueInv, EpochInv
  <2>6. PICK L \in Nat : L = Base(sampled) - 1 /\ L % TickMod = MaxTick
    BY <1>2, LastTick
  <2>7. due[t] <= L /\ (~overslept => L - due[t] < TickMod) /\ L <= time
    BY <1>2, <1>3, <2>5, <2>6 DEF Ticks
  <2> QED
    BY <1>1, <1>2, <1>3, <1>4, <2>1, <2>2, <2>3, <2>6, <2>7, HeadExpires
<1>5. CASE Current = <<>>
  <2>1. /\ Current' = Overflow /\ Overflow' = <<>>
        /\ pc' = IF msg = None THEN "recv" ELSE "command"
        /\ Active' = Active /\ due' = due /\ early' = early
        /\ Timer' = Timer /\ Expired' = Expired /\ UpTo' = UpTo /\ back' = back
        /\ queue' = queue /\ calls' = calls /\ call' = call
    BY <1>1, <1>5 DEF SwitchTimerLists, reloadVars, sendVars
  <2>2. In(Current)' = In(Overflow) /\ In(Overflow)' = {} /\ In(Current) = {}
        /\ Linked' = Linked
    <3>1. In(<<>>) = {}
      BY DEF In
    <3> QED
      BY <1>5, <2>1, <3>1 DEF Linked
  <2>3. ~InSwitch' /\ CurrentBase' = CurrentBase + TickMod
    <3>1. ~InSwitch'
      BY <2>1 DEF InSwitch
    <3> QED
      BY <1>1, <1>3, <3>1 DEF CurrentBase
  <2>4. TypeOK'
    <3>1. <<>> \in Seq(Timers)
      OBVIOUS
    <3> QED
      BY <1>1, <2>1, <3>1 DEF TypeOK
  <2>5. MessageInv' /\ MemoryInv'
    BY <1>1, <2>1 DEF MessageInv, MemoryInv
  <2>6. DaemonInv'
    BY <1>1, <2>1, <2>3 DEF DaemonInv
  <2>7. LinkInv'
    <3>1. \A t \in Timers : Apart(t)' <=> Apart(t)
      BY <1>1, <2>1 DEF Apart
    <3>2. Sorted(Current)' /\ Sorted(Overflow)'
      BY <1>1, <2>1 DEF LinkInv, Sorted
    <3> QED
      BY <1>1, <2>1, <2>2, <3>1, <3>2 DEF LinkInv
  <2>8. DueInv'
    BY <1>1, <2>1, <2>2, <2>3 DEF DueInv
  <2>9. EpochInv'
    BY <1>1, <2>1, <2>2, <2>3 DEF EpochInv
  <2>10. NothingOverdue'
    BY <2>1 DEF NothingOverdue
  <2> QED
    BY <2>4, <2>5, <2>6, <2>7, <2>8, <2>9, <2>10
<1> QED
  BY <1>4, <1>5

-----------------------------------------------------------------------------
(* Timers are started. *)

\* A timer that the daemon works on is put in the list of the epoch of its next expiry, e.
LEMMA Placed ==
  ASSUME Inv, NEW t \in Timers, t \notin Linked, memory[t] # "freed",
         NEW next \in Ticks, NEW now \in Ticks, Insert(t, next, now),
         NEW e \in Nat, next = e % TickMod, due' = [due EXCEPT ![t] = e],
         CurrentBase \in Int, CurrentBase' = CurrentBase, TickMod \in Nat,
         Base(e) <= (IF next <= now THEN CurrentBase + TickMod ELSE CurrentBase),
         ~overslept => Base(e) = (IF next <= now THEN CurrentBase + TickMod ELSE CurrentBase),
         overslept' = overslept, early' = early, memory' = memory, pc' # "reload",
         Active' = [Active EXCEPT ![t] = TRUE],
         \A u \in Timers : u # t => (Apart(u)' <=> Apart(u)),
         msg' = None \/ (msg' = msg /\ msg.Timer # t)
  PROVE  /\ LinkInv' /\ DueInv' /\ EpochInv'
         /\ Current' \in Seq(Timers) /\ Overflow' \in Seq(Timers) /\ Value' \in [Timers -> Ticks]
         /\ due' \in [Timers -> Nat] /\ Active' \in [Timers -> BOOLEAN]
<1> USE DEF Inv
<1>1. /\ Value' = [Value EXCEPT ![t] = next]
      /\ Current' \in Seq(Timers) /\ Overflow' \in Seq(Timers)
      /\ Sorted(Current)' /\ Sorted(Overflow)'
      /\ In(Current)' = IF next <= now THEN In(Current) ELSE In(Current) \cup {t}
      /\ In(Overflow)' = IF next <= now THEN In(Overflow) \cup {t} ELSE In(Overflow)
  BY InsertLists DEF LinkInv
<1>2. /\ Linked' = Linked \cup {t} /\ t \notin In(Current) /\ t \notin In(Overflow)
      /\ Linked \subseteq Timers
  BY <1>1, LinkedAre DEF Linked
<1>3. /\ Value' \in [Timers -> Ticks] /\ due' \in [Timers -> Nat] /\ Active' \in [Timers -> BOOLEAN]
      /\ Value'[t] = next /\ due'[t] = e /\ Active'[t] = TRUE
      /\ \A u \in Timers : u # t =>
           Value'[u] = Value[u] /\ due'[u] = due[u] /\ Active'[u] = Active[u]
  <2>1. /\ Value \in [Timers -> Ticks] /\ due \in [Timers -> Nat] /\ Active \in [Timers -> BOOLEAN]
    BY DEF TypeOK
  <2>2. Value' \in [Timers -> Ticks] /\ Value'[t] = next
        /\ \A u \in Timers : u # t => Value'[u] = Value[u]
    BY <1>1, <2>1
  <2>3. due' \in [Timers -> Nat] /\ due'[t] = e /\ \A u \in Timers : u # t => due'[u] = due[u]
    BY <2>1
  <2>4. Active' \in [Timers -> BOOLEAN] /\ Active'[t] = TRUE
        /\ \A u \in Timers : u # t => Active'[u] = Active[u]
    BY <2>1
  <2> QED
    BY <2>2, <2>3, <2>4
<1>4. LinkInv'
  <2>1. In(Current)' \cap In(Overflow)' = {}
    BY <1>1, <1>2 DEF LinkInv
  <2>2. \A u \in Timers : memory'[u] = "freed" => u \notin Linked'
    BY <1>2 DEF LinkInv
  <2>3. \A u \in Timers : ~Apart(u)' /\ memory'[u] # "freed" => (Active'[u] <=> u \in Linked')
    <3>1. \A u \in Timers : u # t /\ ~Apart(u)' /\ memory'[u] # "freed" =>
                              (Active'[u] <=> u \in Linked')
      BY <1>2, <1>3 DEF LinkInv
    <3> QED
      BY <1>2, <1>3, <3>1
  <2>4. msg' # None => msg'.Timer \notin Linked'
    BY <1>2 DEF LinkInv
  <2> QED
    BY <1>1, <2>1, <2>2, <2>3, <2>4 DEF LinkInv
<1>5. DueInv'
  <2>1. \A u \in Linked' : Value'[u] = due'[u] % TickMod
    BY <1>2, <1>3 DEF DueInv
  <2>2. \A u \in In(Current)' : Base(due'[u]) <= CurrentBase'
    <3>1. ASSUME NEW u \in In(Current)', u # t PROVE Base(due'[u]) <= CurrentBase'
      <4>1. u \in In(Current) /\ u \in Timers
        BY <1>1, <1>2, <3>1 DEF Linked
      <4> QED
        BY <1>3, <3>1, <4>1 DEF DueInv
    <3>2. t \in In(Current)' => Base(due'[t]) <= CurrentBase'
      BY <1>1, <1>2, <1>3
    <3> QED
      BY <3>1, <3>2
  <2>3. \A u \in In(Overflow)' : Base(due'[u]) <= CurrentBase' + TickMod
    <3>1. ASSUME NEW u \in In(Overflow)', u # t PROVE Base(due'[u]) <= CurrentBase' + TickMod
      <4>1. u \in In(Overflow) /\ u \in Timers
        BY <1>1, <1>2, <3>1 DEF Linked
      <4> QED
        BY <1>3, <3>1, <4>1 DEF DueInv
    <3>2. t \in In(Overflow)' => Base(due'[t]) <= CurrentBase' + TickMod
      BY <1>1, <1>2, <1>3
    <3> QED
      BY <3>1, <3>2
  <2> QED
    BY <2>1, <2>2, <2>3 DEF DueInv
<1>6. EpochInv'
  <2> SUFFICES ASSUME ~overslept
               PROVE  /\ \A u \in In(Current)' : Base(due'[u]) = CurrentBase
                      /\ \A u \in In(Overflow)' : Base(due'[u]) = CurrentBase + TickMod
    BY DEF EpochInv
  <2>1. ASSUME NEW u \in In(Current)' PROVE Base(due'[u]) = CurrentBase
    <3>1. CASE u # t
      <4>1. u \in In(Current) /\ u \in Timers
        BY <1>1, <1>2, <3>1 DEF Linked
      <4> QED
        BY <1>3, <3>1, <4>1 DEF EpochInv
    <3>2. CASE u = t
      BY <1>1, <1>2, <1>3, <2>1, <3>2
    <3> QED
      BY <3>1, <3>2
  <2>2. ASSUME NEW u \in In(Overflow)' PROVE Base(due'[u]) = CurrentBase + TickMod
    <3>1. CASE u # t
      <4>1. u \in In(Overflow) /\ u \in Timers
        BY <1>1, <1>2, <3>1 DEF Linked
      <4> QED
        BY <1>3, <3>1, <4>1 DEF EpochInv
    <3>2. CASE u = t
      BY <1>1, <1>2, <1>3, <2>2, <3>2
    <3> QED
      BY <3>1, <3>2
  <2> QED
    BY <2>1, <2>2
<1> QED
  BY <1>1, <1>3, <1>4, <1>5, <1>6

\* The limit of ReloadTimer is in the epoch of the current list.
LEMMA Limits ==
  ASSUME TypeOK, DaemonInv, pc = "reload"
  PROVE  /\ Limit \in Nat /\ Limit <= time /\ Base(Limit) = CurrentBase /\ CurrentBase \in Int
         /\ TickMod \in Nat
<1>1. sampled \in Nat /\ time \in Nat /\ sampled <= time
  BY DEF TypeOK, DaemonInv
<1>2. /\ Base(sampled) \in Nat /\ TickMod \in Nat \ {0} /\ sampled % TickMod \in Ticks
      /\ sampled = Base(sampled) + (sampled % TickMod)
  BY <1>1, ModFacts
<1>3. CASE back = "switch"
  <2>1. InSwitch /\ Base(sampled) >= TickMod
    BY <1>3 DEF InSwitch, DaemonInv
  <2>2. Limit = Base(sampled) - 1 /\ CurrentBase = Base(sampled) - TickMod
    BY <1>3, <2>1 DEF Limit, CurrentBase
  <2>3. Base(sampled) - 1 \in Nat /\ Base(Base(sampled) - 1) = Base(sampled) - TickMod
    BY <1>1, <2>1, LastTick
  <2>4. Base(sampled) - 1 <= time
    BY <1>1, <1>2, ModFacts DEF Ticks
  <2> QED
    BY <1>2, <2>2, <2>3, <2>4
<1>4. CASE back # "switch"
  BY <1>1, <1>2, <1>4 DEF Limit, CurrentBase, InSwitch
<1> QED
  BY <1>3, <1>4

\* A period is a number of ticks within an epoch.
LEMMA PeriodIs ==
  ASSUME TypeOK, NEW t \in Timers
  PROVE  Period[t] \in 1 .. MaxTick
  BY TimersAssumption DEF TypeOK

\* One iteration of ReloadTimer.
LEMMA ReloadStep == ASSUME Inv, Reload PROVE Inv'
<1> USE DEF Inv
<1>1. PICK t \in Timers : t = Timer /\ pc = "reload"
  BY DEF Reload, DaemonInv
<1>2. PICK p \in 1 .. MaxTick : p = Period[t]
  BY PeriodIs
<1>3. PICK d \in Nat : d = due[t]
  BY DEF TypeOK
<1>4. PICK next : next = Plus(Expired, p)
  OBVIOUS
<1>5. /\ time' = time /\ Period' = Period /\ Active' = Active /\ Autoreload' = Autoreload
      /\ memory' = memory /\ queue' = queue /\ calls' = calls /\ call' = call /\ msg' = msg
      /\ xLastTime' = xLastTime /\ sampled' = sampled /\ wake' = wake /\ overslept' = overslept
      /\ due' = [due EXCEPT ![t] = d + p] /\ early' = (early \/ d > time)
  BY <1>1, <1>2, <1>3 DEF Reload, Report, sendVars, sampleVars
<1>6. /\ Limit \in Nat /\ Limit <= time /\ Base(Limit) = CurrentBase /\ CurrentBase \in Int
      /\ TickMod \in Nat
  BY <1>1, Limits
<1>7. PICK u \in Nat : u = Limit
  BY <1>6
<1>8. /\ t \notin Linked /\ Active[t] /\ memory[t] # "freed" /\ (msg # None => msg.Timer # t)
      /\ Expired = d % TickMod /\ UpTo = u % TickMod /\ d <= u
      /\ ~overslept => u - d < TickMod
      /\ time \in Nat /\ p \in Nat
  BY <1>1, <1>2, <1>3, <1>7 DEF LinkInv, DueInv, EpochInv, TypeOK
<1>9. /\ next = (d + p) % TickMod /\ next \in Ticks /\ UpTo \in Ticks
      /\ HasPassed(next, UpTo, Expired, p) => d + p <= u
      /\ ~HasPassed(next, UpTo, Expired, p) =>
           /\ Base(d + p) <= IF next <= UpTo THEN CurrentBase + TickMod ELSE CurrentBase
           /\ ~overslept =>
                Base(d + p) = IF next <= UpTo THEN CurrentBase + TickMod ELSE CurrentBase
  <2>1. /\ next = (d + p) % TickMod
        /\ HasPassed(next, UpTo, Expired, p) => d + p <= u
        /\ ~HasPassed(next, UpTo, Expired, p) =>
             /\ Base(d + p) <= IF next <= UpTo THEN Base(u) + TickMod ELSE Base(u)
             /\ u - d < TickMod =>
                  Base(d + p) = IF next <= UpTo THEN Base(u) + TickMod ELSE Base(u)
    BY <1>4, <1>8, Passed
  <2>2. d + p \in Nat /\ (d + p) % TickMod \in Ticks /\ u % TickMod \in Ticks
    BY <1>8, ModFacts
  <2> QED
    BY <1>6, <1>7, <1>8, <2>1, <2>2
<1>10. ~early' /\ early' \in BOOLEAN /\ early' = early
  <2>1. ~(d > time) /\ ~early /\ early \in BOOLEAN
    BY <1>6, <1>7, <1>8 DEF DueInv, TypeOK
  <2> QED
    BY <1>5, <2>1
<1>11. MessageInv' /\ MemoryInv'
  BY <1>5 DEF MessageInv, MemoryInv
<1>12. CASE HasPassed(next, UpTo, Expired, p)
  <2>1. /\ Value' = [Value EXCEPT ![t] = next] /\ Expired' = next
        /\ Current' = Current /\ Overflow' = Overflow /\ pc' = pc /\ Timer' = Timer
        /\ UpTo' = UpTo /\ back' = back
    BY <1>1, <1>2, <1>4, <1>12 DEF Reload, listVars
  <2>2. /\ In(Current)' = In(Current) /\ In(Overflow)' = In(Overflow) /\ Linked' = Linked
        /\ InSwitch' = InSwitch /\ CurrentBase' = CurrentBase /\ Limit' = Limit
    BY <1>5, <2>1 DEF Linked, InSwitch, CurrentBase, Limit
  <2>3. /\ Value' \in [Timers -> Ticks] /\ due' \in [Timers -> Nat] /\ due'[t] = d + p
        /\ \A v \in Timers : v # t => Value'[v] = Value[v] /\ due'[v] = due[v]
    <3>1. Value \in [Timers -> Ticks] /\ due \in [Timers -> Nat] /\ d + p \in Nat
      BY <1>8 DEF TypeOK
    <3> QED
      BY <1>5, <1>9, <2>1, <3>1
  <2>4. \A v \in Linked : v \in Timers /\ v # t
    BY <1>8, LinkedAre
  <2>5. In(Current) \subseteq Linked /\ In(Overflow) \subseteq Linked
    BY LinkedAre
  <2>6. TypeOK'
    BY <1>5, <1>9, <1>10, <2>1, <2>3 DEF TypeOK
  <2>7. DaemonInv'
    BY <1>5, <2>1, <2>2 DEF DaemonInv
  <2>8. LinkInv'
    <3>1. Sorted(Current)' /\ Sorted(Overflow)'
      <4>1. \A i \in DOMAIN Current : Current[i] \in In(Current)
        BY DEF In
      <4>2. \A i \in DOMAIN Overflow : Overflow[i] \in In(Overflow)
        BY DEF In
      <4>3. \A i \in DOMAIN Current : Value'[Current[i]] = Value[Current[i]]
        BY <2>3, <2>4, <2>5, <4>1
      <4>4. \A i \in DOMAIN Overflow : Value'[Overflow[i]] = Value[Overflow[i]]
        BY <2>3, <2>4, <2>5, <4>2
      <4> QED
        BY <2>1, <4>3, <4>4 DEF LinkInv, Sorted
    <3>2. \A v \in Timers : Apart(v)' <=> Apart(v)
      BY <1>5, <2>1 DEF Apart
    <3> QED
      BY <1>1, <1>5, <2>1, <2>2, <3>1, <3>2 DEF LinkInv
  <2>9. DueInv'
    <3>1. \A v \in Linked : Value'[v] = due'[v] % TickMod
      BY <2>3, <2>4 DEF DueInv
    <3>2. \A v \in In(Current) : Base(due'[v]) <= CurrentBase
      BY <2>3, <2>4, <2>5 DEF DueInv
    <3>3. \A v \in In(Overflow) : Base(due'[v]) <= CurrentBase + TickMod
      BY <2>3, <2>4, <2>5 DEF DueInv
    <3> QED
      BY <1>1, <1>7, <1>8, <1>9, <1>10, <1>12, <2>1, <2>2, <2>3, <3>1, <3>2, <3>3 DEF DueInv
  <2>10. EpochInv'
    <3> SUFFICES ASSUME ~overslept
                 PROVE  /\ \A v \in In(Current) : Base(due'[v]) = CurrentBase
                        /\ \A v \in In(Overflow) : Base(due'[v]) = CurrentBase + TickMod
                        /\ u - (d + p) < TickMod
      BY <1>1, <1>5, <1>7, <2>1, <2>2, <2>3 DEF EpochInv
    <3>1. \A v \in In(Current) : Base(due'[v]) = CurrentBase
      BY <2>3, <2>4, <2>5 DEF EpochInv
    <3>2. \A v \in In(Overflow) : Base(due'[v]) = CurrentBase + TickMod
      BY <2>3, <2>4, <2>5 DEF EpochInv
    <3>3. u - (d + p) < TickMod
      BY <1>6, <1>8
    <3> QED
      BY <3>1, <3>2, <3>3
  <2>11. NothingOverdue'
    BY <1>1, <2>1 DEF NothingOverdue
  <2> QED
    BY <1>11, <2>6, <2>7, <2>8, <2>9, <2>10, <2>11
<1>13. CASE ~HasPassed(next, UpTo, Expired, p)
  <2>1. /\ Insert(t, next, UpTo) /\ pc' = back
        /\ Timer' = None /\ Expired' = 0 /\ UpTo' = 0 /\ back' = "recv"
    BY <1>1, <1>2, <1>4, <1>13 DEF Reload
  <2>2. back \in {"recv", "switch"} /\ 0 \in Ticks
    <3>1. TickMod \in Nat \ {0} /\ MaxTick = TickMod - 1
      BY <1>8, ModFacts
    <3> QED
      BY <3>1 DEF TypeOK, Ticks
  <2>3. (InSwitch' <=> InSwitch) /\ CurrentBase' = CurrentBase
    <3>1. InSwitch' <=> InSwitch
      BY <1>1, <2>1, <2>2 DEF InSwitch
    <3> QED
      BY <1>5, <3>1 DEF CurrentBase
  <2>4. PICK e \in Nat : e = d + p
    BY <1>8
  <2>5. /\ Active' = [Active EXCEPT ![t] = TRUE]
        /\ \A v \in Timers : v # t => (Apart(v)' <=> Apart(v))
        /\ pc' # "reload" /\ due' = [due EXCEPT ![t] = e]
    <3>1. Active' = [Active EXCEPT ![t] = TRUE]
      BY <1>5, <1>8 DEF TypeOK
    <3> QED
      BY <1>1, <1>5, <2>1, <2>2, <2>4, <3>1 DEF Apart
  <2>6. /\ next = e % TickMod
        /\ Base(e) <= IF next <= UpTo THEN CurrentBase + TickMod ELSE CurrentBase
        /\ ~overslept => Base(e) = IF next <= UpTo THEN CurrentBase + TickMod ELSE CurrentBase
    BY <1>9, <1>13, <2>4
  <2>7. /\ LinkInv' /\ DueInv' /\ EpochInv'
        /\ Current' \in Seq(Timers) /\ Overflow' \in Seq(Timers) /\ Value' \in [Timers -> Ticks]
        /\ due' \in [Timers -> Nat] /\ Active' \in [Timers -> BOOLEAN]
    BY <1>5, <1>6, <1>8, <1>9, <1>10, <2>1, <2>3, <2>5, <2>6, Placed
  <2>8. TypeOK'
    BY <1>5, <1>10, <2>1, <2>2, <2>7 DEF TypeOK
  <2>9. DaemonInv'
    BY <1>1, <1>5, <2>1, <2>2, <2>3 DEF DaemonInv, InSwitch
  <2>10. NothingOverdue'
    BY <2>1, <2>2 DEF NothingOverdue
  <2> QED
    BY <1>11, <2>7, <2>8, <2>9, <2>10
<1> QED
  BY <1>12, <1>13

-----------------------------------------------------------------------------
(* Commands. *)

\* What the daemon knows when it acts on a command.
LEMMA Commanded ==
  ASSUME Inv, pc = "command"
  PROVE  /\ msg \in MessageType /\ msg # None /\ msg.Timer \in Timers
         /\ msg.Timer \notin Linked /\ memory[msg.Timer] # "freed"
         /\ Sound(msg, time) /\ msg.Value \in Ticks /\ msg.at \in Nat
         /\ ~InSwitch /\ CurrentBase = Base(sampled) /\ CurrentBase \in Nat /\ TickMod \in Nat
         /\ sampled \in Nat /\ time \in Nat /\ sampled <= time /\ xLastTime = sampled % TickMod
         /\ xLastTime \in Ticks
<1>1. msg \in MessageType /\ msg # None
  BY Queued DEF Inv, DaemonInv
<1>2. msg.Timer \in Timers /\ msg.Value \in Ticks /\ msg.at \in Nat
  BY <1>1, Fields
<1>3. ~InSwitch /\ CurrentBase = Base(sampled)
  BY DEF InSwitch, CurrentBase
<1>4. sampled \in Nat /\ time \in Nat /\ sampled <= time /\ xLastTime = sampled % TickMod
      /\ xLastTime \in Ticks
  BY DEF Inv, TypeOK, DaemonInv
<1>5. Base(sampled) \in Nat /\ TickMod \in Nat
  BY <1>4, ModFacts
<1> QED
  BY <1>1, <1>2, <1>3, <1>4, <1>5 DEF Inv, LinkInv, MessageInv, MemoryInv

\* A command that leaves its timer in no list.
LEMMA Dormant ==
  ASSUME Inv, pc = "command", NEW t, t = msg.Timer, msg' = None, pc' = "recv",
         UNCHANGED <<time, Period, Autoreload, listVars, sendVars, sampleVars, reloadVars, wake>>,
         overslept' = overslept, ~early', early' \in BOOLEAN,
         Value' \in [Timers -> Ticks], due' \in [Timers -> Nat], Active' \in [Timers -> BOOLEAN],
         memory' \in [Timers -> {"live", "deleting", "freed"}],
         \A u \in Timers : u # t => /\ Value'[u] = Value[u] /\ due'[u] = due[u]
                                    /\ Active'[u] = Active[u] /\ memory'[u] = memory[u],
         ~Active'[t] \/ memory'[t] = "freed",
         MemoryInv'
  PROVE  Inv'
<1> USE DEF Inv
<1>1. /\ time' = time /\ Period' = Period /\ Autoreload' = Autoreload
      /\ Current' = Current /\ Overflow' = Overflow
      /\ queue' = queue /\ calls' = calls /\ call' = call
      /\ xLastTime' = xLastTime /\ sampled' = sampled /\ wake' = wake
      /\ Timer' = Timer /\ Expired' = Expired /\ UpTo' = UpTo /\ back' = back
  BY DEF listVars, sendVars, sampleVars, reloadVars
<1>2. t \in Timers /\ t \notin Linked /\ ~InSwitch
  BY Commanded
<1>3. ~InSwitch'
  BY DEF InSwitch
<1>4. CurrentBase' = CurrentBase
  BY <1>1, <1>2, <1>3 DEF CurrentBase
<1>5. In(Current)' = In(Current) /\ In(Overflow)' = In(Overflow) /\ Linked' = Linked
  BY <1>1 DEF Linked
<1>6. \A u \in Linked : u \in Timers /\ u # t
  BY <1>2, LinkedAre
<1>7. In(Current) \subseteq Linked /\ In(Overflow) \subseteq Linked
  BY LinkedAre
<1>8. TypeOK'
  BY <1>1 DEF TypeOK
<1>9. MessageInv'
  BY <1>1 DEF MessageInv
<1>10. DaemonInv'
  BY <1>1, <1>3 DEF DaemonInv
<1>11. LinkInv'
  <2>1. Sorted(Current)' /\ Sorted(Overflow)'
    <3>1. \A i \in DOMAIN Current : Current[i] \in In(Current)
      BY DEF In
    <3>2. \A i \in DOMAIN Overflow : Overflow[i] \in In(Overflow)
      BY DEF In
    <3>3. \A i \in DOMAIN Current : Value'[Current[i]] = Value[Current[i]]
      BY <1>6, <1>7, <3>1
    <3>4. \A i \in DOMAIN Overflow : Value'[Overflow[i]] = Value[Overflow[i]]
      BY <1>6, <1>7, <3>2
    <3> QED
      BY <1>1, <3>3, <3>4 DEF LinkInv, Sorted
  <2>2. \A u \in Timers : u # t => ~Apart(u)
    BY DEF Apart
  <2>3. \A u \in Timers : memory'[u] = "freed" => u \notin Linked'
    BY <1>2, <1>5 DEF LinkInv
  <2>4. \A u \in Timers : memory'[u] # "freed" => (Active'[u] <=> u \in Linked')
    <3>1. \A u \in Timers : u # t /\ memory'[u] # "freed" => (Active'[u] <=> u \in Linked')
      BY <1>5, <2>2 DEF LinkInv
    <3> QED
      BY <1>2, <1>5, <3>1
  <2> QED
    BY <1>1, <1>5, <2>1, <2>3, <2>4 DEF LinkInv
<1>12. DueInv'
  <2>1. \A u \in Linked : Value'[u] = due'[u] % TickMod
    BY <1>6 DEF DueInv
  <2>2. \A u \in In(Current) : Base(due'[u]) <= CurrentBase
    BY <1>6, <1>7 DEF DueInv
  <2>3. \A u \in In(Overflow) : Base(due'[u]) <= CurrentBase + TickMod
    BY <1>6, <1>7 DEF DueInv
  <2> QED
    BY <1>4, <1>5, <2>1, <2>2, <2>3 DEF DueInv
<1>13. EpochInv'
  <2> SUFFICES ASSUME ~overslept
               PROVE  /\ \A u \in In(Current) : Base(due'[u]) = CurrentBase
                      /\ \A u \in In(Overflow) : Base(due'[u]) = CurrentBase + TickMod
    BY <1>4, <1>5 DEF EpochInv
  <2>1. \A u \in In(Current) : Base(due'[u]) = CurrentBase
    BY <1>6, <1>7 DEF EpochInv
  <2>2. \A u \in In(Overflow) : Base(due'[u]) = CurrentBase + TickMod
    BY <1>6, <1>7 DEF EpochInv
  <2> QED
    BY <2>1, <2>2
<1>14. NothingOverdue'
  BY DEF NothingOverdue
<1> QED
  BY <1>8, <1>9, <1>10, <1>11, <1>12, <1>13, <1>14

\* A timer is stopped.
LEMMA StopStep == ASSUME Inv, StopCommand PROVE Inv'
<1>1. PICK t \in Timers : t = msg.Timer
  BY Commanded DEF StopCommand
<1>2. /\ pc = "command" /\ pc' = "recv" /\ msg' = None /\ memory' = memory /\ Value' = Value
      /\ Active' = [Active EXCEPT ![t] = FALSE] /\ due' = [due EXCEPT ![t] = 0]
      /\ UNCHANGED <<time, Period, Autoreload, listVars, sendVars, sampleVars, reloadVars, wake>>
      /\ early' = early /\ overslept' = overslept
  BY <1>1 DEF StopCommand
<1>3. MemoryInv'
  BY <1>2 DEF Inv, MemoryInv, sendVars
<1>4. ~early' /\ early' \in BOOLEAN
  BY <1>2 DEF Inv, DueInv, TypeOK
<1>5. /\ Value' \in [Timers -> Ticks] /\ due' \in [Timers -> Nat]
      /\ Active' \in [Timers -> BOOLEAN] /\ ~Active'[t]
      /\ memory' \in [Timers -> {"live", "deleting", "freed"}]
      /\ \A u \in Timers : u # t => due'[u] = due[u] /\ Active'[u] = Active[u]
  BY <1>2 DEF Inv, TypeOK
<1> QED
  BY <1>1, <1>2, <1>3, <1>4, <1>5, Dormant

\* A timer is deleted.
LEMMA DeleteCommandStep == ASSUME Inv, DeleteCommand PROVE Inv'
<1> USE DEF Inv
<1>1. PICK t \in Timers : t = msg.Timer
  BY Commanded DEF DeleteCommand
<1>2. /\ pc = "command" /\ msg.ID = "delete" /\ pc' = "recv" /\ msg' = None /\ Value' = Value
      /\ due' = [due EXCEPT ![t] = 0]
      /\ \/ t \in StaticTimers /\ Active' = [Active EXCEPT ![t] = FALSE] /\ memory' = memory
         \/ t \notin StaticTimers /\ memory' = [memory EXCEPT ![t] = "freed"] /\ Active' = Active
      /\ UNCHANGED <<time, Period, Autoreload, listVars, sendVars, sampleVars, reloadVars, wake>>
      /\ early' = early /\ overslept' = overslept
  BY <1>1 DEF DeleteCommand
<1>3. msg # None /\ memory[t] # "freed"
  BY <1>1, <1>2, Commanded
<1>4. /\ due' \in [Timers -> Nat] /\ Active' \in [Timers -> BOOLEAN]
      /\ memory' \in [Timers -> {"live", "deleting", "freed"}]
      /\ ~Active'[t] \/ memory'[t] = "freed"
      /\ \A u \in Timers : u # t => /\ due'[u] = due[u] /\ Active'[u] = Active[u]
                                    /\ memory'[u] = memory[u]
  <2>1. /\ due \in [Timers -> Nat] /\ Active \in [Timers -> BOOLEAN]
        /\ memory \in [Timers -> {"live", "deleting", "freed"}]
    BY DEF TypeOK
  <2>2. due' \in [Timers -> Nat] /\ \A u \in Timers : u # t => due'[u] = due[u]
    BY <1>2, <2>1
  <2>3. CASE t \in StaticTimers
    BY <1>2, <2>1, <2>2, <2>3
  <2>4. CASE t \notin StaticTimers
    BY <1>2, <2>1, <2>2, <2>4
  <2> QED
    BY <2>3, <2>4
<1>5. MemoryInv'
  <2>1. CASE t \in StaticTimers
    BY <1>2, <2>1 DEF MemoryInv, sendVars
  <2>2. CASE t \notin StaticTimers
    <3>1. memory[t] = "deleting" /\ \A j \in DOMAIN queue : queue[j].Timer # t
      BY <1>1, <1>2, <1>3, <2>2 DEF MemoryInv
    <3>2. queue' = queue /\ call' = call
      BY <1>2 DEF sendVars
    <3>3. \A u \in StaticTimers : u # t /\ u \in Timers
      BY <2>2, TimersAssumption
    <3>4. \A i \in DOMAIN queue : queue[i].ID # "call" =>
                                    queue[i].Timer # t /\ queue[i].Timer \in Timers
      BY <3>1, Queued, Fields
    <3>5. \A c \in Tasks : call[c] # None => call[c].Timer # t /\ call[c].Timer \in Timers
      BY <3>1, Queued, Fields DEF MemoryInv
    <3>6. \A u \in StaticTimers : memory'[u] = "live"
      BY <1>4, <3>3 DEF MemoryInv
    <3>7. \A c \in Tasks : call'[c] # None => memory'[call'[c].Timer] = "live"
      BY <1>4, <3>2, <3>5 DEF MemoryInv
    <3>8. \A i \in DOMAIN queue' : queue'[i].ID # "call" =>
            /\ memory'[queue'[i].Timer] # "freed"
            /\ queue'[i].ID = "delete" /\ queue'[i].Timer \notin StaticTimers =>
                 /\ memory'[queue'[i].Timer] = "deleting"
                 /\ \A j \in DOMAIN queue' : i < j => queue'[j].Timer # queue'[i].Timer
      BY <1>4, <3>2, <3>4 DEF MemoryInv
    <3> QED
      BY <1>2, <3>6, <3>7, <3>8 DEF MemoryInv
  <2> QED
    BY <2>1, <2>2
<1>6. ~early' /\ early' \in BOOLEAN /\ Value' \in [Timers -> Ticks]
  BY <1>2 DEF DueInv, TypeOK
<1> QED
  BY <1>1, <1>2, <1>4, <1>5, <1>6, Dormant

\* A command that puts its timer in a list.
LEMMA Started ==
  ASSUME Inv, pc = "command", NEW t \in Timers, t = msg.Timer, msg' = None, pc' = "recv",
         NEW next \in Ticks, Insert(t, next, xLastTime),
         NEW e \in Nat, next = e % TickMod, due' = [due EXCEPT ![t] = e],
         Base(e) <= (IF next <= xLastTime THEN CurrentBase + TickMod ELSE CurrentBase),
         ~overslept =>
           Base(e) = (IF next <= xLastTime THEN CurrentBase + TickMod ELSE CurrentBase),
         Active' = [Active EXCEPT ![t] = TRUE], Period' \in [Timers -> Periods],
         UNCHANGED <<time, Autoreload, memory, sendVars, sampleVars, reloadVars, wake>>,
         early' = early, overslept' = overslept
  PROVE  Inv'
<1> USE DEF Inv
<1>1. /\ time' = time /\ Autoreload' = Autoreload /\ memory' = memory
      /\ queue' = queue /\ calls' = calls /\ call' = call
      /\ xLastTime' = xLastTime /\ sampled' = sampled /\ wake' = wake
      /\ Timer' = Timer /\ Expired' = Expired /\ UpTo' = UpTo /\ back' = back
  BY DEF sendVars, sampleVars, reloadVars
<1>2. /\ t \notin Linked /\ memory[t] # "freed" /\ ~InSwitch /\ CurrentBase \in Int
      /\ TickMod \in Nat /\ xLastTime \in Ticks
  BY Commanded
<1>3. ~InSwitch'
  BY DEF InSwitch
<1>4. CurrentBase' = CurrentBase
  BY <1>1, <1>2, <1>3 DEF CurrentBase
<1>5. \A u \in Timers : u # t => (Apart(u)' <=> Apart(u))
  BY DEF Apart
<1>6. /\ LinkInv' /\ DueInv' /\ EpochInv'
      /\ Current' \in Seq(Timers) /\ Overflow' \in Seq(Timers) /\ Value' \in [Timers -> Ticks]
      /\ due' \in [Timers -> Nat] /\ Active' \in [Timers -> BOOLEAN]
  BY <1>1, <1>2, <1>4, <1>5, Placed
<1>7. TypeOK'
  BY <1>1, <1>6 DEF TypeOK
<1>8. MessageInv' /\ MemoryInv'
  BY <1>1 DEF MessageInv, MemoryInv
<1>9. DaemonInv'
  BY <1>1, <1>3 DEF DaemonInv
<1>10. NothingOverdue'
  BY DEF NothingOverdue
<1> QED
  BY <1>6, <1>7, <1>8, <1>9, <1>10

\* The period of a timer is changed: its expiry has not passed.
LEMMA ChangeStep == ASSUME Inv, ChangePeriodCommand PROVE Inv'
<1>1. PICK t \in Timers : t = msg.Timer
  BY Commanded DEF ChangePeriodCommand
<1>2. pc = "command" /\ msg.ID = "change"
  BY DEF ChangePeriodCommand
<1>3. PICK v \in Periods : v = msg.Value
  BY <1>2, Commanded DEF Sound
<1>4. /\ sampled \in Nat /\ xLastTime = sampled % TickMod /\ CurrentBase = Base(sampled)
      /\ xLastTime \in Ticks
  BY <1>2, Commanded
<1>5. PICK x \in Ticks : x = xLastTime
  BY <1>4
<1>6. v \in 1 .. MaxTick /\ v \in Nat /\ TickMod \in Nat \ {0} /\ MaxTick = TickMod - 1
      /\ x \in Nat /\ x < TickMod
  <2>1. v \in 1 .. MaxTick
    BY TimersAssumption
  <2>2. TickMod \in Nat \ {0} /\ MaxTick = TickMod - 1
    BY <1>4, ModFacts
  <2> QED
    BY <2>1, <2>2 DEF Ticks
<1>7. PICK next : next = Plus(x, v)
  OBVIOUS
<1>8. /\ next = IF x + v < TickMod THEN x + v ELSE x + v - TickMod
      /\ next = (sampled + v) % TickMod
      /\ Base(sampled + v) = IF x + v < TickMod THEN Base(sampled) ELSE Base(sampled) + TickMod
  <2>1. PICK n \in Nat : n = sampled
    BY <1>4
  <2>2. x = n % TickMod
    BY <1>4, <1>5, <2>1
  <2>3. LET s == (n % TickMod) + v
        IN  /\ Plus(n % TickMod, v) = IF s < TickMod THEN s ELSE s - TickMod
            /\ (n + v) % TickMod = Plus(n % TickMod, v)
            /\ Base(n + v) = IF s < TickMod THEN Base(n) ELSE Base(n) + TickMod
    BY <1>6, Advance
  <2>4. (n + v) % TickMod = Plus(x, v)
    BY <2>2, <2>3
  <2>5. CASE x + v < TickMod
    BY <1>6, <1>7, <2>1, <2>2, <2>3, <2>4, <2>5
  <2>6. CASE ~(x + v < TickMod)
    BY <1>6, <1>7, <2>1, <2>2, <2>3, <2>4, <2>6
  <2> QED
    BY <2>5, <2>6
<1>9. next \in Ticks /\ sampled + v \in Nat
  BY <1>4, <1>6, <1>8 DEF Ticks
<1>10. Base(sampled + v) = IF next <= x THEN CurrentBase + TickMod ELSE CurrentBase
  BY <1>4, <1>6, <1>8
<1>11. ~HasPassed(next, x, x, v)
  <2>1. (x - x) % TickMod = 0
    BY <1>6
  <2> QED
    BY <1>6, <2>1 DEF HasPassed
<1>12. Insert(t, next, xLastTime)
  BY <1>1, <1>3, <1>5, <1>7, <1>11 DEF ChangePeriodCommand
<1>13. /\ pc' = "recv" /\ msg' = None /\ due' = [due EXCEPT ![t] = sampled + v]
       /\ Active' = [Active EXCEPT ![t] = TRUE] /\ Period' = [Period EXCEPT ![t] = v]
       /\ UNCHANGED <<time, Autoreload, memory, sendVars, sampleVars, reloadVars, wake>>
       /\ early' = early /\ overslept' = overslept
  BY <1>1, <1>3 DEF ChangePeriodCommand
<1>14. PICK e \in Nat : e = sampled + v
  BY <1>9
<1>15. Period' \in [Timers -> Periods]
  BY <1>13 DEF Inv, TypeOK
<1>16. /\ due' = [due EXCEPT ![t] = e] /\ next = e % TickMod
       /\ Base(e) = IF next <= xLastTime THEN CurrentBase + TickMod ELSE CurrentBase
  BY <1>5, <1>8, <1>10, <1>13, <1>14
<1>17. Base(e) <= IF next <= xLastTime THEN CurrentBase + TickMod ELSE CurrentBase
  <2>1. Base(e) \in Nat
    BY ModFacts
  <2> QED
    BY <1>16, <2>1
<1> QED
  BY <1>1, <1>2, <1>9, <1>12, <1>13, <1>15, <1>16, <1>17, Started

\* A timer is started, at the time at which its command was sent.
LEMMA StartStep == ASSUME Inv, StartCommand PROVE Inv'
<1>1. PICK t \in Timers : t = msg.Timer
  BY Commanded DEF StartCommand
<1>2. pc = "command" /\ msg.ID = "start" /\ msg # None /\ memory[t] # "freed" /\ t \notin Linked
  BY <1>1, Commanded DEF StartCommand
<1>3. PICK d \in Nat : d = msg.at
  BY <1>2, Commanded
<1>4. PICK p \in 1 .. MaxTick : p = Period[t]
  BY PeriodIs DEF Inv
<1>5. PICK u \in Nat : u = sampled
  BY DEF Inv, TypeOK
<1>6. /\ msg.Value = d % TickMod /\ xLastTime = u % TickMod /\ d <= u /\ u <= time
      /\ CurrentBase = Base(u) /\ time \in Nat /\ TickMod \in Nat /\ p \in Nat
      /\ ~overslept => u - d < TickMod
  <2>1. msg.Value = d % TickMod
    BY <1>2, <1>3, Commanded DEF Sound
  <2>2. d <= u /\ (~overslept => u - d < TickMod)
    BY <1>2, <1>3, <1>5 DEF Inv, MessageInv
  <2>3. p \in Nat
    BY <1>4
  <2> QED
    BY <1>2, <1>5, <2>1, <2>2, <2>3, Commanded
<1>7. PICK next : next = Plus(msg.Value, p)
  OBVIOUS
<1>8. PICK e \in Nat : e = d + p
  BY <1>6
<1>9. /\ next = e % TickMod
      /\ HasPassed(next, xLastTime, msg.Value, p) => e <= u
      /\ ~HasPassed(next, xLastTime, msg.Value, p) =>
           /\ Base(e) <= IF next <= xLastTime THEN CurrentBase + TickMod ELSE CurrentBase
           /\ ~overslept =>
                Base(e) = IF next <= xLastTime THEN CurrentBase + TickMod ELSE CurrentBase
  <2>1. next = Plus(d % TickMod, p)
    BY <1>6, <1>7
  <2>2. /\ next = (d + p) % TickMod
        /\ HasPassed(next, u % TickMod, d % TickMod, p) => d + p <= u
        /\ ~HasPassed(next, u % TickMod, d % TickMod, p) =>
             /\ Base(d + p) <= IF next <= u % TickMod THEN Base(u) + TickMod ELSE Base(u)
             /\ u - d < TickMod =>
                  Base(d + p) = IF next <= u % TickMod THEN Base(u) + TickMod ELSE Base(u)
    BY <1>6, <2>1, Passed
  <2> QED
    BY <1>6, <1>8, <2>2
<1>10. next \in Ticks /\ xLastTime \in Ticks
  BY <1>6, <1>9, ModFacts
<1>11. /\ msg' = None
       /\ UNCHANGED <<time, Period, Autoreload, memory, sendVars, sampleVars, wake>>
       /\ overslept' = overslept
  BY DEF StartCommand
<1>12. ~early /\ early \in BOOLEAN /\ Period \in [Timers -> Periods]
  BY DEF Inv, DueInv, TypeOK
<1>13. CASE ~HasPassed(next, xLastTime, msg.Value, p)
  <2>1. /\ Insert(t, next, xLastTime) /\ pc' = "recv" /\ Active' = [Active EXCEPT ![t] = TRUE]
        /\ due' = [due EXCEPT ![t] = e] /\ UNCHANGED reloadVars /\ early' = early
    BY <1>1, <1>3, <1>4, <1>7, <1>8, <1>13 DEF StartCommand
  <2> QED
    BY <1>1, <1>2, <1>9, <1>10, <1>11, <1>12, <1>13, <2>1, Started
<1>14. CASE HasPassed(next, xLastTime, msg.Value, p) /\ ~Autoreload[t]
  <2>1. /\ Value' = [Value EXCEPT ![t] = next] /\ UNCHANGED listVars
        /\ pc' = "recv" /\ Active' = [Active EXCEPT ![t] = FALSE]
        /\ due' = [due EXCEPT ![t] = 0] /\ early' = (early \/ e > time) /\ UNCHANGED reloadVars
    BY <1>1, <1>3, <1>4, <1>7, <1>8, <1>14 DEF StartCommand
  <2>2. ~early' /\ early' \in BOOLEAN
    <3>1. ~(e > time)
      BY <1>6, <1>9, <1>14
    <3> QED
      BY <1>12, <2>1, <3>1
  <2>3. /\ Value' \in [Timers -> Ticks] /\ due' \in [Timers -> Nat]
        /\ Active' \in [Timers -> BOOLEAN] /\ ~Active'[t]
        /\ memory' \in [Timers -> {"live", "deleting", "freed"}] /\ memory' = memory
        /\ \A v \in Timers : v # t =>
             Value'[v] = Value[v] /\ due'[v] = due[v] /\ Active'[v] = Active[v]
    BY <1>10, <1>11, <2>1 DEF Inv, TypeOK
  <2>4. MemoryInv'
    BY <1>11 DEF Inv, MemoryInv, sendVars
  <2>5. /\ pc = "command" /\ t = msg.Timer /\ msg' = None /\ pc' = "recv"
        /\ UNCHANGED <<time, Period, Autoreload, listVars, sendVars, sampleVars, reloadVars, wake>>
        /\ overslept' = overslept
    BY <1>1, <1>2, <1>11, <2>1
  <2>6. \A v \in Timers : v # t => /\ Value'[v] = Value[v] /\ due'[v] = due[v]
                                  /\ Active'[v] = Active[v] /\ memory'[v] = memory[v]
    BY <2>3
  <2>7. ~Active'[t] \/ memory'[t] = "freed"
    BY <2>3
  <2>8. /\ Value' \in [Timers -> Ticks] /\ due' \in [Timers -> Nat]
        /\ Active' \in [Timers -> BOOLEAN]
        /\ memory' \in [Timers -> {"live", "deleting", "freed"}]
    BY <2>3
  <2> QED
    BY <2>2, <2>4, <2>5, <2>6, <2>7, <2>8, Dormant
<1>15. CASE HasPassed(next, xLastTime, msg.Value, p) /\ Autoreload[t]
  <2> USE DEF Inv
  <2>1. /\ Value' = [Value EXCEPT ![t] = next] /\ Current' = Current /\ Overflow' = Overflow
        /\ pc' = "reload" /\ Timer' = t /\ Expired' = next /\ UpTo' = xLastTime /\ back' = "recv"
        /\ Active' = [Active EXCEPT ![t] = TRUE] /\ due' = [due EXCEPT ![t] = e] /\ early' = early
    BY <1>1, <1>3, <1>4, <1>7, <1>8, <1>15 DEF StartCommand, listVars
  <2>2. /\ time' = time /\ Period' = Period /\ Autoreload' = Autoreload /\ memory' = memory
        /\ queue' = queue /\ calls' = calls /\ call' = call /\ wake' = wake
        /\ xLastTime' = xLastTime /\ sampled' = sampled
    BY <1>11 DEF sendVars, sampleVars
  <2>3. /\ Value' \in [Timers -> Ticks] /\ due' \in [Timers -> Nat]
        /\ Active' \in [Timers -> BOOLEAN] /\ Active'[t] /\ due'[t] = e
        /\ \A v \in Timers : v # t =>
             Value'[v] = Value[v] /\ due'[v] = due[v] /\ Active'[v] = Active[v]
    BY <1>10, <2>1 DEF TypeOK
  <2>4. ~InSwitch /\ ~InSwitch'
    BY <1>2, <2>1 DEF InSwitch
  <2>5. CurrentBase' = CurrentBase /\ Limit' = u
    BY <1>5, <2>1, <2>2, <2>4 DEF CurrentBase, Limit
  <2>6. In(Current)' = In(Current) /\ In(Overflow)' = In(Overflow) /\ Linked' = Linked
    BY <2>1 DEF Linked
  <2>7. \A v \in Linked : v \in Timers /\ v # t
    BY <1>2, LinkedAre
  <2>8. In(Current) \subseteq Linked /\ In(Overflow) \subseteq Linked
    BY LinkedAre
  <2>9. TypeOK'
    BY <1>10, <1>11, <2>1, <2>2, <2>3 DEF TypeOK
  <2>10. MessageInv' /\ MemoryInv'
    BY <1>11, <2>2 DEF MessageInv, MemoryInv
  <2>11. DaemonInv'
    BY <1>11, <2>1, <2>2, <2>4 DEF DaemonInv
  <2>12. LinkInv'
    <3>1. Sorted(Current)' /\ Sorted(Overflow)'
      <4>1. \A i \in DOMAIN Current : Current[i] \in In(Current)
        BY DEF In
      <4>2. \A i \in DOMAIN Overflow : Overflow[i] \in In(Overflow)
        BY DEF In
      <4>3. \A i \in DOMAIN Current : Value'[Current[i]] = Value[Current[i]]
        BY <2>3, <2>7, <2>8, <4>1
      <4>4. \A i \in DOMAIN Overflow : Value'[Overflow[i]] = Value[Overflow[i]]
        BY <2>3, <2>7, <2>8, <4>2
      <4> QED
        BY <2>1, <4>3, <4>4 DEF LinkInv, Sorted
    <3>2. \A v \in Timers : v # t => ~Apart(v)
      BY <1>1, <1>2 DEF Apart
    <3>3. Apart(t)'
      BY <2>1 DEF Apart
    <3>4. \A v \in Timers : ~Apart(v)' /\ memory[v] # "freed" => (Active'[v] <=> v \in Linked)
      BY <2>3, <3>2, <3>3 DEF LinkInv
    <3> QED
      BY <1>2, <1>11, <2>1, <2>2, <2>3, <2>6, <3>1, <3>4 DEF LinkInv
  <2>13. DueInv'
    <3>1. \A v \in Linked : Value'[v] = due'[v] % TickMod
      BY <2>3, <2>7 DEF DueInv
    <3>2. \A v \in In(Current) : Base(due'[v]) <= CurrentBase
      BY <2>3, <2>7, <2>8 DEF DueInv
    <3>3. \A v \in In(Overflow) : Base(due'[v]) <= CurrentBase + TickMod
      BY <2>3, <2>7, <2>8 DEF DueInv
    <3>4. /\ Expired' = due'[Timer'] % TickMod /\ UpTo' = Limit' % TickMod
          /\ due'[Timer'] <= Limit'
      BY <1>6, <1>9, <1>15, <2>1, <2>3, <2>5
    <3> QED
      BY <1>12, <2>1, <2>5, <2>6, <3>1, <3>2, <3>3, <3>4 DEF DueInv
  <2>14. EpochInv'
    <3> SUFFICES ASSUME ~overslept
                 PROVE  /\ \A v \in In(Current) : Base(due'[v]) = CurrentBase
                        /\ \A v \in In(Overflow) : Base(due'[v]) = CurrentBase + TickMod
                        /\ u - e < TickMod
      BY <1>11, <2>1, <2>3, <2>5, <2>6 DEF EpochInv
    <3>1. \A v \in In(Current) : Base(due'[v]) = CurrentBase
      BY <2>3, <2>7, <2>8 DEF EpochInv
    <3>2. \A v \in In(Overflow) : Base(due'[v]) = CurrentBase + TickMod
      BY <2>3, <2>7, <2>8 DEF EpochInv
    <3>3. u - e < TickMod
      BY <1>6, <1>8
    <3> QED
      BY <3>1, <3>2, <3>3
  <2>15. NothingOverdue'
    BY <2>1 DEF NothingOverdue
  <2> QED
    BY <2>9, <2>10, <2>11, <2>12, <2>13, <2>14, <2>15
<1> QED
  BY <1>13, <1>14, <1>15

-----------------------------------------------------------------------------
(* The invariant holds. *)

\* One iteration of the daemon's loop.
LEMMA ProcessStep == ASSUME Inv, ProcessTimerOrBlockTask PROVE Inv'
<1>1. /\ pc = "loop" /\ Sample /\ overslept' = (overslept \/ time - sampled >= TickMod)
      /\ UNCHANGED <<time, sendVars, msg>>
  BY DEF ProcessTimerOrBlockTask
<1>2. \/ WrapBranch /\ UNCHANGED <<timerVars, listVars, reloadVars, due, early>>
      \/ /\ ~Wrapped /\ Current # <<>> /\ IsDue(Value[Head(Current)])
         /\ ProcessExpired(Value[Head(Current)], TickCount, "recv")
         /\ UNCHANGED <<Value, Period, Autoreload, memory, Overflow, wake>>
      \/ WaitBranch /\ UNCHANGED <<timerVars, listVars, reloadVars, due, early>>
  BY DEF ProcessTimerOrBlockTask, WrapBranch, WaitBranch
<1>3. CASE /\ WrapBranch \/ WaitBranch
           /\ UNCHANGED <<timerVars, listVars, reloadVars, due, early>>
  BY <1>1, <1>3, LoopStep
<1>4. CASE /\ ~Wrapped /\ Current # <<>> /\ IsDue(Value[Head(Current)])
           /\ ProcessExpired(Value[Head(Current)], TickCount, "recv")
           /\ UNCHANGED <<Value, Period, Autoreload, memory, Overflow, wake>>
  BY <1>1, <1>4, ExpireStep
<1> QED
  BY <1>2, <1>3, <1>4

\* No timer runs at first.
LEMMA InvInit == Init => Inv
<1> SUFFICES ASSUME Init PROVE Inv
  OBVIOUS
<1>1. TickMod \in Nat \ {0} /\ MaxTick = TickMod - 1 /\ 0 \in Ticks /\ Base(0) \in Nat
      /\ 0 % TickMod = 0
  <2>1. TickMod \in Nat \ {0} /\ MaxTick = TickMod - 1 /\ Base(0) \in Nat
    BY ModFacts
  <2> QED
    BY <2>1 DEF Ticks
<1>2. /\ Created \in [Timers -> [Period : Periods, Autoreload : BOOLEAN]]
      /\ QueueLength \in Nat /\ InitialTime \in Nat /\ MaxCalls \in Nat
  <2>1. InitialTime \in 0 .. MaxTick
    BY TimersAssumption
  <2> QED
    BY <2>1, TimersAssumption
<1>3. \A t \in Timers : Created[t].Period \in Periods /\ Created[t].Autoreload \in BOOLEAN
  BY <1>2
<1>4. /\ In(Current) = {} /\ In(Overflow) = {} /\ Linked = {}
      /\ DOMAIN Current = {} /\ DOMAIN Overflow = {} /\ DOMAIN queue = {}
      /\ Current = <<>> /\ Overflow = <<>> /\ queue = <<>>
  <2>1. Current = <<>> /\ Overflow = <<>> /\ queue = <<>>
    BY DEF Init
  <2>2. DOMAIN <<>> = {}
    OBVIOUS
  <2>3. In(<<>>) = {}
    BY <2>2 DEF In
  <2> QED
    BY <2>1, <2>2, <2>3 DEF Linked
<1>5. TypeOK
  <2>1. /\ Value \in [Timers -> Ticks] /\ Active \in [Timers -> BOOLEAN]
        /\ Period \in [Timers -> Periods] /\ Autoreload \in [Timers -> BOOLEAN]
        /\ memory \in [Timers -> {"live", "deleting", "freed"}]
        /\ due \in [Timers -> Nat] /\ call \in [Tasks -> MessageType \cup {None}]
    BY <1>1, <1>3 DEF Init
  <2>2. /\ Current \in Seq(Timers) /\ Overflow \in Seq(Timers)
        /\ queue \in Seq(MessageType \cup {CallMessage}) /\ Len(queue) <= QueueLength
    BY <1>2, <1>4
  <2>3. /\ time \in Nat /\ calls \in 0 .. MaxCalls /\ xLastTime \in Ticks /\ sampled \in Nat
        /\ Expired \in Ticks /\ UpTo \in Ticks
    BY <1>1, <1>2 DEF Init
  <2> QED
    BY <2>1, <2>2, <2>3 DEF Init, TypeOK
<1>6. MessageInv /\ MemoryInv
  <2>1. msg = None /\ \A c \in Tasks : call[c] = None
    BY DEF Init
  <2>2. \A t \in StaticTimers : memory[t] = "live"
    BY TimersAssumption DEF Init
  <2> QED
    BY <1>4, <2>1, <2>2 DEF MessageInv, MemoryInv
<1>7. DaemonInv
  BY <1>1, <1>2 DEF Init, DaemonInv, InSwitch
<1>8. LinkInv
  <2>1. Sorted(Current) /\ Sorted(Overflow)
    BY <1>4 DEF Sorted
  <2> QED
    BY <1>4, <2>1 DEF Init, LinkInv
<1>9. DueInv /\ EpochInv /\ NothingOverdue
  BY <1>4 DEF Init, DueInv, EpochInv, NothingOverdue
<1> QED
  BY <1>5, <1>6, <1>7, <1>8, <1>9 DEF Inv

\* A step that changes nothing.
LEMMA StutterStep == ASSUME Inv, UNCHANGED vars PROVE Inv'
<1>1. /\ time' = time /\ memory' = memory /\ Autoreload' = Autoreload /\ UNCHANGED daemonVars
      /\ pc' = pc /\ wake' = wake /\ queue' = queue /\ calls' = calls /\ call' = call
  BY DEF vars, timerVars, listVars, sendVars, sampleVars, reloadVars, historyVars, daemonVars
<1>2. TypeOK'
  BY <1>1 DEF Inv, TypeOK, daemonVars, listVars, sampleVars, reloadVars, historyVars
<1>3. Outside
  BY <1>1 DEF Outside, Inv, TypeOK
<1>4. msg' = msg /\ sampled' = sampled /\ overslept' = overslept
  BY <1>1 DEF daemonVars, sampleVars, historyVars
<1>5. MessageInv' /\ MemoryInv'
  BY <1>1, <1>4 DEF Inv, MessageInv, MemoryInv
<1> QED
  BY <1>2, <1>3, <1>5, OutsideKeeps DEF Inv

\* Every step keeps the invariant.
LEMMA InvStep == Inv /\ [Next]_vars => Inv'
<1> SUFFICES ASSUME Inv, [Next]_vars PROVE Inv'
  OBVIOUS
<1>1. CASE Tick
  BY <1>1, TickStep
<1>2. CASE ProcessTimerOrBlockTask
  BY <1>2, ProcessStep
<1>3. CASE TimesOut \/ NoCommand \/ CallFunction
  BY <1>3, IdleStep
<1>4. CASE SwitchTimerLists
  BY <1>4, SwitchStep
<1>5. CASE Reload
  BY <1>5, ReloadStep
<1>6. CASE Receive
  BY <1>6, ReceiveStep
<1>7. CASE StartCommand
  BY <1>7, StartStep
<1>8. CASE StopCommand
  BY <1>8, StopStep
<1>9. CASE ChangePeriodCommand
  BY <1>9, ChangeStep
<1>10. CASE DeleteCommand
  BY <1>10, DeleteCommandStep
<1>11. ASSUME NEW c \in Tasks, TimerStart(c) \/ SendStart(c) \/ Refused(c) PROVE Inv'
  BY <1>11, CallStep, SendStartStep
<1>12. CASE PendFunctionCall
  BY <1>12, PendStep
<1>13. ASSUME NEW t \in Timers,
              GenericCommand(t) \/ StartFromISR(t) \/ TimerDelete(t) \/ SetReloadMode(t)
       PROVE  Inv'
  BY <1>13, CommandStep, DeleteStep, ReloadModeStep
<1>14. CASE UNCHANGED vars
  BY <1>14, StutterStep
<1> QED
  BY <1>1, <1>2, <1>3, <1>4, <1>5, <1>6, <1>7, <1>8, <1>9, <1>10, <1>11, <1>12, <1>13, <1>14
     DEF Next, TimerTask, Command

LEMMA Invariance == Spec => []Inv
<1> QED
  BY InvInit, InvStep, PTL DEF Spec

-----------------------------------------------------------------------------
(* The properties. *)

\* Every tick count, expiry and period stays in the range of TickType_t, the queue no longer than
\* it was created, and what is in the lists and in the messages about timers is a timer, however
\* often the tick count wraps (timers.cpp 45-93, 240-256, 307-382).
THEOREM TypeCorrect == Spec => []TypeOK
<1>1. Inv => TypeOK
  BY DEF Inv
<1> QED
  BY <1>1, Invariance, PTL

\* No expiry is ever reported before its time, however late the daemon and the commands are
\* and however often the tick count wraps (timers.cpp 240-256, 307-326).
THEOREM NoExpiryIsEarly == Spec => []NeverEarly
<1>1. Inv => NeverEarly
  BY DEF Inv, DueInv, NeverEarly
<1> QED
  BY <1>1, Invariance, PTL

\* The number of an epoch, from the tick at which it starts.
LEMMA EpochIs ==
  ASSUME NEW n \in Nat, NEW m \in Nat
  PROVE  /\ Epoch(n) \in Nat /\ Epoch(m) \in Nat
         /\ Base(n) = Base(m) => Epoch(n) = Epoch(m)
         /\ Base(n) = Base(m) + TickMod => Epoch(n) = Epoch(m) + 1
<1> DEFINE q == n \div TickMod
           r == m \div TickMod
<1>1. q \in Nat /\ r \in Nat /\ Base(n) = TickMod * q /\ Base(m) = TickMod * r
  BY Mult
<1>2. TickMod \in Nat \ {0}
  BY ModFacts
<1>3. Epoch(n) = q /\ Epoch(m) = r
  BY DEF Epoch
<1> HIDE DEF q, r
<1>4. TickMod * (r + 1) = TickMod * r + TickMod /\ r + 1 \in Nat
      /\ TickMod * q \in Nat /\ TickMod * r \in Nat
  BY <1>1, <1>2
<1>5. \A x \in Nat, y \in Nat : TickMod * x = TickMod * y => x = y
  <2> SUFFICES ASSUME NEW x \in Nat, NEW y \in Nat, TickMod * x = TickMod * y PROVE x = y
    OBVIOUS
  <2>1. TickMod * x \in Nat /\ TickMod * y \in Nat /\ TickMod \in Nat
    BY <1>2
  <2>2. x < y => TickMod * x + TickMod <= TickMod * y
    BY <2>1, MulMono
  <2>3. y < x => TickMod * y + TickMod <= TickMod * x
    BY <2>1, MulMono
  <2> QED
    BY <1>2, <2>1, <2>2, <2>3
<1>6. Base(n) = Base(m) => q = r
  BY <1>1, <1>5
<1>7. Base(n) = Base(m) + TickMod => q = r + 1
  BY <1>1, <1>4, <1>5
<1> QED
  BY <1>1, <1>3, <1>6, <1>7

\* A running timer is in one list, once and in order; unless the daemon or a command was late by a
\* wrap, the current list has the expiries up to the next wrap and the other list those behind it
\* (timers.cpp 296-326, 340-394).
THEOREM ListsAreRight == Spec => []ListsMatchEpochs
<1>1. ASSUME Inv PROVE ListsMatchEpochs
  <2> USE <1>1 DEF Inv
  <2> DEFINE epoch == IF pc = "switch" \/ (pc = "reload" /\ back = "switch")
                      THEN Epoch(sampled) - 1 ELSE Epoch(sampled)
  <2>1. ActiveAreLinked
    <3>1. pc \in {"loop", "blocked", "recv"} => \A t \in Timers : ~Apart(t)
      BY DEF DaemonInv, InSwitch, Apart
    <3> QED
      BY <3>1 DEF LinkInv, ActiveAreLinked
  <2>2. sampled \in Nat /\ TickMod \in Nat /\ Base(sampled) \in Nat /\ Epoch(sampled) \in Nat
    <3>1. sampled \in Nat
      BY DEF TypeOK
    <3> QED
      BY <3>1, ModFacts, EpochIs
  <2>3. epoch = (IF InSwitch THEN Epoch(sampled) - 1 ELSE Epoch(sampled)) /\ epoch \in Int
    BY <2>2 DEF InSwitch
  <2> HIDE DEF epoch
  <2>4. ASSUME ~overslept, NEW t \in In(Current) PROVE Epoch(due[t]) = epoch
    <3>1. due[t] \in Nat /\ Base(due[t]) \in Nat /\ Base(due[t]) = CurrentBase
      BY <2>4, LinkedAre DEF EpochInv
    <3>2. CASE InSwitch
      <4>1. Base(sampled) = Base(due[t]) + TickMod
        BY <2>2, <3>1, <3>2 DEF CurrentBase
      <4>2. Epoch(sampled) = Epoch(due[t]) + 1 /\ Epoch(due[t]) \in Nat
        BY <2>2, <3>1, <4>1, EpochIs
      <4> QED
        BY <2>2, <2>3, <3>2, <4>2
    <3>3. CASE ~InSwitch
      <4>1. Base(sampled) = Base(due[t])
        BY <3>1, <3>3 DEF CurrentBase
      <4>2. Epoch(sampled) = Epoch(due[t])
        BY <2>2, <3>1, <4>1, EpochIs
      <4> QED
        BY <2>3, <3>3, <4>2
    <3> QED
      BY <3>2, <3>3
  <2>5. ASSUME ~overslept, NEW t \in In(Overflow) PROVE Epoch(due[t]) = epoch + 1
    <3>1. due[t] \in Nat /\ Base(due[t]) \in Nat /\ Base(due[t]) = CurrentBase + TickMod
      BY <2>5, LinkedAre DEF EpochInv
    <3>2. CASE InSwitch
      <4>1. Base(sampled) = Base(due[t])
        BY <2>2, <3>1, <3>2 DEF CurrentBase
      <4>2. Epoch(sampled) = Epoch(due[t])
        BY <2>2, <3>1, <4>1, EpochIs
      <4> QED
        BY <2>2, <2>3, <3>2, <4>2
    <3>3. CASE ~InSwitch
      <4>1. Base(due[t]) = Base(sampled) + TickMod
        BY <3>1, <3>3 DEF CurrentBase
      <4>2. Epoch(due[t]) = Epoch(sampled) + 1
        BY <2>2, <3>1, <4>1, EpochIs
      <4> QED
        BY <2>3, <3>3, <4>2
    <3> QED
      BY <3>2, <3>3
  <2> QED
    BY <2>1, <2>4, <2>5 DEF ListsMatchEpochs, epoch
<1> QED
  BY <1>1, Invariance, PTL

\* The daemon waits only when no expiry is due, and its wait, if it has a time-out, ends no later
\* than the first one, unless it or a command was late by a wrap (timers.cpp 269-294).
THEOREM WaitsForTheFirst == Spec => []NothingOverdue
<1>1. Inv => NothingOverdue
  BY DEF Inv
<1> QED
  BY <1>1, Invariance, PTL
=============================================================================
