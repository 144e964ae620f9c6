-------------------------------- MODULE Heap4 --------------------------------
(***************************************************************************)
(* The allocator of portable/MemMang/heap_4.c: a list of the free blocks in *)
(* address order, first fit, neighbours merged when a block is freed.       *)
(* Tasks call it concurrently; it protects itself by suspending the         *)
(* scheduler. The bodies of its loops are steps, so that what a walk over   *)
(* the list has seen so far can be said.                                    *)
(***************************************************************************)
EXTENDS Integers, FiniteSets

CONSTANTS
  Tasks,             \* the tasks that use the heap
  None,              \* no task
  Alignment,         \* portBYTE_ALIGNMENT
  BlockLinkSize,     \* sizeof( BlockLink_t )
  HeapAddress,       \* the address of ucHeap
  TotalHeapSize,     \* configTOTAL_HEAP_SIZE
  SizeMax,           \* heapSIZE_MAX
  Requests           \* the sizes and numbers the application asks for

Max2(a, b) == IF a > b THEN a ELSE b
Min2(a, b) == IF a < b THEN a ELSE b

RoundUp(n)   == IF (n % Alignment) # 0 THEN n + (Alignment - (n % Alignment)) ELSE n
RoundDown(n) == n - (n % Alignment)

\* A header with its padding, and the smallest rest worth a block of its own.
xHeapStructSize  == RoundUp(BlockLinkSize)
MinimumBlockSize == 2 * xHeapStructSize

HeapStart  == RoundUp(HeapAddress)
EndAddress == RoundDown(HeapAddress + TotalHeapSize - xHeapStructSize)
Addresses  == HeapStart .. EndAddress

\* The most significant bit of xBlockSize says that the block is allocated.
AllocatedBit == (SizeMax + 1) \div 2

\* A null pointer, and the address of xStart, which is outside the heap.
Null  == 0
Start == -1

ASSUME Heap4Assumption ==
  /\ None \notin Tasks
  /\ Alignment \in Nat \ {0}
  /\ BlockLinkSize \in Nat \ {0}
  /\ HeapAddress \in Nat \ {0}
  /\ TotalHeapSize \in Nat
  /\ SizeMax \in Nat
  /\ Requests \subseteq 0 .. SizeMax
  /\ HeapStart + xHeapStructSize <= EndAddress
  /\ TotalHeapSize < AllocatedBit

VARIABLES
  xStart,               \* xStart.NextFreeBlock
  End,                  \* the end marker, Null before HeapInit
  NextFreeBlock,        \* the headers in memory: a field by address
  xBlockSize,           \* without its allocated bit
  Allocated,            \* the allocated bit of xBlockSize
  xFreeBytesRemaining,
  xMinimumEverFreeBytesRemaining,
  section,              \* the task that has the scheduler suspended, or None
  pc,                   \* where each task is
  asked,                \* the bytes its caller wants (history)
  xWantedSize,          \* the local of pvPortMalloc
  Link,                 \* the local of vPortFree
  Previous, Block,      \* PreviousBlock and Block, or Iterator, of the section
  found,                \* what vPortGetHeapStats has counted so far
  blocks,               \* the addresses whose header is a block's (history)
  held                  \* what the application holds: bytes asked for, by pointer

heapVars == <<xStart, End, NextFreeBlock, xBlockSize, Allocated>>
countVars == <<xFreeBytesRemaining, xMinimumEverFreeBytesRemaining>>
taskVars == <<asked, xWantedSize, Link>>
walkVars == <<Previous, Block, found>>
historyVars == <<blocks, held>>
vars == <<heapVars, countVars, section, pc, taskVars, walkVars, historyVars>>

-----------------------------------------------------------------------------

NothingFound == [xBlocks |-> 0, xMaxSize |-> 0, xMinSize |-> SizeMax]

Init ==
  /\ xStart = Null /\ End = Null
  /\ NextFreeBlock = [a \in Addresses |-> Null]
  /\ xBlockSize = [a \in Addresses |-> 0]
  /\ Allocated = [a \in Addresses |-> FALSE]
  /\ xFreeBytesRemaining = 0 /\ xMinimumEverFreeBytesRemaining = 0
  /\ section = None
  /\ pc = [t \in Tasks |-> "app"]
  /\ asked = [t \in Tasks |-> 0]
  /\ xWantedSize = [t \in Tasks |-> 0]
  /\ Link = [t \in Tasks |-> Null]
  /\ Previous = Start /\ Block = Null
  /\ found = NothingFound
  /\ blocks = {}
  /\ held = [p \in {} |-> 0]

\* A task runs unless another one has suspended the scheduler.
Runs(t) == section \in {None, t}

AddWillOverflow(a, b) == a > SizeMax - b
MultiplyIgnored(a, b) == FALSE    \* mutant: the product is not checked
MultiplyWillOverflow(a, b) == a > 0 /\ b > SizeMax \div a
SizeIsValid(n) == n < AllocatedBit

\* mutant: overflow is not checked
WantedSizeUnchecked(n) == IF n = 0 THEN 0 ELSE RoundUp(n + xHeapStructSize)
\* The size of the block that a request for n bytes needs, 0 if there is none.
WantedSize(n) ==
  LET m == n + xHeapStructSize IN
  IF \/ n = 0
     \/ AddWillOverflow(n, xHeapStructSize)
     \/ AddWillOverflow(m, RoundUp(m) - m)
  THEN 0
  ELSE RoundUp(m)

NextOf(b) == IF b = Start THEN xStart ELSE NextFreeBlock[b]

-----------------------------------------------------------------------------
(* pvPortMalloc and pvPortCalloc *)

MallocStart(t) ==
  /\ pc[t] = "app" /\ Runs(t)
  /\ \E n \in Requests :
       /\ asked' = [asked EXCEPT ![t] = n]
       /\ xWantedSize' = [xWantedSize EXCEPT ![t] = WantedSize(n)]
  /\ pc' = [pc EXCEPT ![t] = "malloc"]
  /\ UNCHANGED <<heapVars, countVars, section, Link, walkVars, historyVars>>

\* The product is computed in a size_t; a request that overflows gets nothing.
CallocStart(t) ==
  /\ pc[t] = "app" /\ Runs(t)
  /\ \E xNum, xSize \in Requests :
       /\ ~MultiplyWillOverflow(xNum, xSize)
       /\ asked' = [asked EXCEPT ![t] = xNum * xSize]
       /\ xWantedSize' = [xWantedSize EXCEPT
            ![t] = WantedSize((xNum * xSize) % (SizeMax + 1))]
  /\ pc' = [pc EXCEPT ![t] = "malloc"]
  /\ UNCHANGED <<heapVars, countVars, section, Link, walkVars, historyVars>>

\* One free block from the start of the heap to the end marker.
HeapInit ==
  /\ xStart' = HeapStart
  /\ End' = EndAddress
  /\ NextFreeBlock' = [NextFreeBlock EXCEPT ![HeapStart] = EndAddress,
                                            ![EndAddress] = Null]
  /\ xBlockSize' = [xBlockSize EXCEPT ![HeapStart] = EndAddress - HeapStart,
                                      ![EndAddress] = 0]
  /\ Allocated' = [Allocated EXCEPT ![HeapStart] = FALSE, ![EndAddress] = FALSE]
  /\ xFreeBytesRemaining' = EndAddress - HeapStart
  /\ xMinimumEverFreeBytesRemaining' = EndAddress - HeapStart
  /\ blocks' = {HeapStart, EndAddress}

\* TaskSuspendAll, and the tests before the list is walked.
MallocSuspend(t) ==
  /\ pc[t] = "malloc" /\ Runs(t)
  /\ IF End = Null THEN HeapInit
                   ELSE UNCHANGED <<heapVars, countVars, blocks>>
  /\ IF /\ SizeIsValid(xWantedSize[t])
        /\ xWantedSize[t] > 0
        /\ xWantedSize[t] <= xFreeBytesRemaining'
     THEN /\ section' = t
          /\ pc' = [pc EXCEPT ![t] = "walk"]
          /\ Previous' = Start
          /\ Block' = xStart'
          /\ UNCHANGED taskVars
     ELSE /\ pc' = [pc EXCEPT ![t] = "app"]
          /\ asked' = [asked EXCEPT ![t] = 0]
          /\ xWantedSize' = [xWantedSize EXCEPT ![t] = 0]
          /\ section' = None
          /\ UNCHANGED <<Previous, Block, Link>>
  /\ UNCHANGED <<found, held>>

\* mutant: a block of just the right size is passed
WalkPassesExact(t) == xBlockSize[Block] <= xWantedSize[t] /\ NextFreeBlock[Block] # Null
WalkGoesOn(t) == xBlockSize[Block] < xWantedSize[t] /\ NextFreeBlock[Block] # Null

MallocWalk(t) ==
  /\ pc[t] = "walk" /\ section = t
  /\ WalkGoesOn(t)
  /\ Previous' = Block
  /\ Block' = NextFreeBlock[Block]
  /\ UNCHANGED <<heapVars, countVars, section, pc, taskVars, found, historyVars>>

\* ResumeAll and the return of either function; the locals are gone.
Return(t) ==
  /\ section' = None
  /\ pc' = [pc EXCEPT ![t] = "app"]
  /\ asked' = [asked EXCEPT ![t] = 0]
  /\ xWantedSize' = [xWantedSize EXCEPT ![t] = 0]
  /\ Link' = [Link EXCEPT ![t] = Null]
  /\ Previous' = Start /\ Block' = Null
  /\ found' = NothingFound

\* No block is large enough: NULL is returned.
MallocFails(t) ==
  /\ pc[t] = "walk" /\ section = t
  /\ ~WalkGoesOn(t)
  /\ Block = End
  /\ Return(t)
  /\ UNCHANGED <<heapVars, countVars, historyVars>>

\* Block leaves the list with n bytes, and its successor is nx.
HandOut(t, n, nx) ==
  /\ xStart' = IF Previous = Start THEN nx ELSE xStart
  /\ xFreeBytesRemaining' = xFreeBytesRemaining - n
  /\ xMinimumEverFreeBytesRemaining' =
       Min2(xFreeBytesRemaining - n, xMinimumEverFreeBytesRemaining)
  /\ held' = [p \in DOMAIN held \cup {Block + xHeapStructSize} |->
                IF p = Block + xHeapStructSize THEN asked[t] ELSE held[p]]
  /\ Return(t)
  /\ UNCHANGED End

\* mutant: the link of the allocated block is kept
TakenOutLinked(nx) == [NextFreeBlock EXCEPT ![Previous] = nx]
\* The list without Block, whose own link is cleared, and with nx in its place.
TakenOut(nx) == [a \in Addresses |->
  CASE a = Block    -> Null
    [] a = Previous -> nx
    [] OTHER        -> NextFreeBlock[a]]

\* mutant: however small it is
WorthSplittingAlways(t) == TRUE
\* After the walk: the rest of the block is large enough to be split off.
WorthSplitting(t) == xBlockSize[Block] - xWantedSize[t] > MinimumBlockSize

MallocWhole(t) ==
  /\ pc[t] = "walk" /\ section = t
  /\ ~WalkGoesOn(t)
  /\ Block # End
  /\ ~WorthSplitting(t)
  /\ HandOut(t, xBlockSize[Block], NextFreeBlock[Block])
  /\ NextFreeBlock' = TakenOut(NextFreeBlock[Block])
  /\ Allocated' = [Allocated EXCEPT ![Block] = TRUE]
  /\ UNCHANGED <<xBlockSize, blocks>>

\* The list with new in the place of Block, linked to nx.
SplitIn(new, nx) == [TakenOut(new) EXCEPT ![new] = nx]

MallocSplit(t) ==
  LET NewBlockLink == Block + xWantedSize[t] IN
  /\ pc[t] = "walk" /\ section = t
  /\ ~WalkGoesOn(t)
  /\ Block # End
  /\ WorthSplitting(t)
  /\ HandOut(t, xWantedSize[t], NewBlockLink)
  /\ xBlockSize' = [xBlockSize EXCEPT
       ![NewBlockLink] = xBlockSize[Block] - xWantedSize[t],
       ![Block] = xWantedSize[t]]
  /\ Allocated' = [Allocated EXCEPT ![NewBlockLink] = FALSE, ![Block] = TRUE]
  /\ NextFreeBlock' = SplitIn(NewBlockLink, NextFreeBlock[Block])
  /\ blocks' = blocks \cup {NewBlockLink}

-----------------------------------------------------------------------------
(* vPortFree *)

\* What vPortFree asks of a header before it frees the block.
MayBeFreed(b) == Allocated[b] /\ NextFreeBlock[b] = Null

\* The application gives a pointer back; the allocated bit goes before the
\* scheduler is suspended.
FreeStart(t) ==
  /\ pc[t] = "app" /\ Runs(t)
  /\ \E pv \in DOMAIN held :
       LET link == pv - xHeapStructSize IN
       /\ MayBeFreed(link)
       /\ Allocated' = [Allocated EXCEPT ![link] = FALSE]
       /\ Link' = [Link EXCEPT ![t] = link]
       /\ held' = [p \in DOMAIN held \ {pv} |-> held[p]]
  /\ pc' = [pc EXCEPT ![t] = "free"]
  /\ UNCHANGED <<xStart, End, NextFreeBlock, xBlockSize, countVars, section,
                 asked, xWantedSize, walkVars, blocks>>

FreeSuspend(t) ==
  /\ pc[t] = "free" /\ Runs(t)
  /\ section' = t
  /\ pc' = [pc EXCEPT ![t] = "insert"]
  /\ xFreeBytesRemaining' = xFreeBytesRemaining + xBlockSize[Link[t]]
  /\ Previous' = Start
  /\ UNCHANGED <<heapVars, xMinimumEverFreeBytesRemaining, taskVars, Block, found,
                 historyVars>>

\* InsertBlockIntoFreeList looks for the place; Previous is its Iterator.
FreeWalk(t) ==
  /\ pc[t] = "insert" /\ section = t
  /\ NextOf(Previous) < Link[t]
  /\ Previous' = NextOf(Previous)
  /\ UNCHANGED <<heapVars, countVars, section, pc, taskVars, Block, found, historyVars>>

\* mutants: no merge with the block before; the end marker is merged too
JoinsBeforeNever(it, b) == FALSE
JoinsAfterEnd(b, nx) == b + xBlockSize[b] = nx
\* Block b, inserted after it, makes one block with the one before it, ...
JoinsBefore(it, b) == it # Start /\ it + xBlockSize[it] = b
\* ... or with its successor nx, unless that is the end marker.
JoinsAfter(b, nx) == nx # End /\ b + xBlockSize[b] = nx

\* The merged block whole is linked to next and, unless it is it, behind it.
Linked(it, whole, next) == [a \in Addresses |->
  CASE a = whole -> next
    [] a = it /\ it # whole -> whole
    [] OTHER -> NextFreeBlock[a]]

FreeInsert(t) ==
  LET it == Previous
      b  == Link[t]
      nx == NextOf(it)
      before == JoinsBefore(it, b)
      after  == JoinsAfter(b, nx)
      whole  == IF before THEN it ELSE b
      next   == IF after THEN NextFreeBlock[nx] ELSE nx
  IN
  /\ pc[t] = "insert" /\ section = t
  /\ ~(nx < b)
  /\ xBlockSize' = [xBlockSize EXCEPT
       ![whole] = (IF before THEN xBlockSize[it] ELSE 0) + xBlockSize[b]
                    + (IF after THEN xBlockSize[nx] ELSE 0)]
  /\ xStart' = IF it = Start THEN b ELSE xStart
  /\ NextFreeBlock' = Linked(it, whole, next)
  /\ blocks' = blocks \ ((IF before THEN {b} ELSE {}) \cup (IF after THEN {nx} ELSE {}))
  /\ Return(t)
  /\ UNCHANGED <<End, Allocated, countVars, held>>

-----------------------------------------------------------------------------
(* vPortGetHeapStats and vPortHeapResetState *)

StatsSuspend(t) ==
  /\ pc[t] = "app" /\ Runs(t)
  /\ section' = t
  /\ pc' = [pc EXCEPT ![t] = "stats"]
  /\ Block' = xStart
  /\ UNCHANGED <<heapVars, countVars, taskVars, Previous, found, historyVars>>

StatsWalk(t) ==
  /\ pc[t] = "stats" /\ section = t
  /\ Block \notin {Null, End}
  /\ found' = [xBlocks  |-> found.xBlocks + 1,
               xMaxSize |-> Max2(found.xMaxSize, xBlockSize[Block]),
               xMinSize |-> Min2(found.xMinSize, xBlockSize[Block])]
  /\ Block' = NextFreeBlock[Block]
  /\ UNCHANGED <<heapVars, countVars, section, pc, taskVars, Previous, historyVars>>

\* The counters are read after ResumeAll, by one critical section.
StatsReturn(t) ==
  /\ pc[t] = "stats" /\ section = t
  /\ Block \in {Null, End}
  /\ Return(t)
  /\ UNCHANGED <<heapVars, countVars, historyVars>>

\* The application, about to restart the scheduler, holds nothing any more.
HeapResetState ==
  /\ section = None /\ \A t \in Tasks : pc[t] = "app"
  /\ End # Null
  /\ End' = Null
  /\ xFreeBytesRemaining' = 0 /\ xMinimumEverFreeBytesRemaining' = 0
  /\ blocks' = {}
  /\ held' = [p \in {} |-> 0]
  /\ UNCHANGED <<xStart, NextFreeBlock, xBlockSize, Allocated, section, pc, taskVars,
                 walkVars>>

-----------------------------------------------------------------------------

\* The steps of a section, which only its task takes.
InSection(t) ==
  \/ MallocWalk(t) \/ MallocFails(t) \/ MallocWhole(t) \/ MallocSplit(t)
  \/ FreeWalk(t) \/ FreeInsert(t)
  \/ StatsWalk(t) \/ StatsReturn(t)

Step(t) ==
  \/ MallocStart(t) \/ CallocStart(t) \/ MallocSuspend(t)
  \/ FreeStart(t) \/ FreeSuspend(t)
  \/ StatsSuspend(t)
  \/ InSection(t)

Next == (\E t \in Tasks : Step(t)) \/ HeapResetState

Spec == Init /\ [][Next]_vars

-----------------------------------------------------------------------------

PcLabels == {"app", "malloc", "walk", "free", "insert", "stats"}

TypeOK ==
  /\ xStart \in Addresses \cup {Null}
  /\ End \in {Null, EndAddress}
  /\ NextFreeBlock \in [Addresses -> Addresses \cup {Null}]
  /\ xBlockSize \in [Addresses -> Nat]
  /\ Allocated \in [Addresses -> BOOLEAN]
  /\ xFreeBytesRemaining \in Int /\ xMinimumEverFreeBytesRemaining \in Int
  /\ section \in Tasks \cup {None}
  /\ pc \in [Tasks -> PcLabels]
  /\ asked \in [Tasks -> Nat]
  /\ xWantedSize \in [Tasks -> 0 .. SizeMax]
  /\ Link \in [Tasks -> Addresses \cup {Null}]
  /\ Previous \in Addresses \cup {Start}
  /\ Block \in Addresses \cup {Null}
  /\ found \in [xBlocks : Nat, xMaxSize : Nat, xMinSize : Nat]
  /\ blocks \subseteq Addresses
  /\ DOMAIN held \subseteq Addresses
  /\ held \in [DOMAIN held -> Nat]

\* The blocks that vPortFree has marked but not inserted yet.
BeingFreed == {Link[t] : t \in {u \in Tasks : pc[u] \in {"free", "insert"}}}

\* The blocks that should be in the list.
FreeBlocks == {b \in blocks \ {End} : ~Allocated[b] /\ b \notin BeingFreed}

\* The blocks, free and allocated, cover the heap from its start to the end
\* marker without a gap or an overlap, whatever was split and merged
\* (heap_4.c 211-226, 388-420).
BlocksTile ==
  End # Null =>
    /\ {HeapStart, End} \subseteq blocks
    /\ \A b \in blocks \ {End} :
         /\ xBlockSize[b] >= xHeapStructSize
         /\ b + xBlockSize[b] \in blocks
         /\ \A c \in blocks : ~(b < c /\ c < b + xBlockSize[b])

\* c is the first block of the list above b.
IsSuccessor(b, c) ==
  /\ c \in FreeBlocks \cup {End}
  /\ b < c
  /\ \A d \in FreeBlocks : ~(b < d /\ d < c)

\* The list links exactly the free blocks, in address order, and ends at the
\* end marker: no block is lost, twice in it, or linked to itself
\* (heap_4.c 207, 374-424).
FreeListSorted ==
  End # Null =>
    /\ IsSuccessor(Start, xStart)
    /\ \A b \in FreeBlocks : IsSuccessor(b, NextFreeBlock[b])
    /\ NextFreeBlock[End] = Null

\* No two neighbours are both in the list: a freed block has been merged with
\* the block before it, the one behind it, or both (heap_4.c 388-412).
FreeBlocksMerged ==
  \A b \in FreeBlocks : b + xBlockSize[b] \notin FreeBlocks

\* The bytes that the counter counts: of the blocks in the list, and of the one that is
\* being inserted.
Inserting == {Link[t] : t \in {u \in Tasks : pc[u] = "insert"}}
FreeBytes ==
  {a \in Addresses : \E b \in FreeBlocks \cup Inserting : b <= a /\ a < b + xBlockSize[b]}

\* xFreeBytesRemaining, which decides early that a request cannot be met, is the number
\* of free bytes; the minimum never exceeds it (heap_4.c 228-232, 292).
FreeCountExact ==
  /\ xFreeBytesRemaining = Cardinality(FreeBytes)
  /\ xMinimumEverFreeBytesRemaining <= xFreeBytesRemaining

\* What the application holds is exactly the allocated blocks: each is as large
\* as was asked for, vPortFree will accept it, and no block is allocated that
\* nobody can give back (heap_4.c 135-258, 271-276).
HeldAreAllocated ==
  /\ {b \in blocks : Allocated[b]} = {p - xHeapStructSize : p \in DOMAIN held}
  /\ \A p \in DOMAIN held :
       /\ MayBeFreed(p - xHeapStructSize)
       /\ held[p] + xHeapStructSize <= xBlockSize[p - xHeapStructSize]

\* First fit: at the end of the walk that finds nothing no free block is large
\* enough, and a request refused by the counter alone had none either
\* (heap_4.c 187, 194-203).
RefusedOnlyIfNothingFits ==
  \A t \in Tasks :
    /\ (pc[t] = "walk" /\ Block = End) =>
         \A b \in FreeBlocks : xBlockSize[b] < xWantedSize[t]
    /\ (pc[t] = "malloc" /\ xWantedSize[t] > xFreeBytesRemaining) =>
         \A b \in FreeBlocks : xBlockSize[b] < xWantedSize[t]

\* When vPortGetHeapStats has walked the whole list of an initialised heap, its
\* figures are those of the free blocks, none left out or counted twice
\* (heap_4.c 437-454).
StatsExact ==
  \A t \in Tasks :
    (pc[t] = "stats" /\ End # Null /\ Block = End) =>
      LET sizes == {xBlockSize[b] : b \in FreeBlocks} IN
      /\ found.xBlocks = Cardinality(FreeBlocks)
      /\ \A n \in sizes : found.xMinSize <= n /\ n <= found.xMaxSize
      /\ sizes # {} => {found.xMinSize, found.xMaxSize} \subseteq sizes

\* What the heap says about its free space is true: the counter, a refusal, and the statistics
\* agree with the blocks, whatever other tasks do between the steps of a call
\* (heap_4.c 187-232, 292, 437-454).
FreeSpaceHonest == FreeCountExact /\ RefusedOnlyIfNothingFits /\ StatsExact

\* The heap is an allocator: pieces that are held share no byte
\* (heap_4.c 135-302).
AllAsked == Requests \cup {n * m : n \in Requests, m \in Requests}
Memory == INSTANCE Allocator WITH
  Pool <- Addresses, Sizes <- AllAsked \ {0}, live <- held
ImplementsAllocator == Memory!Spec

\* heap_4.c 433 says of the statistics: "Block will be NULL if the heap has not
\* been initialised". Block is xStart.NextFreeBlock.
NullUntilInitialised == End = Null => xStart = Null
=============================================================================
