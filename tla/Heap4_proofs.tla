---------------------------- MODULE Heap4_proofs ----------------------------
(***************************************************************************)
(* Theorems about Heap4, for every number of tasks, size and place of the  *)
(* heap, alignment, size of a header and width of size_t.                   *)
(***************************************************************************)
EXTENDS Heap4, FiniteSetTheorems, TLAPS

(* The arithmetic of sizes. *)

\* Rounding up gives a number that is not smaller.
LEMMA RoundUpType == ASSUME NEW n \in Nat PROVE RoundUp(n) \in Nat /\ RoundUp(n) >= n
<1>1. n % Alignment \in 0 .. Alignment - 1
  BY Heap4Assumption
<1> QED
  BY <1>1, Heap4Assumption DEF RoundUp

\* A header takes room, and the heap has room for one before its end marker.
LEMMA HeapBounds ==
  /\ xHeapStructSize \in Nat /\ xHeapStructSize > 0
  /\ HeapStart \in Nat /\ HeapStart > 0
  /\ EndAddress \in Nat /\ HeapStart + xHeapStructSize <= EndAddress
  /\ MinimumBlockSize = 2 * xHeapStructSize
<1>1. xHeapStructSize \in Nat /\ xHeapStructSize > 0
  BY RoundUpType, Heap4Assumption DEF xHeapStructSize
<1>2. HeapStart \in Nat /\ HeapStart > 0
  BY RoundUpType, Heap4Assumption DEF HeapStart
<1>3. EndAddress \in Int
  <2> DEFINE n == HeapAddress + TotalHeapSize - xHeapStructSize
  <2>1. n \in Int
    BY <1>1, Heap4Assumption
  <2>2. n % Alignment \in Int
    BY <2>1, Heap4Assumption
  <2> QED
    BY <2>1, <2>2 DEF EndAddress, RoundDown
<1> QED
  BY <1>1, <1>2, <1>3, Heap4Assumption DEF MinimumBlockSize

\* A wanted size fits in a size_t; if it is not 0 it has room for the header and
\* all that was asked for.
LEMMA WantedSizeFits ==
  ASSUME NEW n \in 0 .. SizeMax
  PROVE  /\ WantedSize(n) \in 0 .. SizeMax
         /\ WantedSize(n) = 0 \/ (n # 0 /\ n + xHeapStructSize <= WantedSize(n))
<1> DEFINE m == n + xHeapStructSize
<1>1. m \in Nat /\ RoundUp(m) \in Nat /\ RoundUp(m) >= m
  BY HeapBounds, RoundUpType
<1>2. WantedSize(n) = (IF n = 0 \/ AddWillOverflow(n, xHeapStructSize)
                            \/ AddWillOverflow(m, RoundUp(m) - m)
                       THEN 0 ELSE RoundUp(m))
  BY DEF WantedSize
<1> HIDE DEF m
<1>3. ~AddWillOverflow(m, RoundUp(m) - m) => RoundUp(m) <= SizeMax
  BY <1>1, Heap4Assumption DEF AddWillOverflow
<1> QED
  BY <1>1, <1>2, <1>3, Heap4Assumption DEF m

\* A product that pvPortCalloc lets through fits in a size_t.
LEMMA ProductFits ==
  ASSUME NEW a \in 0 .. SizeMax, NEW b \in 0 .. SizeMax, ~MultiplyWillOverflow(a, b)
  PROVE  a * b \in 0 .. SizeMax /\ (a * b) % (SizeMax + 1) = a * b
<1>1. SizeMax \in Nat
  BY Heap4Assumption
<1>2. a * b \in 0 .. SizeMax
  <2>1. CASE a = 0
    BY <1>1, <2>1
  <2>2. CASE a # 0
    <3> DEFINE q == SizeMax \div a
    <3>1. q \in Nat /\ a * q <= SizeMax
      BY <1>1, <2>2
    <3>2. b <= q
      BY <1>1, <2>2, <3>1 DEF MultiplyWillOverflow
    <3> HIDE DEF q
    <3>3. PICK d \in Nat : q = b + d
      <4>1. q - b \in Nat /\ q = b + (q - b)
        BY <3>1, <3>2
      <4> QED
        BY <4>1
    <3>4. a * q = a * b + a * d
      BY <3>3
    <3>5. a * d \in Nat /\ a * b \in Nat
      BY <3>3
    <3> QED
      BY <1>1, <3>1, <3>4, <3>5
  <2> QED
    BY <2>1, <2>2
<1> HIDE DEF MultiplyWillOverflow
<1>3. ASSUME NEW k \in 0 .. SizeMax PROVE k % (SizeMax + 1) = k
  BY <1>1, <1>3
<1> QED
  BY <1>2, <1>3

-----------------------------------------------------------------------------
(* The inductive invariant. *)

\* Who has the scheduler suspended, and that a heap that is not initialised has
\* nothing in use.
SectionInv ==
  /\ \A t \in Tasks : pc[t] \in {"walk", "insert", "stats"} <=> section = t
  /\ End = Null => /\ blocks = {} /\ DOMAIN held = {}
                   /\ \A t \in Tasks : pc[t] \in {"app", "malloc", "stats"}

\* What is being freed are blocks, each by one task; the end marker is not allocated.
LinkInv ==
  /\ End # Null => ~Allocated[End]
  /\ \A t \in Tasks : pc[t] \in {"free", "insert"} =>
       /\ Link[t] \in blocks \ {End}
       /\ ~Allocated[Link[t]]
       /\ \A u \in Tasks \ {t} : pc[u] \in {"free", "insert"} => Link[u] # Link[t]

\* What the walks over the list have seen so far.
WalkInv ==
  \A t \in Tasks :
    /\ pc[t] \in {"malloc", "walk"} /\ xWantedSize[t] # 0 =>
         /\ asked[t] \in AllAsked \ {0}
         /\ asked[t] + xHeapStructSize <= xWantedSize[t]
    /\ pc[t] = "walk" =>
         /\ End # Null
         /\ xWantedSize[t] # 0
         /\ Previous \in FreeBlocks \cup {Start}
         /\ Block = NextOf(Previous)
         /\ \A b \in FreeBlocks : b < Block => xBlockSize[b] < xWantedSize[t]
    /\ pc[t] = "insert" =>
         /\ Previous \in FreeBlocks \cup {Start}
         /\ Previous < Link[t]

\* The structure of the heap.
Shape == BlocksTile /\ FreeListSorted /\ FreeBlocksMerged /\ HeldAreAllocated

HeapInv == TypeOK /\ SectionInv /\ LinkInv /\ WalkInv /\ Shape

\* The null pointer, the address of xStart and the heap are apart.
LEMMA AddressFacts ==
  /\ Addresses \subseteq Nat /\ Null \notin Addresses /\ Start \notin Addresses
  /\ Null = 0 /\ Start = -1 /\ Start # Null
  /\ HeapStart \in Addresses /\ EndAddress \in Addresses
  /\ \A a \in Addresses : HeapStart <= a /\ a <= EndAddress /\ Start < a /\ a # 0
  /\ Start < EndAddress
  BY HeapBounds DEF Addresses, Null, Start

\* The initial state satisfies the invariant.
LEMMA HeapInvInit == Init => HeapInv
<1> SUFFICES ASSUME Init PROVE HeapInv
  OBVIOUS
<1> USE AddressFacts, Heap4Assumption
<1>1. TypeOK
  BY DEF Init, TypeOK, PcLabels, NothingFound
<1>2. SectionInv
  BY DEF Init, SectionInv
<1>3. LinkInv /\ WalkInv
  BY DEF Init, LinkInv, WalkInv
<1>4. FreeBlocks = {}
  BY DEF Init, FreeBlocks
<1>5. Shape
  BY <1>4 DEF Init, Shape, BlocksTile, FreeListSorted, FreeBlocksMerged, HeldAreAllocated
<1> QED
  BY <1>1, <1>2, <1>3, <1>5 DEF HeapInv

(* What the invariant says of the list. *)

\* A free block has its header in the heap, below the end marker, and ends in the heap.
LEMMA BlockFacts ==
  ASSUME HeapInv, NEW b \in blocks, b # End
  PROVE  /\ b \in Addresses /\ End = EndAddress /\ End # Null
         /\ xBlockSize[b] \in Nat /\ xBlockSize[b] >= xHeapStructSize
         /\ b + xBlockSize[b] \in blocks /\ b + xBlockSize[b] > b
         /\ \A c \in blocks : ~(b < c /\ c < b + xBlockSize[b])
<1>1. b \in Addresses /\ b \in Nat /\ xBlockSize[b] \in Nat
  BY AddressFacts DEF HeapInv, TypeOK
<1>2. End # Null /\ End = EndAddress
  BY DEF HeapInv, TypeOK, SectionInv
<1>3. /\ xBlockSize[b] >= xHeapStructSize
      /\ b + xBlockSize[b] \in blocks
      /\ \A c \in blocks : ~(b < c /\ c < b + xBlockSize[b])
  BY <1>2 DEF HeapInv, Shape, BlocksTile
<1> QED
  BY <1>1, <1>2, <1>3, HeapBounds

\* Two blocks do not overlap.
LEMMA BlocksApart ==
  ASSUME HeapInv, NEW b \in blocks, b # End, NEW c \in blocks, b < c
  PROVE  b + xBlockSize[b] <= c
  BY BlockFacts, AddressFacts DEF HeapInv, TypeOK

\* The links lead from free block to free block and at last to the end marker.
LEMMA ListFacts ==
  ASSUME HeapInv, End # Null, NEW b \in FreeBlocks \cup {Start}
  PROVE  /\ b \in Int /\ NextOf(b) \in FreeBlocks \cup {End} /\ NextOf(b) \in Addresses
         /\ b < NextOf(b) /\ \A d \in FreeBlocks : d <= b \/ NextOf(b) <= d
         /\ NextOf(b) # Null
<1>1. FreeBlocks \subseteq Addresses /\ End \in Addresses
  BY AddressFacts DEF HeapInv, TypeOK, FreeBlocks
<1>2. IsSuccessor(b, NextOf(b))
  BY AddressFacts, <1>1 DEF HeapInv, Shape, FreeListSorted, NextOf
<1>3. /\ NextOf(b) \in FreeBlocks \cup {End}
      /\ b < NextOf(b) /\ \A d \in FreeBlocks : ~(b < d /\ d < NextOf(b))
  BY <1>2 DEF IsSuccessor
<1>4. b \in Int /\ NextOf(b) \in Addresses /\ NextOf(b) \in Int /\ NextOf(b) # Null
  <2>1. NextOf(b) \in Addresses
    BY <1>1, <1>3
  <2>2. \A a \in Addresses : a \in Int /\ a # Null
    BY AddressFacts
  <2>3. b \in Int
    BY <1>1, <2>2, AddressFacts
  <2> QED
    BY <2>1, <2>2, <2>3
<1>5. ASSUME NEW d \in FreeBlocks PROVE d <= b \/ NextOf(b) <= d
  <2>1. d \in Int
    BY <1>1, AddressFacts
  <2> QED
    BY <2>1, <1>3, <1>4
<1> QED
  BY <1>3, <1>4, <1>5

\* Steps that leave memory, the blocks and what is held alone keep the shape.
LEMMA ShapeUnchanged ==
  ASSUME Shape, UNCHANGED <<heapVars, historyVars>>, FreeBlocks' = FreeBlocks
  PROVE  Shape'
  BY DEF Shape, BlocksTile, FreeListSorted, FreeBlocksMerged, HeldAreAllocated, IsSuccessor,
     MayBeFreed, heapVars, historyVars

\* When the walk of pvPortMalloc has found a block.
Taking(t) == pc[t] = "walk" /\ section = t /\ ~WalkGoesOn(t) /\ Block # End

\* The block is free and large enough, and stands between its neighbours in the list.
LEMMA TakingFacts ==
  ASSUME HeapInv, NEW t \in Tasks, Taking(t)
  PROVE  /\ End = EndAddress /\ Block \in FreeBlocks /\ Block \in Addresses /\ Block \in blocks
         /\ xBlockSize[Block] \in Nat /\ xWantedSize[t] \in Nat /\ asked[t] \in Nat
         /\ asked[t] \in AllAsked \ {0}
         /\ asked[t] + xHeapStructSize <= xWantedSize[t]
         /\ xWantedSize[t] <= xBlockSize[Block]
         /\ Previous \in FreeBlocks \cup {Start} /\ Previous < Block /\ NextOf(Previous) = Block
         /\ \A d \in FreeBlocks : d <= Previous \/ Block <= d
         /\ NextFreeBlock[Block] \in FreeBlocks \cup {End} /\ NextFreeBlock[Block] \in Addresses
         /\ Block < NextFreeBlock[Block]
         /\ \A d \in FreeBlocks : d <= Block \/ NextFreeBlock[Block] <= d
<1>1. /\ pc[t] = "walk" /\ Block # End /\ End # Null /\ xWantedSize[t] # 0
      /\ Previous \in FreeBlocks \cup {Start} /\ Block = NextOf(Previous)
      /\ asked[t] \in AllAsked \ {0} /\ asked[t] + xHeapStructSize <= xWantedSize[t]
  BY DEF Taking, HeapInv, WalkInv
<1>2. /\ Block \in FreeBlocks /\ Previous < Block /\ Block \in Addresses
      /\ \A d \in FreeBlocks : d <= Previous \/ Block <= d
  BY <1>1, ListFacts
<1>3. /\ NextFreeBlock[Block] \in FreeBlocks \cup {End} /\ NextFreeBlock[Block] \in Addresses
      /\ Block < NextFreeBlock[Block] /\ NextFreeBlock[Block] # Null
      /\ \A d \in FreeBlocks : d <= Block \/ NextFreeBlock[Block] <= d
  <2>1. NextOf(Block) = NextFreeBlock[Block]
    BY <1>2, AddressFacts DEF NextOf
  <2> QED
    BY <1>1, <1>2, <2>1, ListFacts
<1>4. xBlockSize[Block] \in Nat /\ xWantedSize[t] \in Nat /\ asked[t] \in Nat /\ End = EndAddress
  BY <1>1, <1>2, Heap4Assumption DEF HeapInv, TypeOK
<1>5. ~(xBlockSize[Block] < xWantedSize[t])
  BY <1>3 DEF Taking, WalkGoesOn
<1> QED
  BY <1>1, <1>2, <1>3, <1>4, <1>5 DEF FreeBlocks

\* A new block, split off behind the wanted bytes, lies inside the old one.
LEMMA SplitFacts ==
  ASSUME HeapInv, NEW t \in Tasks, Taking(t), WorthSplitting(t)
  PROVE  LET new == Block + xWantedSize[t] IN
         /\ new \in Addresses /\ new \notin blocks /\ Block < new
         /\ new < Block + xBlockSize[Block] /\ new # Previous /\ new # Null
         /\ xBlockSize[Block] - xWantedSize[t] \in Nat
         /\ xBlockSize[Block] - xWantedSize[t] > xHeapStructSize
<1> DEFINE new == Block + xWantedSize[t]
<1>1. /\ Block \in blocks /\ Block # End /\ Block \in Nat /\ xBlockSize[Block] \in Nat
      /\ xWantedSize[t] \in Nat /\ xWantedSize[t] > 0 /\ End = EndAddress
      /\ Previous \in Int /\ Previous < Block
  <2>1. Previous \in Int
    BY TakingFacts, AddressFacts DEF HeapInv, TypeOK
  <2>2. /\ asked[t] \in Nat /\ asked[t] + xHeapStructSize <= xWantedSize[t]
        /\ xWantedSize[t] \in Nat
    BY TakingFacts
  <2>3. xWantedSize[t] > 0
    BY <2>2, HeapBounds
  <2>4. Block \in Nat /\ Block # End
    BY TakingFacts, AddressFacts DEF FreeBlocks
  <2> QED
    BY <2>1, <2>2, <2>3, <2>4, TakingFacts
<1>2. xBlockSize[Block] - xWantedSize[t] > 2 * xHeapStructSize
  BY HeapBounds DEF WorthSplitting
<1>3. /\ Block < new /\ new < Block + xBlockSize[Block] /\ new \in Nat
      /\ xBlockSize[Block] - xWantedSize[t] > xHeapStructSize
      /\ xBlockSize[Block] - xWantedSize[t] \in Nat
  BY <1>1, <1>2, HeapBounds
<1>4. /\ Block + xBlockSize[Block] \in Addresses /\ Block \in Addresses
      /\ \A c \in blocks : ~(Block < c /\ c < Block + xBlockSize[Block])
  BY <1>1, BlockFacts DEF HeapInv, TypeOK
<1> HIDE DEF new
<1>5. new \in Addresses
  BY <1>1, <1>3, <1>4, HeapBounds DEF Addresses
<1>6. new \notin blocks /\ new # Previous /\ new # Null
  BY <1>1, <1>3, <1>4, <1>5, AddressFacts
<1> QED
  BY <1>3, <1>5, <1>6 DEF new

\* What the application holds is an allocated block.
LEMMA HeldFacts ==
  ASSUME HeapInv, NEW pv \in DOMAIN held
  PROVE  /\ pv - xHeapStructSize \in blocks \ {End} /\ pv - xHeapStructSize \in Addresses
         /\ Allocated[pv - xHeapStructSize] /\ pv \in Int /\ held[pv] \in Nat
         /\ End = EndAddress
         /\ held[pv] + xHeapStructSize <= xBlockSize[pv - xHeapStructSize]
<1> DEFINE b == pv - xHeapStructSize
<1>1. b \in blocks /\ Allocated[b] /\ held[pv] + xHeapStructSize <= xBlockSize[b]
  BY DEF HeapInv, Shape, HeldAreAllocated
<1>2. End # Null /\ End = EndAddress /\ b \in Addresses /\ held[pv] \in Nat /\ pv \in Int
  <2>1. End # Null /\ End = EndAddress
    BY <1>1 DEF HeapInv, TypeOK, SectionInv
  <2>2. b \in Addresses /\ held[pv] \in Nat /\ pv \in Addresses
    BY <1>1 DEF HeapInv, TypeOK
  <2> QED
    BY <2>1, <2>2, AddressFacts
<1>3. b # End
  BY <1>1, <1>2 DEF HeapInv, LinkInv
<1> QED
  BY <1>1, <1>2, <1>3

\* When InsertBlockIntoFreeList has found the place.
Placing(t) == pc[t] = "insert" /\ section = t /\ ~(NextOf(Previous) < Link[t])

\* The freed block stands between two blocks of the list.
LEMMA PlacingFacts ==
  ASSUME HeapInv, NEW t \in Tasks, Placing(t)
  PROVE  LET b  == Link[t]
             nx == NextOf(Previous)
         IN
         /\ End = EndAddress
         /\ b \in blocks \ {End} /\ b \in Addresses /\ b \notin FreeBlocks /\ ~Allocated[b]
         /\ Previous \in FreeBlocks \cup {Start} /\ Previous \in Int /\ Previous < b
         /\ nx \in FreeBlocks \cup {End} /\ nx \in Addresses /\ b < nx
         /\ \A d \in FreeBlocks : d <= Previous \/ nx <= d
<1> DEFINE b == Link[t]
           nx == NextOf(Previous)
<1>1. /\ b \in blocks \ {End} /\ ~Allocated[b] /\ End # Null /\ End = EndAddress
      /\ Previous \in FreeBlocks \cup {Start} /\ Previous < b
  BY DEF Placing, HeapInv, TypeOK, LinkInv, WalkInv, SectionInv
<1>2. /\ nx \in FreeBlocks \cup {End} /\ nx \in Addresses /\ Previous \in Int
      /\ \A d \in FreeBlocks : d <= Previous \/ nx <= d
  BY <1>1, ListFacts
<1>3. b \in Addresses
  BY <1>1 DEF HeapInv, TypeOK
<1>4. b \notin FreeBlocks
  BY DEF Placing, FreeBlocks, BeingFreed
<1>5. nx # b /\ ~(nx < b)
  BY <1>1, <1>2, <1>4 DEF Placing
<1>6. b < nx
  <2> HIDE DEF b, nx
  <2> QED
    BY <1>2, <1>3, <1>5, AddressFacts
<1> QED
  BY <1>1, <1>2, <1>3, <1>4, <1>6

(* Types. *)

\* The end of a section leaves locals of the right types.
LEMMA TypeReturn ==
  ASSUME TypeOK, NEW t \in Tasks, Return(t)
  PROVE  /\ section' \in Tasks \cup {None} /\ pc' \in [Tasks -> PcLabels]
         /\ asked' \in [Tasks -> Nat] /\ xWantedSize' \in [Tasks -> 0 .. SizeMax]
         /\ Link' \in [Tasks -> Addresses \cup {Null}]
         /\ Previous' \in Addresses \cup {Start} /\ Block' \in Addresses \cup {Null}
         /\ found' \in [xBlocks : Nat, xMaxSize : Nat, xMinSize : Nat]
<1>1. SizeMax \in Nat
  BY Heap4Assumption
<1> QED
  BY <1>1 DEF TypeOK, Return, PcLabels, NothingFound

\* What is handed out begins behind a header and inside the heap.
LEMMA TypeHandOut ==
  ASSUME HeapInv, NEW t \in Tasks, Taking(t), NEW n \in Int,
         NEW nx \in Addresses, HandOut(t, n, nx)
  PROVE  /\ xStart' \in Addresses \cup {Null}
         /\ xFreeBytesRemaining' \in Int /\ xMinimumEverFreeBytesRemaining' \in Int
         /\ DOMAIN held' \subseteq Addresses /\ held' \in [DOMAIN held' -> Nat]
<1>1. /\ xStart \in Addresses \cup {Null} /\ xFreeBytesRemaining \in Int
      /\ xMinimumEverFreeBytesRemaining \in Int
      /\ DOMAIN held \subseteq Addresses /\ held \in [DOMAIN held -> Nat]
      /\ blocks \subseteq Addresses
  BY DEF HeapInv, TypeOK
<1>2. xFreeBytesRemaining' \in Int /\ xMinimumEverFreeBytesRemaining' \in Int
  BY <1>1 DEF HandOut, Min2
<1>3. Block + xHeapStructSize \in Addresses
  <2>1. /\ Block \in blocks /\ Block # End /\ Block \in Nat /\ HeapStart <= Block
    BY TakingFacts, AddressFacts DEF FreeBlocks
  <2>2. /\ Block + xBlockSize[Block] \in Addresses /\ xBlockSize[Block] \in Nat
        /\ xBlockSize[Block] >= xHeapStructSize
    BY <1>1, <2>1, BlockFacts
  <2> QED
    BY <2>1, <2>2, HeapBounds DEF Addresses
<1>4. asked[t] \in Nat
  BY TakingFacts
<1>5. held' = [p \in DOMAIN held \cup {Block + xHeapStructSize} |->
                 IF p = Block + xHeapStructSize THEN asked[t] ELSE held[p]]
  BY DEF HandOut
<1> QED
  BY <1>1, <1>2, <1>3, <1>4, <1>5 DEF HandOut

\* A block handed out whole keeps the types.
LEMMA TypeWhole == ASSUME HeapInv, NEW t \in Tasks, MallocWhole(t) PROVE TypeOK'
<1>1. Taking(t) /\ HandOut(t, xBlockSize[Block], NextFreeBlock[Block]) /\ Return(t)
  BY DEF MallocWhole, Taking, HandOut
<1>2. TypeOK /\ xBlockSize[Block] \in Int /\ NextFreeBlock[Block] \in Addresses
  BY <1>1, TakingFacts DEF HeapInv
<1>3. NextFreeBlock' \in [Addresses -> Addresses \cup {Null}]
  BY <1>2 DEF MallocWhole, TakenOut, TypeOK
<1>4. Allocated' \in [Addresses -> BOOLEAN] /\ xBlockSize' \in [Addresses -> Nat]
      /\ End' \in {Null, EndAddress} /\ blocks' \subseteq Addresses
  BY <1>2 DEF MallocWhole, HandOut, TypeOK
<1> QED
  BY <1>1, <1>2, <1>3, <1>4, TypeReturn, TypeHandOut DEF TypeOK

\* A block that is split keeps the types.
LEMMA TypeSplit == ASSUME HeapInv, NEW t \in Tasks, MallocSplit(t) PROVE TypeOK'
<1> DEFINE new == Block + xWantedSize[t]
<1>1. Taking(t) /\ HandOut(t, xWantedSize[t], new) /\ Return(t) /\ WorthSplitting(t)
  BY DEF MallocSplit, Taking, HandOut
<1>2. /\ TypeOK /\ xWantedSize[t] \in Nat /\ NextFreeBlock[Block] \in Addresses
      /\ new \in Addresses /\ xBlockSize[Block] - xWantedSize[t] \in Nat
  BY <1>1, TakingFacts, SplitFacts DEF HeapInv
<1> HIDE DEF new
<1>3. NextFreeBlock' \in [Addresses -> Addresses \cup {Null}]
  <2>1. TakenOut(new) \in [Addresses -> Addresses \cup {Null}]
    BY <1>2 DEF TakenOut, TypeOK
  <2> QED
    BY <1>2, <2>1 DEF MallocSplit, SplitIn, new
<1>4. /\ Allocated' \in [Addresses -> BOOLEAN] /\ xBlockSize' \in [Addresses -> Nat]
      /\ End' \in {Null, EndAddress} /\ blocks' \subseteq Addresses
  BY <1>2 DEF MallocSplit, HandOut, TypeOK, new
<1> QED
  BY <1>1, <1>2, <1>3, <1>4, TypeReturn, TypeHandOut DEF TypeOK

\* Giving a pointer back keeps the types.
LEMMA TypeFreeStart == ASSUME HeapInv, NEW t \in Tasks, FreeStart(t) PROVE TypeOK'
<1>1. PICK pv \in DOMAIN held :
        /\ Allocated' = [Allocated EXCEPT ![pv - xHeapStructSize] = FALSE]
        /\ Link' = [Link EXCEPT ![t] = pv - xHeapStructSize]
        /\ held' = [p \in DOMAIN held \ {pv} |-> held[p]]
  BY DEF FreeStart
<1>2. TypeOK /\ pv - xHeapStructSize \in Addresses
  BY HeldFacts DEF HeapInv
<1>3. DOMAIN held' \subseteq Addresses /\ held' \in [DOMAIN held' -> Nat]
  BY <1>1, <1>2 DEF TypeOK
<1>4. Allocated' \in [Addresses -> BOOLEAN] /\ Link' \in [Tasks -> Addresses \cup {Null}]
  BY <1>1, <1>2 DEF TypeOK
<1> QED
  BY <1>2, <1>3, <1>4 DEF FreeStart, TypeOK, PcLabels, countVars, walkVars

\* Inserting a freed block keeps the types.
LEMMA TypeInsert == ASSUME HeapInv, NEW t \in Tasks, FreeInsert(t) PROVE TypeOK'
<1> DEFINE it == Previous
           b == Link[t]
           nx == NextOf(it)
           whole == IF JoinsBefore(it, b) THEN it ELSE b
           next == IF JoinsAfter(b, nx) THEN NextFreeBlock[nx] ELSE nx
           size == (IF JoinsBefore(it, b) THEN xBlockSize[it] ELSE 0) + xBlockSize[b]
                     + (IF JoinsAfter(b, nx) THEN xBlockSize[nx] ELSE 0)
<1>1. Placing(t) /\ Return(t)
  BY DEF FreeInsert, Placing
<1>2. TypeOK /\ b \in Addresses /\ nx \in Addresses
      /\ (it # Start => it \in Addresses)
  BY <1>1, PlacingFacts DEF HeapInv, TypeOK
<1>3. next \in Addresses \cup {Null} /\ whole \in Addresses /\ size \in Nat
  <2>1. JoinsBefore(it, b) => it \in Addresses
    BY <1>2 DEF JoinsBefore
  <2>2. \A a \in Addresses : xBlockSize[a] \in Nat /\ NextFreeBlock[a] \in Addresses \cup {Null}
    BY <1>2 DEF TypeOK
  <2> HIDE DEF b, it, nx
  <2> QED
    BY <1>2, <2>1, <2>2
<1>4. /\ xBlockSize' = [xBlockSize EXCEPT ![whole] = size]
      /\ xStart' = IF it = Start THEN b ELSE xStart
      /\ NextFreeBlock' = Linked(it, whole, next)
      /\ End' = End /\ Allocated' = Allocated /\ held' = held /\ blocks' \subseteq blocks
      /\ UNCHANGED countVars
  BY DEF FreeInsert
<1> HIDE DEF b, it, nx, whole, next, size
<1>5. NextFreeBlock' \in [Addresses -> Addresses \cup {Null}]
  BY <1>2, <1>3, <1>4 DEF Linked, TypeOK
<1>6. /\ xBlockSize' \in [Addresses -> Nat] /\ xStart' \in Addresses \cup {Null}
      /\ blocks' \subseteq Addresses
  BY <1>2, <1>3, <1>4 DEF TypeOK
<1> QED
  BY <1>1, <1>2, <1>4, <1>5, <1>6, TypeReturn DEF TypeOK, countVars

\* Every step keeps the types.
LEMMA TypeStep == ASSUME HeapInv, NEW t \in Tasks, Step(t) PROVE TypeOK'
<1> USE AddressFacts DEF TypeOK, PcLabels, heapVars, countVars,
        taskVars, walkVars, historyVars
<1>0. TypeOK
  BY DEF HeapInv
<1>1. CASE MallocStart(t)
  <2>1. PICK n \in Requests : asked' = [asked EXCEPT ![t] = n]
                   /\ xWantedSize' = [xWantedSize EXCEPT ![t] = WantedSize(n)]
    BY <1>1 DEF MallocStart
  <2>2. n \in 0 .. SizeMax /\ WantedSize(n) \in 0 .. SizeMax
    BY WantedSizeFits, Heap4Assumption
  <2> QED
    BY <1>0, <1>1, <2>1, <2>2 DEF MallocStart
<1>2. CASE CallocStart(t)
  <2>1. PICK xNum \in Requests, xSize \in Requests :
          /\ ~MultiplyWillOverflow(xNum, xSize)
          /\ asked' = [asked EXCEPT ![t] = xNum * xSize]
          /\ xWantedSize' = [xWantedSize EXCEPT
               ![t] = WantedSize((xNum * xSize) % (SizeMax + 1))]
    BY <1>2 DEF CallocStart
  <2>2. xNum * xSize \in 0 .. SizeMax /\ (xNum * xSize) % (SizeMax + 1) = xNum * xSize
    BY <2>1, ProductFits, Heap4Assumption
  <2> DEFINE p == xNum * xSize
  <2>3. p \in Nat /\ WantedSize(p) \in 0 .. SizeMax
    BY <2>2, WantedSizeFits, Heap4Assumption
  <2>4. asked' = [asked EXCEPT ![t] = p] /\ xWantedSize' = [xWantedSize EXCEPT ![t] = WantedSize(p)]
    BY <2>1, <2>2
  <2> HIDE DEF p
  <2> QED
    BY <1>0, <1>2, <2>3, <2>4 DEF CallocStart
<1>3. CASE MallocSuspend(t)
  <2>1. /\ xStart' \in Addresses \cup {Null} /\ End' \in {Null, EndAddress}
        /\ NextFreeBlock' \in [Addresses -> Addresses \cup {Null}]
        /\ xBlockSize' \in [Addresses -> Nat]
        /\ Allocated' \in [Addresses -> BOOLEAN]
        /\ xFreeBytesRemaining' \in Int /\ xMinimumEverFreeBytesRemaining' \in Int
        /\ blocks' \subseteq Addresses
    <3>1. CASE End = Null
      <4> DEFINE n == EndAddress - HeapStart
      <4>1. n \in Nat
        BY HeapBounds
      <4>2. /\ xStart' = HeapStart /\ End' = EndAddress
            /\ NextFreeBlock' = [NextFreeBlock EXCEPT ![HeapStart] = EndAddress,
                                                      ![EndAddress] = Null]
            /\ xBlockSize' = [xBlockSize EXCEPT ![HeapStart] = n, ![EndAddress] = 0]
            /\ Allocated' = [Allocated EXCEPT ![HeapStart] = FALSE, ![EndAddress] = FALSE]
            /\ xFreeBytesRemaining' = n /\ xMinimumEverFreeBytesRemaining' = n
            /\ blocks' = {HeapStart, EndAddress}
        BY <1>3, <3>1 DEF MallocSuspend, HeapInit
      <4> HIDE DEF n
      <4>3. NextFreeBlock' \in [Addresses -> Addresses \cup {Null}]
        BY <1>0, <4>2
      <4>4. xBlockSize' \in [Addresses -> Nat]
        BY <1>0, <4>1, <4>2
      <4>5. Allocated' \in [Addresses -> BOOLEAN]
        BY <1>0, <4>2
      <4>6. blocks' \subseteq Addresses /\ xStart' \in Addresses /\ End' = EndAddress
        BY <4>2
      <4>7. xFreeBytesRemaining' \in Int /\ xMinimumEverFreeBytesRemaining' \in Int
        BY <4>1, <4>2
      <4> QED
        BY <4>3, <4>4, <4>5, <4>6, <4>7
    <3>2. CASE End # Null
      BY <1>0, <1>3, <3>2 DEF MallocSuspend
    <3> QED
      BY <3>1, <3>2
  <2> QED
    BY <1>0, <1>3, <2>1, Heap4Assumption DEF MallocSuspend
<1>4. CASE MallocWalk(t)
  BY <1>0, <1>4, ListFacts, BlockFacts DEF MallocWalk, WalkGoesOn, HeapInv, WalkInv
<1>5. CASE MallocFails(t)
  BY <1>0, <1>5, Heap4Assumption DEF MallocFails, Return, NothingFound
<1>6. CASE MallocWhole(t)
  BY <1>6, TypeWhole
<1>6a. CASE MallocSplit(t)
  BY <1>6a, TypeSplit
<1>7. CASE FreeStart(t)
  BY <1>7, TypeFreeStart
<1>8. CASE FreeSuspend(t)
  <2>1. Link[t] \in Addresses
    BY <1>0, <1>8 DEF FreeSuspend, HeapInv, LinkInv
  <2> QED
    BY <1>0, <1>8, <2>1 DEF FreeSuspend
<1>9. CASE FreeWalk(t)
  BY <1>0, <1>9, ListFacts DEF FreeWalk, HeapInv, WalkInv, SectionInv
<1>10. CASE FreeInsert(t)
  BY <1>10, TypeInsert
<1>11. CASE StatsSuspend(t)
  BY <1>0, <1>11 DEF StatsSuspend
<1>12. CASE StatsWalk(t)
  BY <1>0, <1>12 DEF StatsWalk, Max2, Min2
<1>13. CASE StatsReturn(t)
  BY <1>0, <1>13, Heap4Assumption DEF StatsReturn, Return, NothingFound
<1> QED
  BY <1>1, <1>2, <1>3, <1>4, <1>5, <1>6, <1>6a, <1>7, <1>8, <1>9, <1>10, <1>11, <1>12, <1>13
     DEF Step, InSection

(* How the steps change the free blocks. *)

Freeing == {"free", "insert"}

\* What is being freed stays the same while the tasks that free stay where they are.
LEMMA BeingFreedSame ==
  ASSUME HeapInv, NEW t \in Tasks, pc[t] \notin Freeing,
         NEW l, l \notin Freeing, pc' = [pc EXCEPT ![t] = l],
         Link' = Link \/ Link' = [Link EXCEPT ![t] = Null]
  PROVE  BeingFreed' = BeingFreed
<1>1. ASSUME NEW u \in Tasks PROVE (pc'[u] \in Freeing) <=> (pc[u] \in Freeing)
  BY DEF HeapInv, TypeOK
<1>2. ASSUME NEW u \in Tasks, pc[u] \in Freeing PROVE Link'[u] = Link[u]
  <2>1. u # t
    BY <1>2
  <2> QED
    BY <2>1 DEF HeapInv, TypeOK
<1> QED
  BY <1>1, <1>2 DEF BeingFreed, Freeing

\* The free blocks change with memory, the blocks and what is being freed only.
LEMMA FreeBlocksSame ==
  ASSUME BeingFreed' = BeingFreed, blocks' = blocks, End' = End, Allocated' = Allocated
  PROVE  FreeBlocks' = FreeBlocks
  BY DEF FreeBlocks

\* The label and the link of a task that takes a block.
LEMMA TakingLabel ==
  ASSUME HeapInv, NEW t \in Tasks, Taking(t), Return(t) PROVE BeingFreed' = BeingFreed
<1>1. pc[t] \notin Freeing /\ "app" \notin Freeing
  BY DEF Taking, Freeing
<1>2. pc' = [pc EXCEPT ![t] = "app"] /\ Link' = [Link EXCEPT ![t] = Null]
  BY DEF Return
<1> QED
  BY <1>1, <1>2, BeingFreedSame

\* A block handed out whole leaves the list and becomes one that is held.
LEMMA WholeShape ==
  ASSUME HeapInv, NEW t \in Tasks, MallocWhole(t)
  PROVE  Shape' /\ FreeBlocks' = FreeBlocks \ {Block}
<1> DEFINE B == Block
           P == Previous
           nx == NextFreeBlock[Block]
           pv == Block + xHeapStructSize
<1>0. Taking(t) /\ Return(t)
  BY DEF MallocWhole, HandOut, Taking
<1>1. /\ xStart' = IF P = Start THEN nx ELSE xStart
      /\ NextFreeBlock' = [a \in Addresses |-> CASE a = B -> Null [] a = P -> nx
                                                 [] OTHER -> NextFreeBlock[a]]
      /\ Allocated' = [Allocated EXCEPT ![B] = TRUE]
      /\ End' = End /\ xBlockSize' = xBlockSize /\ blocks' = blocks
      /\ held' = [p \in DOMAIN held \cup {pv} |-> IF p = pv THEN asked[t] ELSE held[p]]
  BY DEF MallocWhole, HandOut, TakenOut
<1>2. /\ End = EndAddress /\ B \in FreeBlocks /\ B \in Addresses /\ B \in blocks
      /\ asked[t] + xHeapStructSize <= xBlockSize[B]
      /\ P \in FreeBlocks \cup {Start} /\ P < B
      /\ \A d \in FreeBlocks : d <= P \/ B <= d
      /\ nx \in FreeBlocks \cup {End} /\ nx \in Addresses /\ B < nx
      /\ \A d \in FreeBlocks : d <= B \/ nx <= d
  BY <1>0, TakingFacts, HeapBounds
<1>3. TypeOK /\ BlocksTile /\ FreeListSorted /\ FreeBlocksMerged /\ HeldAreAllocated
      /\ End # Null /\ FreeBlocks \subseteq blocks \ {End} /\ FreeBlocks \subseteq Addresses
  BY <1>2, AddressFacts DEF HeapInv, Shape, FreeBlocks, TypeOK
<1> HIDE DEF B, P, nx, pv
<1>4. FreeBlocks' = FreeBlocks \ {B}
  <2>1. BeingFreed' = BeingFreed
    BY <1>0, TakingLabel
  <2> QED
    BY <2>1, <1>1, <1>2, <1>3 DEF FreeBlocks, TypeOK
<1>5. BlocksTile'
  BY <1>1, <1>3 DEF BlocksTile
<1>6. FreeBlocksMerged'
  BY <1>1, <1>3, <1>4 DEF FreeBlocksMerged
<1>7. FreeListSorted'
  <2>1. \A a \in Addresses : a \in Int /\ a # Start
    BY AddressFacts
  <2>2. IsSuccessor(Start, xStart)'
    <3>1. CASE P = Start
      BY <1>1, <1>2, <1>3, <1>4, <2>1, <3>1, AddressFacts DEF IsSuccessor
    <3>2. CASE P # Start
      <4>1. xStart # B
        <5>1. P \in FreeBlocks /\ Start < P /\ P < B /\ P \in Int
          BY <1>2, <1>3, <3>2, AddressFacts
        <5> QED
          BY <5>1, <1>2, <1>3 DEF FreeListSorted, IsSuccessor
      <4> QED
        BY <1>1, <1>3, <1>4, <3>2, <4>1 DEF FreeListSorted, IsSuccessor
    <3> QED
      BY <3>1, <3>2
  <2>3. ASSUME NEW b \in FreeBlocks' PROVE IsSuccessor(b, NextFreeBlock[b])'
    <3>1. b \in FreeBlocks /\ b # B /\ b \in Addresses
      BY <1>3, <1>4
    <3>2. CASE b = P
      <4>1. NextFreeBlock'[b] = nx
        BY <1>1, <3>1, <3>2
      <4>2. nx \in FreeBlocks' \cup {End'} /\ b < nx
        BY <1>1, <1>2, <1>3, <1>4, <2>1, <3>1, <3>2
      <4>3. ASSUME NEW d \in FreeBlocks' PROVE ~(b < d /\ d < nx)
        BY <1>2, <1>3, <1>4, <2>1, <3>1, <3>2
      <4> QED
        BY <4>1, <4>2, <4>3 DEF IsSuccessor
    <3>3. CASE b # P
      <4>1. NextFreeBlock'[b] = NextFreeBlock[b] /\ IsSuccessor(b, NextFreeBlock[b])
        BY <1>1, <1>3, <3>1, <3>3 DEF FreeListSorted
      <4>2. NextFreeBlock[b] # B
        <5>1. CASE P = Start
          BY <1>2, <1>3, <2>1, <3>1, <5>1, <4>1, AddressFacts DEF IsSuccessor
        <5>2. CASE P # Start
          BY <1>2, <1>3, <2>1, <3>1, <3>3, <5>2, <4>1 DEF IsSuccessor
        <5> QED
          BY <5>1, <5>2
      <4> QED
        BY <1>1, <1>4, <4>1, <4>2 DEF IsSuccessor
    <3> QED
      BY <3>2, <3>3
  <2>4. NextFreeBlock'[End'] = Null
    BY <1>1, <1>2, <1>3, AddressFacts DEF FreeListSorted
  <2> QED
    BY <2>2, <2>3, <2>4 DEF FreeListSorted
<1>8. HeldAreAllocated'
  <2>1. pv \in Int /\ pv - xHeapStructSize = B
    BY <1>2, AddressFacts, HeapBounds DEF pv, B
  <2>2. {b \in blocks' : Allocated'[b]} = {b \in blocks : Allocated[b]} \cup {B}
    BY <1>1, <1>2, <1>3 DEF TypeOK
  <2>3. {p - xHeapStructSize : p \in DOMAIN held'}
          = {p - xHeapStructSize : p \in DOMAIN held} \cup {B}
    BY <1>1, <2>1
  <2>4. ASSUME NEW p \in DOMAIN held'
        PROVE  /\ MayBeFreed(p - xHeapStructSize)'
               /\ held'[p] + xHeapStructSize <= xBlockSize'[p - xHeapStructSize]
    <3>1. CASE p = pv
      <4>1. Allocated'[B]
        BY <1>1, <1>2, <1>3 DEF TypeOK
      <4>2. NextFreeBlock'[B] = Null
        <5>1. P # B
          BY <1>2, AddressFacts
        <5> QED
          BY <5>1, <1>1, <1>2
      <4>3. held'[p] = asked[t]
        BY <1>1, <3>1
      <4> QED
        BY <4>1, <4>2, <4>3, <1>1, <1>2, <2>1, <3>1 DEF MayBeFreed
    <3>2. CASE p # pv
      <4>1. p \in DOMAIN held /\ held'[p] = held[p]
        BY <1>1, <3>2
      <4> DEFINE b == p - xHeapStructSize
      <4>2. b \in Addresses /\ Allocated[b] /\ NextFreeBlock[b] = Null
            /\ held[p] + xHeapStructSize <= xBlockSize[b]
        BY <4>1, <1>3, HeldFacts DEF HeldAreAllocated, MayBeFreed
      <4>3. b # B /\ b # P
        BY <4>2, <1>2, AddressFacts DEF FreeBlocks
      <4> HIDE DEF b
      <4>4. Allocated'[b] /\ NextFreeBlock'[b] = Null
        BY <1>1, <1>3, <4>2, <4>3 DEF TypeOK
      <4> QED
        BY <1>1, <4>1, <4>2, <4>4 DEF MayBeFreed, b
    <3> QED
      BY <3>1, <3>2
  <2> QED
    BY <1>3, <2>2, <2>3, <2>4 DEF HeldAreAllocated
<1> QED
  BY <1>4, <1>5, <1>6, <1>7, <1>8 DEF Shape, B

\* A block that is split: the wanted bytes are held, the rest takes its place in the list.
LEMMA SplitShape ==
  ASSUME HeapInv, NEW t \in Tasks, MallocSplit(t)
  PROVE  Shape' /\ FreeBlocks' = (FreeBlocks \ {Block}) \cup {Block + xWantedSize[t]}
<1> DEFINE B == Block
           P == Previous
           w == xWantedSize[t]
           new == Block + xWantedSize[t]
           nx == NextFreeBlock[Block]
           pv == Block + xHeapStructSize
<1>0. Taking(t) /\ Return(t) /\ WorthSplitting(t)
  BY DEF MallocSplit, HandOut, Taking
<1>1. /\ xStart' = IF P = Start THEN new ELSE xStart
      /\ NextFreeBlock' = [[a \in Addresses |-> CASE a = B -> Null [] a = P -> new
                                [] OTHER -> NextFreeBlock[a]] EXCEPT ![new] = nx]
      /\ Allocated' = [Allocated EXCEPT ![new] = FALSE, ![B] = TRUE]
      /\ End' = End /\ blocks' = blocks \cup {new}
      /\ xBlockSize' = [xBlockSize EXCEPT ![new] = xBlockSize[B] - w, ![B] = w]
      /\ held' = [p \in DOMAIN held \cup {pv} |-> IF p = pv THEN asked[t] ELSE held[p]]
  BY DEF MallocSplit, HandOut, TakenOut, SplitIn
<1>1a. blocks' = blocks \cup {new} /\ End' = End
  BY <1>1
<1>2. /\ End = EndAddress /\ B \in FreeBlocks /\ B \in Addresses /\ B \in blocks
      /\ asked[t] + xHeapStructSize <= w /\ asked[t] \in Nat /\ w \in Nat
      /\ P \in FreeBlocks \cup {Start} /\ P < B
      /\ \A d \in FreeBlocks : d <= P \/ B <= d
      /\ nx \in FreeBlocks \cup {End} /\ nx \in Addresses /\ B < nx
      /\ \A d \in FreeBlocks : d <= B \/ nx <= d
  BY <1>0, TakingFacts
<1>3. TypeOK /\ BlocksTile /\ FreeListSorted /\ FreeBlocksMerged /\ HeldAreAllocated
      /\ End # Null /\ FreeBlocks \subseteq blocks \ {End} /\ FreeBlocks \subseteq Addresses
      /\ blocks \subseteq Addresses
  BY <1>2, AddressFacts DEF HeapInv, Shape, FreeBlocks, TypeOK
<1>4. /\ new \in Addresses /\ new \notin blocks /\ B < new /\ new < B + xBlockSize[B]
      /\ new # P /\ new # B
      /\ xBlockSize[B] - w \in Nat /\ xBlockSize[B] - w >= xHeapStructSize
      /\ B \in Int /\ w >= xHeapStructSize /\ xBlockSize[B] \in Nat
      /\ new + (xBlockSize[B] - w) = B + xBlockSize[B] /\ new = B + w
  <2>1. /\ new \in Addresses /\ new \notin blocks /\ B < new /\ new < B + xBlockSize[B]
        /\ new # P /\ xBlockSize[B] - w \in Nat /\ xBlockSize[B] - w > xHeapStructSize
    BY <1>0, SplitFacts
  <2>2. B \in Int /\ xBlockSize[B] \in Nat
    BY <1>2, <1>3, AddressFacts DEF TypeOK
  <2> QED
    BY <1>2, <2>1, <2>2, HeapBounds
<1>5. /\ B # End /\ B + xBlockSize[B] \in blocks
      /\ \A c \in blocks : ~(B < c /\ c < B + xBlockSize[B])
  BY <1>2, <1>3, BlockFacts
<1> HIDE DEF B, P, w, new, nx, pv
<1>6. FreeBlocks' = (FreeBlocks \ {B}) \cup {new}
  <2>1. BeingFreed' = BeingFreed
    BY <1>0, TakingLabel
  <2>2. new \notin BeingFreed
    BY <1>4 DEF HeapInv, LinkInv, BeingFreed
  <2>3. \A b \in Addresses : b # new /\ b # B => Allocated'[b] = Allocated[b]
    BY <1>1, <1>3 DEF TypeOK
  <2>4. ~Allocated'[new] /\ Allocated'[B]
    BY <1>1, <1>2, <1>3, <1>4 DEF TypeOK
  <2>5. new # End
    BY <1>3, <1>4 DEF BlocksTile
  <2> QED
    BY <2>1, <2>2, <2>3, <2>4, <2>5, <1>1, <1>3, <1>4 DEF FreeBlocks
<1>7. /\ xBlockSize'[new] = xBlockSize[B] - w /\ xBlockSize'[B] = w
      /\ \A b \in Addresses : b # new /\ b # B => xBlockSize'[b] = xBlockSize[b]
  BY <1>1, <1>2, <1>3, <1>4 DEF TypeOK
<1>8. BlocksTile'
  <2>1. ASSUME NEW b \in blocks' \ {End'}
        PROVE  /\ xBlockSize'[b] >= xHeapStructSize
               /\ b + xBlockSize'[b] \in blocks'
               /\ \A c \in blocks' : ~(b < c /\ c < b + xBlockSize'[b])
    <3>1. CASE b = new
      <4>1. b + xBlockSize'[b] = B + xBlockSize[B] /\ xBlockSize'[b] >= xHeapStructSize
        BY <1>4, <1>7, <3>1
      <4>2. ASSUME NEW c \in blocks' PROVE ~(b < c /\ c < B + xBlockSize[B])
        <5>1. c \in Int /\ (c \in blocks \/ c = new) /\ b \in Int
          BY <1>1, <1>3, <1>4, <3>1, AddressFacts
        <5> QED
          BY <5>1, <1>4, <1>5, <3>1
      <4>3. b + xBlockSize'[b] \in blocks'
        BY <1>1a, <1>5, <4>1
      <4>4. ASSUME NEW c \in blocks' PROVE ~(b < c /\ c < b + xBlockSize'[b])
        BY <4>1, <4>2
      <4> QED
        BY <4>1, <4>3, <4>4
    <3>2. CASE b = B
      <4>1. b + xBlockSize'[b] = new /\ xBlockSize'[b] >= xHeapStructSize
        BY <1>4, <1>7, <3>2
      <4>2. ASSUME NEW c \in blocks' PROVE ~(b < c /\ c < new)
        <5>1. c \in Int /\ (c \in blocks \/ c = new) /\ new \in Int
          BY <1>1, <1>3, <1>4, AddressFacts
        <5> QED
          BY <5>1, <1>4, <1>5, <3>2
      <4>3. b + xBlockSize'[b] \in blocks'
        BY <1>1a, <4>1
      <4>4. ASSUME NEW c \in blocks' PROVE ~(b < c /\ c < b + xBlockSize'[b])
        BY <4>1, <4>2
      <4> QED
        BY <4>1, <4>3, <4>4
    <3>3. CASE b # new /\ b # B
      <4>1. b \in blocks /\ b # End /\ b \in Addresses
        BY <1>1, <1>3, <3>3
      <4>2. /\ xBlockSize[b] >= xHeapStructSize /\ b + xBlockSize[b] \in blocks
            /\ \A c \in blocks : ~(b < c /\ c < b + xBlockSize[b])
            /\ xBlockSize[b] \in Nat /\ b \in Int
        BY <4>1, BlockFacts, AddressFacts
      <4>3. ~(b < new /\ new < b + xBlockSize[b])
        <5>1. CASE b < B
          <6>1. b + xBlockSize[b] <= B
            BY <4>1, <5>1, <1>2, BlocksApart
          <6> QED
            BY <6>1, <4>2, <1>4
        <5>2. CASE B < b
          <6>1. B + xBlockSize[B] <= b
            BY <4>1, <5>2, <1>2, <1>5, BlocksApart
          <6> QED
            BY <6>1, <4>2, <1>4, AddressFacts
        <5> QED
          BY <5>1, <5>2, <3>3, <4>2, <1>4
      <4>4. xBlockSize'[b] = xBlockSize[b]
        BY <1>7, <3>3, <4>1
      <4>5. ASSUME NEW c \in blocks' PROVE ~(b < c /\ c < b + xBlockSize'[b])
        BY <1>1a, <4>2, <4>3, <4>4
      <4> QED
        BY <1>1a, <4>2, <4>4, <4>5
    <3> QED
      BY <3>1, <3>2, <3>3
  <2> QED
    BY <2>1, <1>1, <1>3 DEF BlocksTile
<1>9. FreeBlocksMerged'
  <2>1. ASSUME NEW b \in FreeBlocks' PROVE b + xBlockSize'[b] \notin FreeBlocks'
    <3>1. CASE b = new
      <4>1. B + xBlockSize[B] \notin FreeBlocks /\ B + xBlockSize[B] # new
        BY <1>2, <1>3, <1>4 DEF FreeBlocksMerged
      <4> QED
        BY <3>1, <4>1, <1>4, <1>6, <1>7
    <3>2. CASE b # new
      <4>1. b \in FreeBlocks /\ b # B /\ b \in Addresses /\ b \in blocks /\ b # End
        BY <1>3, <1>6, <3>2
      <4>2. b + xBlockSize[b] \in blocks /\ b + xBlockSize[b] \notin FreeBlocks
        BY <4>1, <1>3, BlockFacts DEF FreeBlocksMerged
      <4> QED
        BY <4>1, <4>2, <3>2, <1>4, <1>6, <1>7
    <3> QED
      BY <3>1, <3>2
  <2> QED
    BY <2>1 DEF FreeBlocksMerged

<1>10. FreeListSorted'
  <2>1. \A a \in Addresses : a \in Int /\ a # Start
    BY AddressFacts
  <2>2. /\ NextFreeBlock'[new] = nx
        /\ P # Start => NextFreeBlock'[P] = new
        /\ \A a \in Addresses \ {new, B, P} : NextFreeBlock'[a] = NextFreeBlock[a]
    BY <1>1, <1>2, <1>3, <1>4
  <2>3. new < nx
    <3>1. nx \in blocks /\ nx \in Int
      BY <1>2, <1>3, <2>1 DEF BlocksTile
    <3> QED
      BY <3>1, <1>2, <1>4, <1>5, <2>1
  <2>4. \A d \in FreeBlocks' : d \in Int /\ (d <= P \/ d = new \/ nx <= d)
    BY <1>2, <1>3, <1>4, <1>6, <2>1
  <2>5. P \in Int /\ new \in Int /\ nx \in Int /\ B \in Int /\ P < new /\ Start < new
    BY <1>2, <1>3, <1>4, <2>1, AddressFacts
  <2>6. IsSuccessor(Start, xStart)'
    <3>1. CASE P = Start
      BY <1>1, <1>6, <2>1, <2>3, <2>4, <2>5, <3>1 DEF IsSuccessor
    <3>2. CASE P # Start
      <4>1. P \in FreeBlocks /\ Start < P
        BY <1>2, <1>3, <3>2, AddressFacts
      <4>2. xStart' = xStart /\ IsSuccessor(Start, xStart)
        BY <1>1, <1>3, <3>2 DEF FreeListSorted
      <4>3. xStart \in Int
        <5>1. FreeBlocks \cup {End} \subseteq Addresses
          BY <1>2, <1>3, AddressFacts
        <5> QED
          BY <4>2, <5>1, <2>1 DEF IsSuccessor
      <4>4. xStart <= P
        BY <4>1, <4>2, <4>3, <2>5 DEF IsSuccessor
      <4>5. xStart # B /\ xStart < new
        BY <4>3, <4>4, <2>5, <1>2
      <4>6. xStart \in FreeBlocks' \cup {End'} /\ Start < xStart
        BY <4>2, <4>5, <1>6, <1>1a DEF IsSuccessor
      <4>7. ASSUME NEW d \in FreeBlocks' PROVE ~(Start < d /\ d < xStart)
        BY <4>2, <4>3, <4>5, <2>5, <1>6 DEF IsSuccessor
      <4> QED
        BY <4>2, <4>6, <4>7 DEF IsSuccessor
    <3> QED
      BY <3>1, <3>2
  <2>7. ASSUME NEW b \in FreeBlocks' PROVE IsSuccessor(b, NextFreeBlock[b])'
    <3>1. CASE b = new
      <4>1. nx \in FreeBlocks' \cup {End'}
        BY <1>1, <1>2, <1>6, <2>5
      <4> QED
        BY <4>1, <2>2, <2>3, <2>4, <2>5, <3>1 DEF IsSuccessor
    <3>2. CASE b # new
      <4>1. b \in FreeBlocks /\ b # B /\ b \in Addresses /\ b \in Int
        BY <1>3, <1>6, <2>1, <3>2
      <4>2. CASE b = P
        <5>1. NextFreeBlock'[b] = new /\ new \in FreeBlocks'
          BY <1>6, <2>1, <2>2, <4>1, <4>2
        <5> QED
          BY <5>1, <2>3, <2>4, <2>5, <4>2 DEF IsSuccessor
      <4>3. CASE b # P
        <5>1. NextFreeBlock'[b] = NextFreeBlock[b]
          BY <2>2, <3>2, <4>1, <4>3
        <5>2. IsSuccessor(b, NextFreeBlock[b])
          BY <1>3, <4>1 DEF FreeListSorted
        <5>3. NextFreeBlock[b] \in Int /\ NextFreeBlock[b] # B /\ (b < P \/ nx <= b)
              /\ ~(b < new /\ new < NextFreeBlock[b])
          <6>1. NextFreeBlock[b] \in Int
            <7>1. FreeBlocks \cup {End} \subseteq Addresses
              BY <1>2, <1>3, AddressFacts
            <7> QED
              BY <5>2, <7>1, <2>1 DEF IsSuccessor
          <6>2. b < P \/ nx <= b
            BY <2>4, <2>5, <3>2, <4>1, <4>3
          <6>3. CASE b < P
            <7>1. P \in FreeBlocks
              BY <6>3, <1>2, <4>1, <1>3, AddressFacts
            <7>2. NextFreeBlock[b] <= P
              BY <5>2, <6>1, <6>3, <7>1, <2>5 DEF IsSuccessor
            <7> QED
              BY <6>1, <6>2, <7>2, <2>5, <1>2
          <6>4. CASE nx <= b
            BY <5>2, <6>1, <6>4, <2>3, <2>5, <4>1, <1>2 DEF IsSuccessor
          <6> QED
            BY <6>2, <6>3, <6>4
        <5>4. NextFreeBlock[b] \in FreeBlocks' \cup {End'} /\ b < NextFreeBlock[b]
          BY <5>2, <5>3, <1>1, <1>6 DEF IsSuccessor
        <5>5. ASSUME NEW d \in FreeBlocks' PROVE ~(b < d /\ d < NextFreeBlock[b])
          BY <5>2, <5>3, <1>6 DEF IsSuccessor
        <5> QED
          BY <5>1, <5>4, <5>5 DEF IsSuccessor
      <4> QED
        BY <4>2, <4>3
    <3> QED
      BY <3>1, <3>2
  <2>8. NextFreeBlock'[End'] = Null
    <3>1. End \in Addresses /\ End \notin {new, B, P}
      BY <1>2, <1>3, <1>4, AddressFacts DEF BlocksTile
    <3> QED
      BY <3>1, <2>2, <1>1, <1>3 DEF FreeListSorted
  <2> QED
    BY <2>6, <2>7, <2>8 DEF FreeListSorted
<1>11. HeldAreAllocated'
  <2>1. pv \in Int /\ pv - xHeapStructSize = B
    BY <1>4, HeapBounds DEF pv, B
  <2>2. {b \in blocks' : Allocated'[b]} = {b \in blocks : Allocated[b]} \cup {B}
    BY <1>1, <1>2, <1>3, <1>4 DEF TypeOK
  <2>3. {p - xHeapStructSize : p \in DOMAIN held'}
          = {p - xHeapStructSize : p \in DOMAIN held} \cup {B}
    BY <1>1, <2>1
  <2>4. ASSUME NEW p \in DOMAIN held'
        PROVE  /\ MayBeFreed(p - xHeapStructSize)'
               /\ held'[p] + xHeapStructSize <= xBlockSize'[p - xHeapStructSize]
    <3>1. CASE p = pv
      <4>1. Allocated'[B]
        BY <1>1, <1>2, <1>3, <1>4 DEF TypeOK
      <4>2. NextFreeBlock'[B] = Null
        BY <1>1, <1>2, <1>4
      <4>3. held'[p] = asked[t]
        BY <1>1, <3>1
      <4> QED
        BY <4>1, <4>2, <4>3, <1>2, <1>7, <2>1, <3>1 DEF MayBeFreed
    <3>2. CASE p # pv
      <4>1. p \in DOMAIN held /\ held'[p] = held[p]
        BY <1>1, <3>2
      <4> DEFINE b == p - xHeapStructSize
      <4>2. b \in Addresses /\ Allocated[b] /\ NextFreeBlock[b] = Null
            /\ held[p] + xHeapStructSize <= xBlockSize[b] /\ b \in blocks
        BY <4>1, <1>3, HeldFacts DEF HeldAreAllocated, MayBeFreed
      <4>3. b # B /\ b # P /\ b # new
        BY <4>2, <1>2, <1>4, AddressFacts DEF FreeBlocks
      <4> HIDE DEF b
      <4>4. Allocated'[b] /\ NextFreeBlock'[b] = Null /\ xBlockSize'[b] = xBlockSize[b]
        <5>1. Allocated'[b] = Allocated[b]
          BY <1>1, <1>3, <4>2, <4>3 DEF TypeOK
        <5>2. NextFreeBlock'[b] = NextFreeBlock[b]
          BY <1>1, <4>2, <4>3
        <5> QED
          BY <5>1, <5>2, <1>7, <4>2, <4>3
      <4> QED
        BY <4>1, <4>2, <4>4 DEF MayBeFreed, b
    <3> QED
      BY <3>1, <3>2
  <2> QED
    BY <2>2, <2>3, <2>4, <1>3 DEF HeldAreAllocated
<1> QED
  BY <1>6, <1>8, <1>9, <1>10, <1>11 DEF Shape, B, new

\* The task that inserts a block has no other to free.
LEMMA PlacingLabel ==
  ASSUME HeapInv, NEW t \in Tasks, Placing(t), Return(t)
  PROVE  BeingFreed' = BeingFreed \ {Link[t]}
<1>1. pc' = [pc EXCEPT ![t] = "app"] /\ Link' = [Link EXCEPT ![t] = Null]
  BY DEF Return
<1>2. pc \in [Tasks -> PcLabels] /\ Link \in [Tasks -> Addresses \cup {Null}]
  BY DEF HeapInv, TypeOK
<1>3. pc[t] = "insert"
  BY DEF Placing
<1>4. ASSUME NEW u \in Tasks \ {t} PROVE pc'[u] = pc[u] /\ Link'[u] = Link[u]
  BY <1>1, <1>2
<1>5. pc'[t] \notin {"free", "insert"}
  BY <1>1, <1>2
<1>6. ASSUME NEW u \in Tasks \ {t}, pc[u] \in {"free", "insert"} PROVE Link[u] # Link[t]
  BY <1>3, <1>6 DEF HeapInv, LinkInv
<1> QED
  BY <1>3, <1>4, <1>5, <1>6 DEF BeingFreed

\* The inserted block, merged with its free neighbours, takes their place in the list.
LEMMA InsertShape ==
  ASSUME HeapInv, NEW t \in Tasks, FreeInsert(t)
  PROVE  LET gone == (IF JoinsBefore(Previous, Link[t]) THEN {Link[t]} ELSE {})
                     \cup (IF JoinsAfter(Link[t], NextOf(Previous)) THEN {NextOf(Previous)}
                                                                    ELSE {})
         IN  Shape' /\ FreeBlocks' = (FreeBlocks \cup {Link[t]}) \ gone
<1> DEFINE it == Previous
           b == Link[t]
           nx == NextOf(it)
           before == JoinsBefore(it, b)
           after == JoinsAfter(b, nx)
           whole == IF before THEN it ELSE b
           next == IF after THEN NextFreeBlock[nx] ELSE nx
           gone == (IF before THEN {b} ELSE {}) \cup (IF after THEN {nx} ELSE {})
           top == IF after THEN nx + xBlockSize[nx] ELSE b + xBlockSize[b]
           size == (IF before THEN xBlockSize[it] ELSE 0) + xBlockSize[b]
                     + (IF after THEN xBlockSize[nx] ELSE 0)
<1>0. Placing(t) /\ Return(t)
  BY DEF FreeInsert, Placing
<1>1. /\ xBlockSize' = [xBlockSize EXCEPT ![whole] = size]
      /\ xStart' = IF it = Start THEN b ELSE xStart
      /\ NextFreeBlock' = [a \in Addresses |-> CASE a = whole -> next
                             [] a = it /\ it # whole -> whole [] OTHER -> NextFreeBlock[a]]
  BY DEF FreeInsert, Linked
<1>1a. End' = End /\ Allocated' = Allocated /\ held' = held /\ blocks' = blocks \ gone
  BY DEF FreeInsert
<1>2. /\ End = EndAddress
      /\ b \in blocks \ {End} /\ b \in Addresses /\ b \notin FreeBlocks /\ ~Allocated[b]
      /\ it \in FreeBlocks \cup {Start} /\ it \in Int /\ it < b
      /\ nx \in FreeBlocks \cup {End} /\ nx \in Addresses /\ b < nx
      /\ \A d \in FreeBlocks : d <= it \/ nx <= d
  BY <1>0, PlacingFacts
<1>3. TypeOK /\ BlocksTile /\ FreeListSorted /\ FreeBlocksMerged /\ HeldAreAllocated
      /\ End # Null /\ FreeBlocks \subseteq blocks \ {End} /\ FreeBlocks \subseteq Addresses
      /\ blocks \subseteq Addresses
  BY <1>2, AddressFacts DEF HeapInv, Shape, FreeBlocks, TypeOK
<1>4. \A a \in Addresses : a \in Int /\ a # Start /\ xBlockSize[a] \in Nat
  BY <1>3, AddressFacts DEF TypeOK
<1>5. before <=> (it # Start /\ it + xBlockSize[it] = b)
  BY DEF JoinsBefore
<1>6. after <=> (nx # End /\ b + xBlockSize[b] = nx)
  BY DEF JoinsAfter
<1>7. \A c \in blocks \ {End} : /\ c + xBlockSize[c] \in blocks /\ c + xBlockSize[c] > c
                                /\ xBlockSize[c] >= xHeapStructSize
                                /\ \A d \in blocks : c < d => c + xBlockSize[c] <= d
  BY BlockFacts, BlocksApart
<1> HIDE DEF b, it, nx, before, after
<1>8. /\ before => it \in FreeBlocks /\ it \in Addresses
      /\ after => nx \in FreeBlocks
      /\ b \in Int /\ nx \in Int
  BY <1>2, <1>3, <1>4, <1>5, <1>6
<1>9. /\ whole \in FreeBlocks \cup {b} /\ whole <= b /\ whole \in Addresses
      /\ whole \in blocks \ {End} /\ whole \notin gone /\ whole \in Int /\ Start < whole
  BY <1>2, <1>3, <1>4, <1>8, AddressFacts
<1>10. whole + size = top /\ size \in Nat /\ size >= xHeapStructSize /\ top \in blocks
       /\ top > b /\ top > whole /\ (after => top > nx) /\ top \notin gone /\ top \in Int
  <2>1. /\ xBlockSize[b] \in Nat /\ xBlockSize[nx] \in Nat
        /\ before => xBlockSize[it] \in Nat
    BY <1>2, <1>4, <1>8
  <2>2. whole + size = top /\ size \in Nat
    BY <1>2, <1>5, <1>6, <1>8, <2>1
  <2>3. /\ b + xBlockSize[b] \in blocks /\ b + xBlockSize[b] > b
        /\ xBlockSize[b] >= xHeapStructSize
        /\ after => nx + xBlockSize[nx] \in blocks /\ nx + xBlockSize[nx] > nx
    BY <1>2, <1>3, <1>7, <1>8
  <2>4. size >= xHeapStructSize
    BY <2>1, <2>3, HeapBounds
  <2>5. top \in blocks /\ top > b /\ (after => top > nx)
    BY <1>2, <1>8, <2>1, <2>3
  <2> HIDE DEF top, size
  <2>6. top \in Int
    BY <2>5, <1>3, <1>4
  <2> QED
    BY <2>2, <2>4, <2>5, <2>6, <1>2, <1>8, <1>9
<1>11. \A c \in blocks \ gone : ~(whole < c /\ c < top)
  <2> SUFFICES ASSUME NEW c \in blocks \ gone, whole < c, c < top PROVE FALSE
    OBVIOUS
  <2>1. c \in Int /\ (before => c # b) /\ (after => c # nx)
    BY <1>3, <1>4
  <2>2. before => ~(it < c /\ c < b)
    BY <1>5, <1>7, <1>8, <1>2, <1>3, <2>1
  <2>3. b < c => b + xBlockSize[b] <= c
    BY <1>2, <1>7
  <2>4. after => (nx < c => nx + xBlockSize[nx] <= c)
    BY <1>3, <1>7, <1>8
  <2>5. xBlockSize[b] \in Nat /\ xBlockSize[nx] \in Nat
    BY <1>2, <1>4
  <2>6. b < c
    BY <2>1, <2>2, <1>8, <1>2
  <2>7. b + xBlockSize[b] <= c
    BY <2>3, <2>6
  <2>8. after
    BY <2>1, <2>5, <2>7, <1>8
  <2>9. nx < c
    BY <2>1, <2>7, <2>8, <1>6, <1>8
  <2> QED
    BY <2>1, <2>4, <2>5, <2>8, <2>9, <1>8
<1> HIDE DEF top, size
<1>12. FreeBlocks' = (FreeBlocks \cup {b}) \ gone
  <2>1. BeingFreed' = BeingFreed \ {b}
    BY <1>0, PlacingLabel DEF b
  <2>2. \A f \in FreeBlocks : f \notin BeingFreed
    BY DEF FreeBlocks
  <2> QED
    BY <2>1, <2>2, <1>1a, <1>2 DEF FreeBlocks
<1>13. /\ xBlockSize'[whole] = size
       /\ \A c \in Addresses \ {whole} : xBlockSize'[c] = xBlockSize[c]
       /\ NextFreeBlock'[whole] = next
       /\ it # whole /\ it # Start => NextFreeBlock'[it] = whole
       /\ \A c \in Addresses \ {whole, it} : NextFreeBlock'[c] = NextFreeBlock[c]
  <2>1. xBlockSize'[whole] = size /\ \A c \in Addresses \ {whole} : xBlockSize'[c] = xBlockSize[c]
    BY <1>1, <1>3, <1>9 DEF TypeOK
  <2>2. NextFreeBlock'[whole] = next
    BY <1>1, <1>9
  <2>3. it # whole /\ it # Start => NextFreeBlock'[it] = whole
    <3>1. it # Start => it \in Addresses
      BY <1>2, <1>3
    <3> QED
      BY <3>1, <1>1
  <2>4. \A c \in Addresses \ {whole, it} : NextFreeBlock'[c] = NextFreeBlock[c]
    BY <1>1
  <2> QED
    BY <2>1, <2>2, <2>3, <2>4
<1>14. \A c \in blocks \ gone : c \in blocks /\ c \in Addresses /\ c \in Int
                               /\ (before => c # b) /\ (after => c # nx)
  BY <1>3, <1>4
<1>15. /\ \A c \in FreeBlocks' : c \in Addresses /\ c \in Int /\ c \in blocks \ {End}
                                /\ (c \in FreeBlocks \/ c = b)
                                /\ (before => c # b) /\ (after => c # nx)
       /\ \A c \in FreeBlocks : (before => c # b) /\ (after => c # nx) => c \in FreeBlocks'
       /\ b \in FreeBlocks' <=> ~before
  BY <1>12, <1>2, <1>3, <1>4, <1>8
<1> HIDE DEF gone
<1>16. BlocksTile'
  <2>1. HeapStart \in blocks' /\ End \in blocks'
    <3>1. HeapStart \in blocks /\ End \in blocks /\ HeapStart \in Int
      BY <1>3, AddressFacts DEF BlocksTile
    <3>2. before => HeapStart # b
      BY <1>2, <1>8, <1>4, AddressFacts
    <3>3. HeapStart # nx
      BY <1>2, <1>8, AddressFacts
    <3> QED
      BY <3>1, <3>2, <3>3, <1>1a, <1>2, <1>6 DEF gone
  <2>2. ASSUME NEW c \in blocks' \ {End'}
        PROVE  /\ xBlockSize'[c] >= xHeapStructSize
               /\ c + xBlockSize'[c] \in blocks'
               /\ \A d \in blocks' : ~(c < d /\ d < c + xBlockSize'[c])
    <3>1. CASE c = whole
      BY <1>1a, <1>10, <1>11, <1>13, <3>1
    <3>2. CASE c # whole
      <4>1. c \in blocks \ {End} /\ c \in Addresses /\ c \in Int /\ c # b
            /\ (before => c # it) /\ (after => c # nx)
        BY <1>1a, <1>14, <3>2
      <4>2. /\ xBlockSize'[c] = xBlockSize[c] /\ xBlockSize[c] \in Nat
            /\ c + xBlockSize[c] \in blocks /\ xBlockSize[c] >= xHeapStructSize
            /\ c + xBlockSize[c] \in Int
        BY <1>13, <1>4, <1>7, <3>2, <4>1
      <4>3. ASSUME before PROVE c + xBlockSize[c] # b
        <5>1. it + xBlockSize[it] = b /\ it \in blocks \ {End} /\ xBlockSize[it] \in Nat
          BY <1>3, <1>4, <1>5, <1>8, <4>3
        <5>2. c < it => c + xBlockSize[c] <= it
          BY <1>7, <4>1, <5>1
        <5>3. it < c => it + xBlockSize[it] <= c
          BY <1>7, <4>1, <5>1
        <5> QED
          BY <5>1, <5>2, <5>3, <4>1, <4>2, <4>3, <1>2, <1>7, <1>8
      <4>4. ASSUME after PROVE c + xBlockSize[c] # nx
        <5>1. b + xBlockSize[b] = nx /\ xBlockSize[b] \in Nat
          BY <1>2, <1>4, <1>6, <4>4
        <5>2. c < b => c + xBlockSize[c] <= b
          BY <1>7, <4>1, <1>2
        <5>3. b < c => b + xBlockSize[b] <= c
          BY <1>7, <4>1, <1>2
        <5> QED
          BY <5>1, <5>2, <5>3, <4>1, <4>2, <4>4, <1>2, <1>7, <1>8
      <4>5. c + xBlockSize[c] \in blocks'
        BY <4>2, <4>3, <4>4, <1>1a DEF gone
      <4>6. ASSUME NEW d \in blocks' PROVE ~(c < d /\ d < c + xBlockSize[c])
        <5>1. d \in blocks /\ d \in Int
          BY <1>1a, <1>3, <1>4
        <5>2. c < d => c + xBlockSize[c] <= d
          BY <5>1, <4>1, <1>7
        <5> QED
          BY <5>1, <5>2, <4>1, <4>2
      <4> QED
        BY <4>2, <4>5, <4>6
    <3> QED
      BY <3>1, <3>2
  <2> QED
    BY <2>1, <2>2, <1>1a DEF BlocksTile
<1>17. FreeBlocksMerged'
  <2>1. ASSUME NEW c \in FreeBlocks' PROVE c + xBlockSize'[c] \notin FreeBlocks'
    <3>1. CASE c = whole
      <4>1. c + xBlockSize'[c] = top
        BY <3>1, <1>10, <1>13
      <4>2. CASE after
        <5>1. top = nx + xBlockSize[nx]
          BY <4>2 DEF top
        <5>2. top \notin FreeBlocks
          BY <5>1, <4>2, <1>3, <1>8 DEF FreeBlocksMerged
        <5> QED
          BY <4>1, <5>2, <1>8, <1>10, <1>15
      <4>3. CASE ~after
        <5>1. top = b + xBlockSize[b]
          BY <4>3 DEF top
        <5>2. ASSUME top \in FreeBlocks PROVE FALSE
          <6>1. nx <= top
            BY <5>2, <1>2, <1>8, <1>10
          <6>2. b + xBlockSize[b] <= nx
            <7>1. nx \in blocks
              BY <1>2, <1>3 DEF BlocksTile
            <7> QED
              BY <7>1, <1>2, <1>7
          <6>3. top = nx
            BY <5>1, <6>1, <6>2, <1>8, <1>10
          <6>4. nx = End
            BY <5>1, <6>3, <4>3, <1>6
          <6> QED
            BY <5>2, <6>3, <6>4, <1>3
        <5> QED
          BY <4>1, <5>2, <1>8, <1>10, <1>15
      <4> QED
        BY <4>2, <4>3
    <3>2. CASE c # whole
      <4>1. c \in FreeBlocks /\ c # b /\ c \in Addresses /\ c \in Int /\ (before => c # it)
            /\ xBlockSize'[c] = xBlockSize[c] /\ c \in blocks \ {End}
        BY <1>13, <1>15, <3>2
      <4>2. c + xBlockSize[c] \notin FreeBlocks
        BY <4>1, <1>3 DEF FreeBlocksMerged
      <4>3. ASSUME c + xBlockSize[c] = b PROVE FALSE
        <5>1. xBlockSize[c] \in Nat /\ c < b
          BY <4>1, <4>3, <1>4, <1>7
        <5>2. c <= it
          BY <4>1, <5>1, <1>2, <1>8
        <5>3. it # Start
          BY <4>1, <5>2, AddressFacts
        <5>4. it \in blocks
          BY <5>3, <1>2, <1>3
        <5>5. c < it => c + xBlockSize[c] <= it
          BY <4>1, <5>4, <1>7
        <5>6. c = it
          BY <4>1, <4>3, <5>2, <5>5, <1>2, <1>8
        <5> QED
          BY <4>1, <4>3, <5>3, <5>6, <1>5
      <4> QED
        BY <4>1, <4>2, <4>3, <1>15
    <3> QED
      BY <3>1, <3>2
  <2> QED
    BY <2>1 DEF FreeBlocksMerged
<1>18. FreeListSorted'
  <2>1. /\ next \in FreeBlocks \cup {End} /\ next \in Int /\ next >= nx
        /\ (after => next > nx)
        /\ \A d \in FreeBlocks : nx < d /\ after => next <= d
    <3>1. CASE after
      <4>1. IsSuccessor(nx, NextFreeBlock[nx]) /\ next = NextFreeBlock[nx]
        BY <3>1, <1>3, <1>8 DEF FreeListSorted
      <4>2. NextFreeBlock[nx] \in FreeBlocks \cup {End} /\ nx < NextFreeBlock[nx]
            /\ \A d \in FreeBlocks : ~(nx < d /\ d < NextFreeBlock[nx])
        BY <4>1 DEF IsSuccessor
      <4>3. NextFreeBlock[nx] \in Int
        BY <4>2, <1>2, <1>3, <1>4, AddressFacts
      <4>4. \A d \in FreeBlocks : d \in Int
        BY <1>3, <1>4
      <4> QED
        BY <4>1, <4>2, <4>3, <4>4, <1>8
    <3>2. CASE ~after
      BY <3>2, <1>2, <1>8
    <3> QED
      BY <3>1, <3>2
  <2>2. next \in FreeBlocks' \cup {End'}
    BY <2>1, <1>1a, <1>2, <1>8, <1>15
  <2> HIDE DEF next
  <2>3. ASSUME NEW d \in FreeBlocks' PROVE d <= it \/ d = whole \/ next <= d
    <3>1. CASE d = b
      BY <3>1, <1>15
    <3>2. CASE d # b
      <4>1. d \in FreeBlocks /\ d \in Int /\ (after => d # nx)
        BY <3>2, <1>15
      <4>2. d <= it \/ nx <= d
        BY <4>1, <1>2
      <4>3. nx <= d /\ after => next <= d
        BY <4>1, <2>1, <1>8
      <4>4. ~after => next = nx
        BY DEF next
      <4> QED
        BY <4>1, <4>2, <4>3, <4>4
    <3> QED
      BY <3>1, <3>2
  <2>4. IsSuccessor(Start, xStart)'
    <3>1. CASE it = Start
      <4>1. xStart' = b /\ ~before /\ b \in FreeBlocks'
        BY <3>1, <1>1, <1>5, <1>15
      <4>2. ASSUME NEW d \in FreeBlocks', Start < d, d < b PROVE FALSE
        <5>1. d \in FreeBlocks /\ d \in Int
          BY <4>2, <1>8, <1>15
        <5> QED
          BY <3>1, <4>2, <5>1, <1>2, <1>8
      <4> QED
        BY <4>1, <4>2, <1>2, AddressFacts DEF IsSuccessor
    <3>2. CASE it # Start
      <4>1. it \in FreeBlocks /\ Start < it /\ it \in Addresses /\ xStart' = xStart
        BY <3>2, <1>1, <1>2, <1>3, AddressFacts
      <4>2. IsSuccessor(Start, xStart)
        BY <1>3 DEF FreeListSorted
      <4>3. xStart \in FreeBlocks \cup {End} /\ Start < xStart
            /\ \A d \in FreeBlocks : ~(Start < d /\ d < xStart)
        BY <4>2 DEF IsSuccessor
      <4>4. xStart \in Int
        BY <4>3, <1>2, <1>3, <1>4, AddressFacts
      <4>5. xStart <= it
        BY <4>1, <4>3, <4>4, <1>2
      <4>6. xStart \in FreeBlocks' \cup {End'}
        BY <4>3, <4>4, <4>5, <1>1a, <1>2, <1>8, <1>15
      <4>7. ASSUME NEW d \in FreeBlocks' PROVE ~(Start < d /\ d < xStart)
        BY <4>3, <4>4, <4>5, <1>2, <1>8, <1>15
      <4> QED
        BY <4>1, <4>3, <4>6, <4>7 DEF IsSuccessor
    <3> QED
      BY <3>1, <3>2
  <2>5. ASSUME NEW c \in FreeBlocks' PROVE IsSuccessor(c, NextFreeBlock[c])'
    <3>0. c \in Int /\ c \in Addresses
      BY <1>15
    <3>1. CASE c = whole
      <4>1. NextFreeBlock'[c] = next
        BY <3>1, <1>13 DEF next
      <4>2. whole < next
        BY <2>1, <1>2, <1>8, <1>9
      <4>3. ASSUME NEW d \in FreeBlocks' PROVE ~(whole < d /\ d < next)
        <5>1. d \in Int /\ (d <= it \/ d = whole \/ next <= d)
          BY <2>3, <1>15
        <5>2. it <= whole
          BY <1>2, <1>8
        <5> HIDE DEF whole
        <5> QED
          BY <5>1, <5>2, <2>1, <1>2, <1>9
      <4> QED
        BY <3>1, <4>1, <4>2, <4>3, <2>2 DEF IsSuccessor
    <3>2. CASE c # whole /\ c = it
      <4>1. ~before /\ whole = b /\ b \in FreeBlocks'
        BY <3>2, <1>15
      <4>2. NextFreeBlock'[c] = b
        BY <3>2, <4>1, <3>0, <1>4, <1>13
      <4>3. ASSUME NEW d \in FreeBlocks' PROVE ~(it < d /\ d < b)
        BY <1>2, <1>8, <1>15
      <4> QED
        BY <3>2, <4>1, <4>2, <4>3, <1>2 DEF IsSuccessor
    <3>3. CASE c # whole /\ c # it
      <4>1. NextFreeBlock'[c] = NextFreeBlock[c] /\ c \in FreeBlocks /\ c # b
            /\ (after => c # nx)
        BY <3>0, <3>3, <1>13, <1>15
      <4>2. IsSuccessor(c, NextFreeBlock[c])
        BY <4>1, <1>3 DEF FreeListSorted
      <4> DEFINE n == NextFreeBlock[c]
      <4>3. n \in FreeBlocks \cup {End} /\ c < n
            /\ \A d \in FreeBlocks : ~(c < d /\ d < n)
        BY <4>2 DEF IsSuccessor
      <4> HIDE DEF n
      <4>4. n \in Int
        BY <4>3, <1>2, <1>3, <1>4, AddressFacts
      <4>5. n <= it \/ (nx <= c /\ nx < n)
        <5>1. CASE c <= it
          <6>1. it \in FreeBlocks /\ c < it
            BY <5>1, <3>0, <3>3, <1>2, AddressFacts
          <6> QED
            BY <6>1, <4>3, <4>4, <1>2
        <5>2. CASE nx <= c
          BY <5>2, <3>0, <4>3, <4>4, <1>8
        <5> QED
          BY <5>1, <5>2, <4>1, <1>2
      <4>6. n # b /\ (n <= it \/ nx < n) /\ n # nx
        BY <4>4, <4>5, <1>2, <1>8
      <4>7. n \in FreeBlocks' \cup {End'}
        BY <4>3, <4>6, <1>1a, <1>15
      <4>8. ASSUME NEW d \in FreeBlocks' PROVE ~(c < d /\ d < n)
        BY <4>3, <4>4, <4>5, <3>0, <1>2, <1>8, <1>15
      <4> QED
        BY <4>1, <4>3, <4>7, <4>8 DEF IsSuccessor, n
    <3> QED
      BY <3>1, <3>2, <3>3
  <2>6. NextFreeBlock'[End'] = Null
    <3>1. End \in Addresses /\ End # whole /\ End # it
      BY <1>2, <1>3, <1>9, AddressFacts
    <3> QED
      BY <3>1, <1>1a, <1>3, <1>13 DEF FreeListSorted
  <2> QED
    BY <2>4, <2>5, <2>6 DEF FreeListSorted
<1>19. HeldAreAllocated'
  <2>1. ~Allocated[b] /\ (after => ~Allocated[nx]) /\ (it # Start => ~Allocated[it])
    BY <1>2, <1>8 DEF FreeBlocks
  <2>2. {c \in blocks' : Allocated'[c]} = {c \in blocks : Allocated[c]}
    BY <2>1, <1>1a DEF gone
  <2>3. ASSUME NEW p \in DOMAIN held
        PROVE  /\ MayBeFreed(p - xHeapStructSize)'
               /\ held[p] + xHeapStructSize <= xBlockSize'[p - xHeapStructSize]
    <3> DEFINE h == p - xHeapStructSize
    <3>1. h \in Addresses /\ Allocated[h] /\ NextFreeBlock[h] = Null
          /\ held[p] + xHeapStructSize <= xBlockSize[h]
      BY <1>3, HeldFacts DEF HeldAreAllocated, MayBeFreed
    <3>2. h # whole /\ h # it
      BY <3>1, <2>1, <1>4
    <3> HIDE DEF h
    <3>3. NextFreeBlock'[h] = Null /\ xBlockSize'[h] = xBlockSize[h]
      BY <3>1, <3>2, <1>13
    <3> QED
      BY <3>1, <3>3, <1>1a DEF MayBeFreed, h
  <2> QED
    BY <2>2, <2>3, <1>1a, <1>3 DEF HeldAreAllocated
<1> QED
  BY <1>12, <1>16, <1>17, <1>18, <1>19 DEF Shape, gone, before, after, nx, it, b

(* The remaining steps. *)

InASection == {"walk", "insert", "stats"}

\* While a task takes a step no other one is in a section, and its locals are its own.
LEMMA StepOthers ==
  ASSUME HeapInv, NEW t \in Tasks, Step(t), NEW u \in Tasks \ {t}
  PROVE  /\ section \in {None, t} /\ pc[u] \notin InASection
         /\ pc'[u] = pc[u] /\ asked'[u] = asked[u] /\ xWantedSize'[u] = xWantedSize[u]
         /\ Link'[u] = Link[u]
<1>1. section \in {None, t}
  BY DEF Step, InSection, MallocStart, CallocStart, MallocSuspend, FreeStart, FreeSuspend,
     StatsSuspend, MallocWalk, MallocFails, MallocWhole, MallocSplit, FreeWalk, FreeInsert,
     StatsWalk, StatsReturn, Runs
<1>2. section # u
  BY <1>1, Heap4Assumption
<1>3. pc[u] \notin InASection
  BY <1>2 DEF HeapInv, SectionInv, InASection
<1>4. /\ pc \in [Tasks -> PcLabels] /\ asked \in [Tasks -> Nat]
      /\ xWantedSize \in [Tasks -> 0 .. SizeMax] /\ Link \in [Tasks -> Addresses \cup {Null}]
  BY DEF HeapInv, TypeOK
<1>5. \/ UNCHANGED pc
      \/ \E l : pc' = [pc EXCEPT ![t] = l]
  BY DEF Step, InSection, MallocStart, CallocStart, MallocSuspend, FreeStart, FreeSuspend,
     StatsSuspend, MallocWalk, MallocFails, MallocWhole, MallocSplit, FreeWalk, FreeInsert,
     StatsWalk, StatsReturn, HandOut, Return
<1>6. \/ UNCHANGED asked
      \/ \E n : asked' = [asked EXCEPT ![t] = n]
  BY DEF Step, InSection, MallocStart, CallocStart, MallocSuspend, FreeStart, FreeSuspend,
     StatsSuspend, MallocWalk, MallocFails, MallocWhole, MallocSplit, FreeWalk, FreeInsert,
     StatsWalk, StatsReturn, HandOut, Return, taskVars
<1>7. \/ UNCHANGED xWantedSize
      \/ \E n : xWantedSize' = [xWantedSize EXCEPT ![t] = n]
  BY DEF Step, InSection, MallocStart, CallocStart, MallocSuspend, FreeStart, FreeSuspend,
     StatsSuspend, MallocWalk, MallocFails, MallocWhole, MallocSplit, FreeWalk, FreeInsert,
     StatsWalk, StatsReturn, HandOut, Return, taskVars
<1>8. \/ UNCHANGED Link
      \/ \E l : Link' = [Link EXCEPT ![t] = l]
  BY DEF Step, InSection, MallocStart, CallocStart, MallocSuspend, FreeStart, FreeSuspend,
     StatsSuspend, MallocWalk, MallocFails, MallocWhole, MallocSplit, FreeWalk, FreeInsert,
     StatsWalk, StatsReturn, HandOut, Return, taskVars
<1>9. pc'[u] = pc[u]
  BY <1>4, <1>5
<1>10. asked'[u] = asked[u] /\ xWantedSize'[u] = xWantedSize[u]
  BY <1>4, <1>6, <1>7
<1>11. Link'[u] = Link[u]
  BY <1>4, <1>8
<1> QED
  BY <1>1, <1>3, <1>9, <1>10, <1>11

\* A task is in a section exactly if it is the one that has the scheduler suspended.
LEMMA StepSection ==
  ASSUME HeapInv, NEW t \in Tasks, Step(t)
  PROVE  section' \in {None, t} /\ (section' = t <=> pc'[t] \in InASection)
<1> USE Heap4Assumption DEF InASection
<1>0. pc \in [Tasks -> PcLabels] /\ None # t /\ section \in {None, t}
      /\ (section = t <=> pc[t] \in InASection)
  BY DEF HeapInv, TypeOK, SectionInv, Step, InSection, MallocStart, CallocStart, MallocSuspend,
     FreeStart, FreeSuspend, StatsSuspend, MallocWalk, MallocFails, MallocWhole, MallocSplit,
     FreeWalk, FreeInsert, StatsWalk, StatsReturn, Runs
<1>1. CASE MallocStart(t) \/ CallocStart(t)
  BY <1>0, <1>1 DEF MallocStart, CallocStart
<1>2. CASE MallocSuspend(t)
  BY <1>0, <1>2 DEF MallocSuspend
<1>3. CASE FreeStart(t) \/ FreeSuspend(t) \/ StatsSuspend(t)
  BY <1>0, <1>3 DEF FreeStart, FreeSuspend, StatsSuspend
<1>4. CASE MallocWalk(t) \/ FreeWalk(t) \/ StatsWalk(t)
  BY <1>0, <1>4 DEF MallocWalk, FreeWalk, StatsWalk
<1>5. CASE Return(t)
  BY <1>0, <1>5 DEF Return
<1> QED
  BY <1>1, <1>2, <1>3, <1>4, <1>5
     DEF Step, InSection, MallocFails, MallocWhole, MallocSplit, FreeInsert, StatsReturn, HandOut

\* A pointer that is given back is no longer held, and its block not yet free.
LEMMA FreeStartShape ==
  ASSUME HeapInv, NEW t \in Tasks, FreeStart(t)
  PROVE  Shape' /\ FreeBlocks' = FreeBlocks
<1>1. PICK pv \in DOMAIN held :
        /\ Allocated' = [Allocated EXCEPT ![pv - xHeapStructSize] = FALSE]
        /\ Link' = [Link EXCEPT ![t] = pv - xHeapStructSize]
        /\ held' = [p \in DOMAIN held \ {pv} |-> held[p]]
  BY DEF FreeStart
<1> DEFINE b == pv - xHeapStructSize
<1>2. /\ b \in blocks \ {End} /\ b \in Addresses /\ Allocated[b] /\ pv \in Int
      /\ Shape /\ TypeOK
  BY HeldFacts DEF HeapInv
<1>3. pc' = [pc EXCEPT ![t] = "free"] /\ pc[t] = "app"
      /\ UNCHANGED <<xStart, End, NextFreeBlock, xBlockSize, blocks>>
  BY DEF FreeStart
<1> HIDE DEF b
<1>4. BeingFreed' = BeingFreed \cup {b}
  <2>1. ASSUME NEW u \in Tasks \ {t} PROVE pc'[u] = pc[u] /\ Link'[u] = Link[u]
    BY <1>1, <1>2, <1>3 DEF TypeOK
  <2>2. pc'[t] = "free" /\ Link'[t] = b
    BY <1>1, <1>2, <1>3 DEF TypeOK, b
  <2> QED
    BY <1>3, <2>1, <2>2 DEF BeingFreed
<1>5. ~Allocated'[b] /\ \A c \in Addresses \ {b} : Allocated'[c] = Allocated[c]
  BY <1>1, <1>2 DEF TypeOK, b
<1>6. FreeBlocks' = FreeBlocks
  <2>1. blocks \subseteq Addresses
    BY <1>2 DEF TypeOK
  <2> QED
    BY <1>2, <1>3, <1>4, <1>5, <2>1 DEF FreeBlocks
<1>7. BlocksTile' /\ FreeListSorted' /\ FreeBlocksMerged'
  BY <1>2, <1>3, <1>6 DEF Shape, BlocksTile, FreeListSorted, FreeBlocksMerged, IsSuccessor
<1>8. HeldAreAllocated'
  <2>1. \A p \in DOMAIN held : p \in Int
    BY HeldFacts
  <2>2. {c \in blocks' : Allocated'[c]} = {c \in blocks : Allocated[c]} \ {b}
    BY <1>2, <1>3, <1>5 DEF TypeOK
  <2>3. ASSUME NEW p \in DOMAIN held \ {pv} PROVE p - xHeapStructSize # b
    BY <1>2, <2>1, HeapBounds DEF b
  <2>4. {p - xHeapStructSize : p \in DOMAIN held'}
          = {p - xHeapStructSize : p \in DOMAIN held} \ {b}
    BY <1>1, <2>3 DEF b
  <2>5. ASSUME NEW p \in DOMAIN held'
        PROVE  /\ MayBeFreed(p - xHeapStructSize)'
               /\ held'[p] + xHeapStructSize <= xBlockSize'[p - xHeapStructSize]
    <3> DEFINE h == p - xHeapStructSize
    <3>1. p \in DOMAIN held \ {pv} /\ held'[p] = held[p]
      BY <1>1
    <3>2. /\ h \in Addresses /\ Allocated[h] /\ NextFreeBlock[h] = Null /\ h # b
          /\ held[p] + xHeapStructSize <= xBlockSize[h]
      BY <1>2, <3>1, <2>3, HeldFacts DEF Shape, HeldAreAllocated, MayBeFreed
    <3> HIDE DEF h
    <3>3. Allocated'[h]
      BY <3>2, <1>5
    <3> QED
      BY <1>3, <3>1, <3>2, <3>3 DEF MayBeFreed, h
  <2> QED
    BY <1>2, <2>2, <2>4, <2>5 DEF Shape, HeldAreAllocated
<1> QED
  BY <1>6, <1>7, <1>8 DEF Shape

\* The heap that pvPortMalloc finds or makes has its shape.
LEMMA SuspendShape ==
  ASSUME HeapInv, NEW t \in Tasks, MallocSuspend(t)
  PROVE  Shape' /\ End' # Null /\ (End # Null => FreeBlocks' = FreeBlocks)
<1>1. /\ pc[t] = "malloc"
      /\ Link' = Link
      /\ pc' = [pc EXCEPT ![t] = "walk"] \/ pc' = [pc EXCEPT ![t] = "app"]
  BY DEF MallocSuspend, taskVars
<1>2. BeingFreed' = BeingFreed
  BY <1>1, BeingFreedSame DEF Freeing
<1>3. CASE End # Null
  <2>1. UNCHANGED <<heapVars, historyVars>>
    BY <1>3 DEF MallocSuspend, historyVars
  <2>2. FreeBlocks' = FreeBlocks
    BY <1>2, <2>1, FreeBlocksSame DEF heapVars, historyVars
  <2> QED
    BY <1>3, <2>1, <2>2, ShapeUnchanged DEF HeapInv, heapVars
<1>4. CASE End = Null
  <2>1. TypeOK /\ blocks = {} /\ DOMAIN held = {} /\ BeingFreed = {}
    BY <1>4 DEF HeapInv, SectionInv, BeingFreed
  <2> DEFINE n == EndAddress - HeapStart
  <2>2. /\ xStart' = HeapStart /\ End' = EndAddress
        /\ NextFreeBlock' = [NextFreeBlock EXCEPT ![HeapStart] = EndAddress,
                                                  ![EndAddress] = Null]
        /\ xBlockSize' = [xBlockSize EXCEPT ![HeapStart] = n, ![EndAddress] = 0]
        /\ Allocated' = [Allocated EXCEPT ![HeapStart] = FALSE, ![EndAddress] = FALSE]
        /\ blocks' = {HeapStart, EndAddress} /\ held' = held
    BY <1>4 DEF MallocSuspend, HeapInit
  <2>3. /\ HeapStart \in Addresses /\ EndAddress \in Addresses /\ EndAddress # Null
        /\ HeapStart \in Int /\ EndAddress \in Int /\ Start < HeapStart
        /\ HeapStart < EndAddress /\ n >= xHeapStructSize /\ HeapStart + n = EndAddress
    BY HeapBounds, AddressFacts
  <2> HIDE DEF n
  <2>4. /\ NextFreeBlock'[HeapStart] = EndAddress /\ NextFreeBlock'[EndAddress] = Null
        /\ xBlockSize'[HeapStart] = n
        /\ ~Allocated'[HeapStart] /\ ~Allocated'[EndAddress]
    <3>1. HeapStart # EndAddress
      BY <2>3
    <3> QED
      BY <2>1, <2>2, <2>3, <3>1 DEF TypeOK
  <2>5. FreeBlocks' = {HeapStart}
    <3>1. HeapStart # EndAddress
      BY <2>3
    <3> QED
      BY <2>1, <2>2, <2>4, <3>1, <1>2 DEF FreeBlocks
  <2>6. BlocksTile'
    BY <2>2, <2>3, <2>4 DEF BlocksTile
  <2>7. FreeListSorted'
    BY <2>2, <2>3, <2>4, <2>5 DEF FreeListSorted, IsSuccessor
  <2>8. FreeBlocksMerged'
    BY <2>3, <2>4, <2>5 DEF FreeBlocksMerged
  <2>9. HeldAreAllocated'
    BY <2>1, <2>2, <2>4 DEF HeldAreAllocated
  <2> QED
    BY <1>4, <2>2, <2>3, <2>6, <2>7, <2>8, <2>9 DEF Shape
<1> QED
  BY <1>3, <1>4

\* The steps that do not touch the heap.
Passive(t) ==
  \/ MallocStart(t) \/ CallocStart(t) \/ MallocWalk(t) \/ MallocFails(t)
  \/ FreeSuspend(t) \/ FreeWalk(t)
  \/ StatsSuspend(t) \/ StatsWalk(t) \/ StatsReturn(t)

\* They leave it as it was.
LEMMA PassiveShape ==
  ASSUME HeapInv, NEW t \in Tasks, Passive(t)
  PROVE  /\ Shape' /\ FreeBlocks' = FreeBlocks /\ BeingFreed' = BeingFreed
         /\ UNCHANGED <<heapVars, historyVars>>
<1>0. pc \in [Tasks -> PcLabels]
  BY DEF HeapInv, TypeOK
<1>1. UNCHANGED <<heapVars, historyVars>>
  BY DEF Passive, MallocStart, CallocStart, MallocWalk, MallocFails, FreeSuspend, FreeWalk,
     StatsSuspend, StatsWalk, StatsReturn
<1>2. BeingFreed' = BeingFreed
  <2>1. CASE MallocStart(t) \/ CallocStart(t) \/ StatsSuspend(t)
    <3>1. /\ pc[t] = "app" /\ Link' = Link
          /\ pc' = [pc EXCEPT ![t] = "malloc"] \/ pc' = [pc EXCEPT ![t] = "stats"]
      BY <2>1 DEF MallocStart, CallocStart, StatsSuspend, taskVars
    <3> QED
      BY <3>1, BeingFreedSame DEF Freeing
  <2>2. CASE MallocWalk(t) \/ FreeWalk(t) \/ StatsWalk(t)
    BY <2>2 DEF MallocWalk, FreeWalk, StatsWalk, BeingFreed, taskVars
  <2>3. CASE MallocFails(t) \/ StatsReturn(t)
    <3>1. /\ pc[t] \in {"walk", "stats"} /\ Link' = [Link EXCEPT ![t] = Null]
          /\ pc' = [pc EXCEPT ![t] = "app"]
      BY <2>3 DEF MallocFails, StatsReturn, Return
    <3> QED
      BY <3>1, BeingFreedSame DEF Freeing
  <2>4. CASE FreeSuspend(t)
    <3>1. pc[t] = "free" /\ pc' = [pc EXCEPT ![t] = "insert"] /\ Link' = Link
      BY <2>4 DEF FreeSuspend, taskVars
    <3>2. \A u \in Tasks : pc'[u] \in Freeing <=> pc[u] \in Freeing
      BY <1>0, <3>1 DEF Freeing
    <3> QED
      BY <3>1, <3>2 DEF BeingFreed, Freeing
  <2> QED
    BY <2>1, <2>2, <2>3, <2>4 DEF Passive
<1>3. FreeBlocks' = FreeBlocks
  BY <1>1, <1>2, FreeBlocksSame DEF heapVars, historyVars
<1> QED
  BY <1>1, <1>2, <1>3, ShapeUnchanged DEF HeapInv

\* A step either leaves the heap alone or is one of these.
LEMMA StepCases ==
  ASSUME NEW t \in Tasks, Step(t)
  PROVE  \/ Passive(t) \/ MallocSuspend(t) \/ MallocWhole(t) \/ MallocSplit(t)
         \/ FreeStart(t) \/ FreeInsert(t)
  BY DEF Step, InSection, Passive

\* Every step keeps the structure of the heap.
LEMMA ShapeStep == ASSUME HeapInv, NEW t \in Tasks, Step(t) PROVE Shape'
  BY StepCases, PassiveShape, SuspendShape, WholeShape, SplitShape, FreeStartShape, InsertShape

\* Every step keeps the invariant of sections.
LEMMA SectionStep == ASSUME HeapInv, NEW t \in Tasks, Step(t) PROVE SectionInv'
<1>0. pc \in [Tasks -> PcLabels] /\ SectionInv
  BY DEF HeapInv, TypeOK
<1>1. ASSUME NEW u \in Tasks PROVE (pc[u] \in InASection <=> section = u)'
  <2>1. CASE u = t
    BY <2>1, StepSection, Heap4Assumption
  <2>2. CASE u # t
    <3>1. pc'[u] \notin InASection /\ section' # u
      BY <2>2, StepOthers, StepSection, Heap4Assumption
    <3> QED
      BY <3>1
  <2> QED
    BY <2>1, <2>2
<1>2. ASSUME End' = Null
      PROVE  /\ blocks' = {} /\ DOMAIN held' = {}
             /\ \A u \in Tasks : pc'[u] \in {"app", "malloc", "stats"}
  <2>1. CASE Passive(t)
    <3>1. End = Null /\ blocks' = blocks /\ held' = held
      BY <1>2, <2>1, PassiveShape DEF heapVars, historyVars
    <3>2. \A u \in Tasks : pc[u] \in {"app", "malloc", "stats"}
      BY <1>0, <3>1 DEF SectionInv
    <3>3. pc'[t] \in {"app", "malloc", "stats"}
      BY <1>0, <2>1, <3>2 DEF Passive, MallocStart, CallocStart, MallocWalk, MallocFails,
         FreeSuspend, FreeWalk, StatsSuspend, StatsWalk, StatsReturn, Return
    <3> QED
      BY <1>0, <3>1, <3>2, <3>3, StepOthers DEF SectionInv
  <2>2. CASE MallocSuspend(t)
    BY <1>2, <2>2, SuspendShape
  <2>3. CASE MallocWhole(t) \/ MallocSplit(t) \/ FreeInsert(t)
    <3>1. End = Null /\ pc[t] \in {"walk", "insert"}
      BY <1>2, <2>3 DEF MallocWhole, MallocSplit, FreeInsert, HandOut
    <3> QED
      BY <1>0, <3>1 DEF SectionInv
  <2>4. CASE FreeStart(t)
    <3>1. End = Null /\ DOMAIN held # {}
      BY <1>2, <2>4 DEF FreeStart
    <3> QED
      BY <1>0, <3>1 DEF SectionInv
  <2> QED
    BY <2>1, <2>2, <2>3, <2>4, StepCases
<1> QED
  BY <1>1, <1>2 DEF SectionInv, InASection

\* Every step keeps the invariant of what is being freed.
LEMMA LinkStep == ASSUME HeapInv, NEW t \in Tasks, Step(t) PROVE LinkInv'
<1>0. TypeOK /\ SectionInv /\ LinkInv
  BY DEF HeapInv
<1> DEFINE Mine(u) == /\ Link[u] \in blocks \ {End}
                      /\ ~Allocated[Link[u]]
                      /\ \A v \in Tasks \ {u} : pc[v] \in Freeing => Link[v] # Link[u]
<1>1. \A u \in Tasks : pc[u] \in Freeing =>
        Mine(u) /\ Link[u] \in Addresses /\ Link[u] \notin FreeBlocks /\ End # Null
  BY <1>0 DEF LinkInv, Freeing, TypeOK, SectionInv, FreeBlocks, BeingFreed
<1>2. \A u \in Tasks \ {t} : pc'[u] = pc[u] /\ Link'[u] = Link[u]
  BY StepOthers
<1>3. SUFFICES /\ End' # Null => ~Allocated'[End']
               /\ \A u \in Tasks : pc'[u] \in Freeing => Mine(u)'
  BY DEF LinkInv, Freeing
<1>4. CASE Passive(t)
  <2>1. UNCHANGED <<End, Allocated, blocks>> /\ BeingFreed' = BeingFreed
    BY <1>4, PassiveShape DEF heapVars, historyVars
  <2>2. pc'[t] \in Freeing => pc[t] \in Freeing /\ Link'[t] = Link[t]
    BY <1>0, <1>4 DEF Passive, MallocStart, CallocStart, MallocWalk, MallocFails, FreeSuspend,
       FreeWalk, StatsSuspend, StatsWalk, StatsReturn, Return, Freeing, taskVars, TypeOK
  <2>3. \A u \in Tasks : pc'[u] \in Freeing => pc[u] \in Freeing /\ Link'[u] = Link[u]
    BY <1>2, <2>2
  <2> QED
    BY <1>0, <1>1, <2>1, <2>3 DEF LinkInv
<1>5. CASE MallocSuspend(t)
  <2>1. pc[t] = "malloc" /\ pc'[t] \notin Freeing
    BY <1>0, <1>5 DEF MallocSuspend, TypeOK, Freeing
  <2>2. CASE End # Null
    <3>1. UNCHANGED <<End, Allocated, blocks>>
      BY <1>5, <2>2 DEF MallocSuspend, heapVars
    <3>2. \A u \in Tasks : pc'[u] \in Freeing => pc[u] \in Freeing /\ Link'[u] = Link[u]
      BY <1>2, <2>1
    <3> QED
      BY <1>0, <1>1, <3>1, <3>2 DEF LinkInv
  <2>3. CASE End = Null
    <3>1. ~Allocated'[End']
      BY <1>0, <1>5, <2>3, AddressFacts DEF MallocSuspend, HeapInit, TypeOK
    <3>2. \A u \in Tasks : pc'[u] \notin Freeing
      BY <1>0, <1>2, <2>1, <2>3 DEF SectionInv, Freeing
    <3> QED
      BY <3>1, <3>2
  <2> QED
    BY <2>2, <2>3
<1>6. CASE MallocWhole(t) \/ MallocSplit(t)
  <2>1. Taking(t) /\ Return(t) /\ End' = End
    BY <1>6 DEF MallocWhole, MallocSplit, Taking, HandOut
  <2>2. pc'[t] \notin Freeing /\ Block \in FreeBlocks /\ Block # End /\ Block \in Addresses
        /\ End \in Addresses /\ End # Null
    BY <1>0, <2>1, TakingFacts, AddressFacts DEF Return, TypeOK, Freeing, Taking
  <2>3. blocks \subseteq blocks' /\ \A c \in Addresses \ {Block} : ~Allocated[c] => ~Allocated'[c]
    <3>1. CASE MallocWhole(t)
      BY <1>0, <3>1 DEF MallocWhole, TypeOK
    <3>2. CASE MallocSplit(t)
      BY <1>0, <3>2 DEF MallocSplit, TypeOK
    <3> QED
      BY <1>6, <3>1, <3>2
  <2>4. \A u \in Tasks : pc'[u] \in Freeing => pc[u] \in Freeing /\ Link'[u] = Link[u]
    BY <1>2, <2>2
  <2>5. ~Allocated'[End']
    BY <1>0, <2>1, <2>2, <2>3 DEF LinkInv
  <2> QED
    BY <1>1, <2>1, <2>2, <2>3, <2>4, <2>5
<1>7. CASE FreeStart(t)
  <2>1. PICK pv \in DOMAIN held :
          /\ Allocated' = [Allocated EXCEPT ![pv - xHeapStructSize] = FALSE]
          /\ Link' = [Link EXCEPT ![t] = pv - xHeapStructSize]
    BY <1>7 DEF FreeStart
  <2> DEFINE b == pv - xHeapStructSize
  <2>2. b \in blocks \ {End} /\ b \in Addresses /\ Allocated[b]
    BY HeldFacts
  <2>3. UNCHANGED <<End, blocks>> /\ pc'[t] = "free" /\ pc[t] = "app" /\ Link'[t] = b
    BY <1>0, <1>7, <2>1 DEF FreeStart, TypeOK
  <2> HIDE DEF b
  <2>4. ~Allocated'[b] /\ \A c \in Addresses : ~Allocated[c] => ~Allocated'[c]
    BY <1>0, <2>1, <2>2 DEF TypeOK, b
  <2>5. \A u \in Tasks \ {t} : pc'[u] \in Freeing =>
          pc[u] \in Freeing /\ Link'[u] = Link[u] /\ Link[u] # b
    BY <1>1, <1>2, <2>2
  <2>6. End' # Null => ~Allocated'[End']
    BY <1>0, <2>3, <2>4, AddressFacts DEF LinkInv, TypeOK
  <2> QED
    BY <1>1, <2>2, <2>3, <2>4, <2>5, <2>6
<1>8. CASE FreeInsert(t)
  <2>1. Placing(t) /\ Return(t) /\ UNCHANGED <<End, Allocated>>
    BY <1>8 DEF FreeInsert, Placing
  <2>2. pc'[t] \notin Freeing /\ pc[t] \in Freeing
    BY <1>0, <2>1 DEF Return, TypeOK, Freeing, Placing
  <2>3. NextOf(Previous) \in FreeBlocks \cup {End}
    BY <2>1, PlacingFacts
  <2>4. blocks \ {Link[t], NextOf(Previous)} \subseteq blocks'
    BY <1>8 DEF FreeInsert
  <2>5. \A u \in Tasks : pc'[u] \in Freeing =>
          /\ pc[u] \in Freeing /\ Link'[u] = Link[u] /\ u # t
          /\ Link[u] # Link[t] /\ Link[u] # NextOf(Previous)
    BY <1>1, <1>2, <2>2, <2>3
  <2> QED
    BY <1>0, <1>1, <2>1, <2>4, <2>5 DEF LinkInv
<1> QED
  BY <1>4, <1>5, <1>6, <1>7, <1>8, StepCases

\* What one task's walk has seen, and what it was asked for.
Walk(t) ==
  /\ pc[t] \in {"malloc", "walk"} /\ xWantedSize[t] # 0 =>
       /\ asked[t] \in AllAsked \ {0}
       /\ asked[t] + xHeapStructSize <= xWantedSize[t]
  /\ pc[t] = "walk" =>
       /\ End # Null
       /\ xWantedSize[t] # 0
       /\ Previous \in FreeBlocks \cup {Start}
       /\ Block = NextOf(Previous)
       /\ \A b \in FreeBlocks : b < Block => xBlockSize[b] < xWantedSize[t]
  /\ pc[t] = "insert" =>
       /\ Previous \in FreeBlocks \cup {Start}
       /\ Previous < Link[t]

\* A request leaves a wanted size that has room for it.
LEMMA WalkRequest ==
  ASSUME HeapInv, NEW t \in Tasks, MallocStart(t) \/ CallocStart(t) PROVE Walk(t)'
<1>0. /\ pc \in [Tasks -> PcLabels] /\ asked \in [Tasks -> Nat]
      /\ xWantedSize \in [Tasks -> 0 .. SizeMax]
  BY DEF HeapInv, TypeOK
<1>1. PICK n \in AllAsked : n \in 0 .. SizeMax /\ asked' = [asked EXCEPT ![t] = n]
                            /\ xWantedSize' = [xWantedSize EXCEPT ![t] = WantedSize(n)]
  <2>1. CASE MallocStart(t)
    <3>1. PICK n \in Requests : /\ asked' = [asked EXCEPT ![t] = n]
                                /\ xWantedSize' = [xWantedSize EXCEPT ![t] = WantedSize(n)]
      BY <2>1 DEF MallocStart
    <3>2. n \in AllAsked /\ n \in 0 .. SizeMax
      BY Heap4Assumption DEF AllAsked
    <3> QED
      BY <3>1, <3>2
  <2>2. CASE CallocStart(t)
    <3>1. PICK xNum \in Requests, xSize \in Requests :
            /\ ~MultiplyWillOverflow(xNum, xSize)
            /\ asked' = [asked EXCEPT ![t] = xNum * xSize]
            /\ xWantedSize' = [xWantedSize EXCEPT
                 ![t] = WantedSize((xNum * xSize) % (SizeMax + 1))]
      BY <2>2 DEF CallocStart
    <3>2. xNum * xSize \in 0 .. SizeMax /\ (xNum * xSize) % (SizeMax + 1) = xNum * xSize
      BY <3>1, ProductFits, Heap4Assumption
    <3>3. xNum * xSize \in AllAsked
      BY DEF AllAsked
    <3> QED
      BY <3>1, <3>2, <3>3
  <2> QED
    BY <2>1, <2>2
<1>2. pc'[t] = "malloc"
  BY <1>0 DEF MallocStart, CallocStart
<1>3. asked'[t] = n /\ xWantedSize'[t] = WantedSize(n)
  BY <1>0, <1>1
<1>4. WantedSize(n) = 0 \/ (n # 0 /\ n + xHeapStructSize <= WantedSize(n))
  BY <1>1, WantedSizeFits
<1> QED
  BY <1>1, <1>2, <1>3, <1>4 DEF Walk

\* The walk begins at the start of the list.
LEMMA WalkBegins == ASSUME HeapInv, NEW t \in Tasks, MallocSuspend(t) PROVE Walk(t)'
<1>0. pc \in [Tasks -> PcLabels]
  BY DEF HeapInv, TypeOK
<1>1. CASE pc'[t] = "walk"
  <2>1. /\ pc[t] = "malloc" /\ Previous' = Start /\ Block' = xStart'
        /\ UNCHANGED taskVars /\ xWantedSize[t] > 0
    BY <1>0, <1>1 DEF MallocSuspend
  <2>2. xWantedSize[t] # 0
    BY <2>1 DEF HeapInv, TypeOK
  <2>3. asked[t] \in AllAsked \ {0} /\ asked[t] + xHeapStructSize <= xWantedSize[t]
    BY <2>1, <2>2 DEF HeapInv, WalkInv
  <2>4. Shape' /\ End' # Null /\ TypeOK'
    BY SuspendShape, TypeStep DEF Step
  <2>5. ASSUME NEW b \in FreeBlocks', b < xStart' PROVE FALSE
    <3>1. b \in Addresses
      BY <2>4 DEF FreeBlocks, TypeOK
    <3>2. Start < b
      BY <3>1, AddressFacts
    <3> QED
      BY <2>4, <2>5, <3>2 DEF Shape, FreeListSorted, IsSuccessor
  <2> QED
    BY <1>1, <2>1, <2>2, <2>3, <2>4, <2>5 DEF Walk, NextOf, taskVars
<1>2. CASE pc'[t] # "walk"
  <2>1. pc'[t] = "app"
    BY <1>0, <1>2 DEF MallocSuspend
  <2> QED
    BY <2>1 DEF Walk
<1> QED
  BY <1>1, <1>2

\* The walk passes a block only if it is too small.
LEMMA WalkGoes == ASSUME HeapInv, NEW t \in Tasks, MallocWalk(t) PROVE Walk(t)'
<1>1. /\ pc[t] = "walk" /\ WalkGoesOn(t) /\ Previous' = Block /\ Block' = NextFreeBlock[Block]
      /\ UNCHANGED <<pc, taskVars, heapVars>>
  BY DEF MallocWalk
<1>2. Walk(t) /\ FreeListSorted
  BY DEF HeapInv, WalkInv, Walk, Shape
<1>3. FreeBlocks' = FreeBlocks
  BY PassiveShape DEF Passive
<1>4. /\ End # Null /\ Previous \in FreeBlocks \cup {Start} /\ Block = NextOf(Previous)
      /\ \A b \in FreeBlocks : b < Block => xBlockSize[b] < xWantedSize[t]
  BY <1>1, <1>2 DEF Walk
<1>5. Block \in FreeBlocks
  <2>1. Block \in FreeBlocks \cup {End}
    BY <1>4, ListFacts
  <2> QED
    BY <1>1, <1>2, <1>4, <2>1 DEF WalkGoesOn, FreeListSorted
<1>6. Block # Start /\ NextOf(Block) = NextFreeBlock[Block] /\ Block \in Int
      /\ NextOf(Block) \in Int
      /\ \A d \in FreeBlocks : d \in Int /\ (d <= Block \/ NextOf(Block) <= d)
  <2>1. Block \in Addresses /\ \A d \in FreeBlocks : d \in Int
    BY <1>5, AddressFacts DEF FreeBlocks, HeapInv, TypeOK
  <2>2. NextOf(Block) = NextFreeBlock[Block] /\ Block # Start /\ Block \in Int
    BY <2>1, AddressFacts DEF NextOf
  <2>3. NextOf(Block) \in Addresses /\ \A d \in FreeBlocks : d <= Block \/ NextOf(Block) <= d
    BY <1>4, <1>5, ListFacts
  <2>4. \A a \in Addresses : a \in Int
    BY AddressFacts
  <2> QED
    BY <2>1, <2>2, <2>3, <2>4
<1>7. ASSUME NEW b \in FreeBlocks, b < NextOf(Block) PROVE xBlockSize[b] < xWantedSize[t]
  BY <1>1, <1>4, <1>6, <1>7 DEF WalkGoesOn
<1> QED
  BY <1>1, <1>2, <1>3, <1>4, <1>5, <1>6, <1>7 DEF Walk, NextOf, taskVars, heapVars

\* The walk of InsertBlockIntoFreeList stays below the block to insert.
LEMMA WalkPlaces == ASSUME HeapInv, NEW t \in Tasks, FreeWalk(t) PROVE Walk(t)'
<1>1. /\ pc[t] = "insert" /\ NextOf(Previous) < Link[t] /\ Previous' = NextOf(Previous)
      /\ UNCHANGED <<pc, taskVars>>
  BY DEF FreeWalk
<1>2. FreeBlocks' = FreeBlocks
  BY PassiveShape DEF Passive
<1>3. Previous \in FreeBlocks \cup {Start} /\ End # Null /\ Link[t] \in Addresses
      /\ End = EndAddress
  BY <1>1 DEF HeapInv, WalkInv, LinkInv, SectionInv, TypeOK
<1>4. NextOf(Previous) \in FreeBlocks \cup {End}
  BY <1>3, ListFacts
<1>5. NextOf(Previous) # End
  <2>1. \A a \in Addresses : a \in Int /\ a <= EndAddress
    BY AddressFacts
  <2>2. Link[t] \in Int /\ EndAddress \in Int /\ Link[t] <= EndAddress
    BY <1>3, <2>1, HeapBounds
  <2> QED
    BY <1>1, <1>3, <2>2
<1> QED
  BY <1>1, <1>2, <1>4, <1>5 DEF Walk, taskVars

\* Every step keeps what the walks know.
LEMMA WalkStep == ASSUME HeapInv, NEW t \in Tasks, Step(t) PROVE WalkInv'
<1>0. pc \in [Tasks -> PcLabels]
  BY DEF HeapInv, TypeOK
<1>1. SUFFICES \A u \in Tasks : Walk(u)'
  BY DEF WalkInv, Walk
<1>2. ASSUME NEW u \in Tasks \ {t} PROVE Walk(u)'
  <2>1. /\ pc[u] \notin InASection /\ pc'[u] = pc[u] /\ asked'[u] = asked[u]
        /\ xWantedSize'[u] = xWantedSize[u]
    BY StepOthers
  <2>2. Walk(u)
    BY DEF HeapInv, WalkInv, Walk
  <2> QED
    BY <2>1, <2>2 DEF Walk, InASection
<1>3. Walk(t)'
  <2>1. CASE pc'[t] \in {"app", "free", "stats"}
    BY <2>1 DEF Walk
  <2>2. CASE MallocStart(t) \/ CallocStart(t)
    BY <2>2, WalkRequest
  <2>3. CASE MallocSuspend(t)
    BY <2>3, WalkBegins
  <2>4. CASE MallocWalk(t)
    BY <2>4, WalkGoes
  <2>5. CASE FreeWalk(t)
    BY <2>5, WalkPlaces
  <2>6. CASE FreeSuspend(t)
    <3>1. pc'[t] = "insert" /\ Previous' = Start /\ Link' = Link /\ pc[t] = "free"
      BY <1>0, <2>6 DEF FreeSuspend, taskVars
    <3>2. Link[t] \in Addresses
      BY <3>1 DEF HeapInv, LinkInv, TypeOK
    <3> QED
      BY <3>1, <3>2, AddressFacts DEF Walk
  <2>7. CASE FreeStart(t) \/ StatsSuspend(t) \/ StatsWalk(t) \/ Return(t)
    BY <1>0, <2>1, <2>7 DEF FreeStart, StatsSuspend, StatsWalk, Return
  <2> QED
    BY <2>2, <2>3, <2>4, <2>5, <2>6, <2>7 DEF Step, InSection, MallocFails, MallocWhole,
       MallocSplit, FreeInsert, StatsReturn, HandOut
<1> QED
  BY <1>2, <1>3

\* A restart of the heap keeps the invariant.
LEMMA ResetStep == HeapInv /\ HeapResetState => HeapInv'
<1> SUFFICES ASSUME HeapInv, HeapResetState PROVE HeapInv'
  OBVIOUS
<1>0. TypeOK /\ SectionInv /\ LinkInv /\ WalkInv
  BY DEF HeapInv
<1>1. /\ End' = Null /\ blocks' = {} /\ held' = [p \in {} |-> 0]
      /\ xFreeBytesRemaining' = 0 /\ xMinimumEverFreeBytesRemaining' = 0
      /\ UNCHANGED <<xStart, NextFreeBlock, xBlockSize, Allocated, section, pc, taskVars, walkVars>>
      /\ \A t \in Tasks : pc[t] = "app"
  BY DEF HeapResetState
<1>2. TypeOK'
  BY <1>0, <1>1 DEF TypeOK, taskVars, walkVars
<1>3. SectionInv' /\ LinkInv' /\ WalkInv'
  BY <1>0, <1>1 DEF SectionInv, LinkInv, WalkInv
<1>4. FreeBlocks' = {}
  BY <1>1 DEF FreeBlocks
<1>5. Shape'
  BY <1>1, <1>4 DEF Shape, BlocksTile, FreeListSorted, FreeBlocksMerged, HeldAreAllocated
<1> QED
  BY <1>2, <1>3, <1>5 DEF HeapInv

\* A stuttering step keeps the invariant.
LEMMA HeapStutter == HeapInv /\ UNCHANGED vars => HeapInv'
<1> SUFFICES ASSUME HeapInv, UNCHANGED vars PROVE HeapInv'
  OBVIOUS
<1>1. FreeBlocks' = FreeBlocks
  BY DEF FreeBlocks, BeingFreed, vars, heapVars, taskVars, historyVars
<1>2. TypeOK'
  BY DEF HeapInv, TypeOK, vars, heapVars, countVars, taskVars, walkVars, historyVars
<1>3. SectionInv' /\ LinkInv'
  BY DEF HeapInv, SectionInv, LinkInv, vars, heapVars, taskVars, historyVars
<1>4. WalkInv'
  BY <1>1 DEF HeapInv, WalkInv, NextOf, vars, heapVars, taskVars, walkVars
<1>5. Shape'
  BY <1>1, ShapeUnchanged DEF HeapInv, vars
<1> QED
  BY <1>2, <1>3, <1>4, <1>5 DEF HeapInv

\* The invariant is inductive.
LEMMA HeapInvStep == HeapInv /\ [Next]_vars => HeapInv'
<1>1. ASSUME HeapInv, NEW t \in Tasks, Step(t) PROVE HeapInv'
  BY <1>1, TypeStep, SectionStep, LinkStep, WalkStep, ShapeStep DEF HeapInv
<1> QED
  BY <1>1, ResetStep, HeapStutter DEF Next

-----------------------------------------------------------------------------
(* The theorems. *)

\* The invariant holds throughout.
LEMMA HeapInvariant == Spec => []HeapInv
<1> QED
  BY HeapInvInit, HeapInvStep, PTL DEF Spec

\* Every variable keeps its type: no walk leaves the heap, nothing handed out lies
\* outside it, and no wanted size wraps (heap_4.c 142-171).
THEOREM TypeCorrect == Spec => []TypeOK
<1>1. HeapInv => TypeOK
  BY DEF HeapInv
<1> QED
  BY <1>1, HeapInvariant, PTL

\* Whatever is split and merged, the blocks cover the heap without a gap or an overlap
\* (heap_4.c 211-226, 388-420).
THEOREM HeapIsTiled == Spec => []BlocksTile
<1>1. HeapInv => BlocksTile
  BY DEF HeapInv, Shape
<1> QED
  BY <1>1, HeapInvariant, PTL

\* The list holds exactly the free blocks, in address order (heap_4.c 207, 374-424).
THEOREM ListIsSorted == Spec => []FreeListSorted
<1>1. HeapInv => FreeListSorted
  BY DEF HeapInv, Shape
<1> QED
  BY <1>1, HeapInvariant, PTL

\* No two blocks of the list are neighbours (heap_4.c 388-412).
THEOREM NeighboursAreMerged == Spec => []FreeBlocksMerged
<1>1. HeapInv => FreeBlocksMerged
  BY DEF HeapInv, Shape
<1> QED
  BY <1>1, HeapInvariant, PTL

\* What is held is exactly the allocated blocks, each large enough and ready for
\* vPortFree (heap_4.c 135-258, 271-276).
THEOREM HeldIsAllocated == Spec => []HeldAreAllocated
<1>1. HeapInv => HeldAreAllocated
  BY DEF HeapInv, Shape
<1> QED
  BY <1>1, HeapInvariant, PTL

-----------------------------------------------------------------------------
(* The heap is an allocator. *)

\* The bytes handed out lie in the heap, and in no piece that is held.
LEMMA HandOutAllocates ==
  ASSUME HeapInv, NEW t \in Tasks, Taking(t),
         held' = [p \in DOMAIN held \cup {Block + xHeapStructSize} |->
                    IF p = Block + xHeapStructSize THEN asked[t] ELSE held[p]]
  PROVE  Memory!Next
<1> DEFINE p == Block + xHeapStructSize
           n == asked[t]
<1>1. /\ Block \in blocks /\ Block # End /\ ~Allocated[Block] /\ Block \in Addresses
      /\ xBlockSize[Block] \in Nat /\ n \in AllAsked \ {0} /\ n \in Nat \ {0}
      /\ xWantedSize[t] \in Nat
      /\ n + xHeapStructSize <= xWantedSize[t] /\ xWantedSize[t] <= xBlockSize[Block]
  BY TakingFacts DEF FreeBlocks
<1>2. Block + xBlockSize[Block] \in Addresses
  BY <1>1, BlockFacts DEF HeapInv, TypeOK
<1>3. /\ HeapStart \in Nat /\ EndAddress \in Nat /\ Block \in Nat
      /\ HeapStart <= Block /\ Block + xBlockSize[Block] <= EndAddress
      /\ xHeapStructSize \in Nat /\ xHeapStructSize > 0
  BY <1>1, <1>2, AddressFacts, HeapBounds
<1>4. p \in Int /\ HeapStart <= p /\ p + n <= Block + xBlockSize[Block] /\ p + n <= EndAddress
  BY <1>1, <1>3
<1>5. p \notin DOMAIN held
  <2> SUFFICES ASSUME p \in DOMAIN held PROVE FALSE
    OBVIOUS
  <2>1. Allocated[p - xHeapStructSize]
    BY HeldFacts
  <2>2. p - xHeapStructSize = Block
    BY <1>3
  <2> QED
    BY <1>1, <2>1, <2>2
<1>6. ASSUME NEW q \in DOMAIN held
      PROVE  q \in Int /\ held[q] \in Nat /\ (p + n <= q \/ q + held[q] <= p)
  <2> DEFINE c == q - xHeapStructSize
  <2>1. /\ c \in blocks /\ c # End /\ c \in Addresses /\ Allocated[c]
        /\ q \in Int /\ held[q] \in Nat /\ held[q] + xHeapStructSize <= xBlockSize[c]
    BY HeldFacts
  <2>2. c \in Nat /\ xBlockSize[c] \in Nat /\ q = c + xHeapStructSize
    BY <1>3, <2>1, AddressFacts DEF HeapInv, TypeOK
  <2> HIDE DEF c
  <2>3. c # Block
    BY <1>1, <2>1
  <2>4. CASE c < Block
    <3>1. c + xBlockSize[c] <= Block
      BY <1>1, <2>1, <2>4, BlocksApart
    <3> QED
      BY <1>3, <2>1, <2>2, <3>1
  <2>5. CASE Block < c
    <3>1. Block + xBlockSize[Block] <= c
      BY <1>1, <2>1, <2>5, BlocksApart
    <3> QED
      BY <1>1, <1>3, <1>4, <2>1, <2>2, <3>1
  <2> QED
    BY <1>3, <2>2, <2>3, <2>4, <2>5
<1> HIDE DEF p
<1>7. Memory!Bytes(p, n) \subseteq Addresses /\ p \in Addresses
  BY <1>1, <1>3, <1>4 DEF Memory!Bytes, Addresses
<1>8. \A q \in DOMAIN held : Memory!Bytes(p, n) \cap Memory!Bytes(q, held[q]) = {}
  BY <1>1, <1>4, <1>6 DEF Memory!Bytes
<1>9. Memory!Alloc(p, n)
  BY <1>5, <1>7, <1>8 DEF Memory!Alloc, p
<1> QED
  BY <1>1, <1>7, <1>9 DEF Memory!Next

\* Every step of the heap is one of an allocator, or changes nothing that is held.
LEMMA StepAllocates ==
  ASSUME HeapInv, [Next]_vars PROVE [Memory!Next]_held
<1>1. ASSUME NEW t \in Tasks, MallocWhole(t) \/ MallocSplit(t) PROVE Memory!Next
  BY <1>1, HandOutAllocates DEF MallocWhole, MallocSplit, HandOut, Taking
<1>2. ASSUME NEW t \in Tasks, FreeStart(t) PROVE Memory!Next
  <2>1. PICK pv \in DOMAIN held : held' = [p \in DOMAIN held \ {pv} |-> held[p]]
    BY <1>2 DEF FreeStart
  <2> QED
    BY <2>1 DEF Memory!Next, Memory!Free
<1>3. CASE HeapResetState
  BY <1>3 DEF HeapResetState, Memory!Next, Memory!Restart
<1>4. ASSUME NEW t \in Tasks, Step(t), ~MallocWhole(t), ~MallocSplit(t), ~FreeStart(t)
      PROVE  held' = held
  BY <1>4 DEF Step, InSection, MallocStart, CallocStart, MallocSuspend, FreeSuspend, StatsSuspend,
     MallocWalk, MallocFails, FreeWalk, FreeInsert, StatsWalk, StatsReturn, historyVars
<1>5. CASE UNCHANGED vars
  BY <1>5 DEF vars, historyVars
<1> QED
  BY <1>1, <1>2, <1>3, <1>4, <1>5 DEF Next

\* What the application holds never overlaps and never leaves the heap: pvPortMalloc,
\* pvPortCalloc and vPortFree implement an allocator (heap_4.c 135-302).
THEOREM HeapImplementsAllocator == Spec => ImplementsAllocator
<1>1. Init => Memory!Init
  BY DEF Init, Memory!Init
<1>2. HeapInv /\ [Next]_vars => [Memory!Next]_held
  BY StepAllocates
<1> QED
  BY <1>1, <1>2, HeapInvariant, PTL DEF Spec, ImplementsAllocator, Memory!Spec

-----------------------------------------------------------------------------
(* The counter of free bytes. *)

\* A set of addresses is finite.
LEMMA AddressSets ==
  ASSUME NEW S \in SUBSET Addresses PROVE IsFiniteSet(S) /\ Cardinality(S) \in Nat
<1>1. IsFiniteSet(Addresses)
  BY HeapBounds, FS_Interval DEF Addresses
<1>2. IsFiniteSet(S)
  BY <1>1, FS_Subset
<1> QED
  BY <1>2, FS_CardinalityType

\* As many bytes are added as the piece that is added has.
LEMMA PieceAdded ==
  ASSUME NEW S \in SUBSET Addresses, NEW lo \in Int, NEW n \in Nat,
         \A a \in S : a < lo \/ lo + n <= a
  PROVE  Cardinality(S \cup (lo .. lo + n - 1)) = Cardinality(S) + n
<1> DEFINE T == lo .. lo + n - 1
<1>1. IsFiniteSet(T) /\ Cardinality(T) = n
  BY FS_Interval
<1>2. S \cap T = {}
  BY AddressFacts
<1>3. IsFiniteSet(S) /\ Cardinality(S) \in Nat
  BY AddressSets
<1>4. Cardinality(S \cap T) = 0
  BY <1>2, FS_EmptySet
<1> HIDE DEF T
<1>5. Cardinality(S \cup T) = Cardinality(S) + Cardinality(T) - Cardinality(S \cap T)
  BY <1>1, <1>3, FS_Union
<1>6. Cardinality(S \cup T) = Cardinality(S) + n
  BY <1>1, <1>3, <1>4, <1>5
<1> QED
  BY <1>6 DEF T

\* A block whose bytes are free.
Counted == FreeBlocks \cup Inserting
Covers(b, a) == b <= a /\ a < b + xBlockSize[b]

\* The free bytes are those of blocks below the end marker.
LEMMA CountedFacts ==
  ASSUME HeapInv
  PROVE  /\ Counted \subseteq blocks \ {End}
         /\ FreeBytes = {a \in Addresses : \E b \in Counted : Covers(b, a)}
         /\ \A b \in Counted : /\ b \in Addresses /\ b \in Int /\ xBlockSize[b] \in Nat
                               /\ \A a \in Int : Covers(b, a) => a \in Addresses
<1>1. Counted \subseteq blocks \ {End}
  BY DEF HeapInv, LinkInv, Counted, FreeBlocks, Inserting
<1>2. ASSUME NEW b \in Counted
      PROVE  /\ b \in Addresses /\ b \in Int /\ xBlockSize[b] \in Nat
             /\ \A a \in Int : Covers(b, a) => a \in Addresses
  <2>1. /\ b \in Addresses /\ b \in Nat /\ xBlockSize[b] \in Nat
        /\ b + xBlockSize[b] \in Addresses
    BY <1>1, BlockFacts, AddressFacts DEF HeapInv, TypeOK
  <2>2. ASSUME NEW a \in Int, Covers(b, a) PROVE a \in Addresses
    BY <2>1, <2>2, HeapBounds DEF Covers, Addresses
  <2> QED
    BY <2>1, <2>2
<1>3. FreeBytes = {a \in Addresses : \E b \in Counted : Covers(b, a)}
  BY DEF FreeBytes, Counted, Covers
<1> QED
  BY <1>1, <1>2, <1>3

\* No byte is in two blocks.
LEMMA CoversOne ==
  ASSUME HeapInv, NEW b \in blocks \ {End}, NEW c \in Counted, b # c,
         NEW a \in Int, Covers(c, a)
  PROVE  a < b \/ b + xBlockSize[b] <= a
<1>1. /\ c \in blocks \ {End} /\ c \in Int /\ xBlockSize[c] \in Nat
      /\ b \in Int /\ xBlockSize[b] \in Nat
  <2>1. c \in blocks \ {End} /\ c \in Int /\ xBlockSize[c] \in Nat
    BY CountedFacts
  <2>2. b \in Addresses /\ xBlockSize[b] \in Nat
    BY BlockFacts
  <2> QED
    BY <2>1, <2>2, AddressFacts
<1>2. c < b \/ b < c
  BY <1>1
<1>3. (c < b => c + xBlockSize[c] <= b) /\ (b < c => b + xBlockSize[b] <= c)
  BY <1>1, BlocksApart
<1> QED
  BY <1>1, <1>2, <1>3 DEF Covers

\* The block that is being inserted is that of the task that takes a step.
LEMMA InsertingStep ==
  ASSUME HeapInv, NEW t \in Tasks, Step(t)
  PROVE  /\ Inserting = IF pc[t] = "insert" THEN {Link[t]} ELSE {}
         /\ Inserting' = IF pc'[t] = "insert" THEN {Link'[t]} ELSE {}
<1>1. \A u \in Tasks \ {t} : pc[u] # "insert" /\ pc'[u] # "insert"
  BY StepOthers DEF InASection
<1> QED
  BY <1>1 DEF Inserting

\* The counter is right, and at least the minimum, after a step that leaves both and the bytes.
LEMMA CountSame ==
  ASSUME FreeCountExact, FreeBytes' = FreeBytes, UNCHANGED countVars PROVE FreeCountExact'
  BY DEF FreeCountExact, countVars

\* The free bytes stay the same with the blocks that they are in.
LEMMA BytesSame ==
  ASSUME FreeBlocks' = FreeBlocks, Inserting' = Inserting, xBlockSize' = xBlockSize
  PROVE  FreeBytes' = FreeBytes
  BY DEF FreeBytes

\* The first half of vPortFree counts the bytes of its block.
LEMMA CountFree ==
  ASSUME HeapInv, FreeCountExact, NEW t \in Tasks, FreeSuspend(t) PROVE FreeCountExact'
<1> DEFINE b == Link[t]
           n == xBlockSize[Link[t]]
<1>1. /\ pc[t] = "free" /\ xFreeBytesRemaining' = xFreeBytesRemaining + n
      /\ xMinimumEverFreeBytesRemaining' = xMinimumEverFreeBytesRemaining
      /\ pc' = [pc EXCEPT ![t] = "insert"] /\ Link' = Link
  BY DEF FreeSuspend, taskVars
<1>2. FreeBlocks' = FreeBlocks /\ xBlockSize' = xBlockSize
  BY PassiveShape DEF Passive, heapVars
<1>3. b \in blocks \ {End} /\ b \notin FreeBlocks
  BY <1>1 DEF HeapInv, LinkInv, FreeBlocks, BeingFreed
<1>4. Inserting = {} /\ Inserting' = {b}
  <2>1. Step(t) /\ pc[t] # "insert" /\ pc'[t] = "insert" /\ Link'[t] = b
    BY <1>1 DEF Step, HeapInv, TypeOK
  <2> QED
    BY <2>1, InsertingStep
<1>5. b \in Int /\ n \in Nat /\ b + n \in Addresses /\ b \in Addresses
  BY <1>3, BlockFacts, AddressFacts DEF HeapInv, TypeOK
<1>6. FreeBytes' = {a \in Addresses : \E c \in Counted \cup {b} : Covers(c, a)}
  BY <1>2, <1>4 DEF FreeBytes, Counted, Covers
<1> HIDE DEF b, n
<1>7. FreeBytes' = FreeBytes \cup (b .. b + n - 1)
  <2>1. ASSUME NEW a \in Int PROVE Covers(b, a) <=> a \in b .. b + n - 1
    BY <1>5 DEF Covers, b, n
  <2>2. b .. b + n - 1 \subseteq Addresses
    BY <1>5, HeapBounds DEF Addresses
  <2>3. \A a \in Addresses : a \in Int
    BY AddressFacts
  <2> QED
    BY <1>6, <2>1, <2>2, <2>3, CountedFacts
<1>8. \A a \in FreeBytes : a < b \/ b + n <= a
  <2>1. ASSUME NEW a \in FreeBytes PROVE a < b \/ b + n <= a
    <3>0. a \in Addresses /\ \E c \in Counted : Covers(c, a)
      BY CountedFacts
    <3>1. PICK c \in Counted : Covers(c, a) /\ a \in Int
      BY <3>0, AddressFacts
    <3>2. c # b
      BY <1>3, <1>4 DEF Counted
    <3> QED
      BY <1>3, <3>1, <3>2, CoversOne DEF n, b
  <2> QED
    BY <2>1
<1>9. FreeBytes \in SUBSET Addresses
  BY DEF FreeBytes
<1>10. Cardinality(FreeBytes') = Cardinality(FreeBytes) + n
  BY <1>5, <1>7, <1>8, <1>9, PieceAdded
<1> QED
  BY <1>1, <1>5, <1>10 DEF FreeCountExact, HeapInv, TypeOK

\* The heap is counted when it is made.
LEMMA CountSuspend ==
  ASSUME HeapInv, FreeCountExact, NEW t \in Tasks, MallocSuspend(t) PROVE FreeCountExact'
<1>1. Inserting = {} /\ Inserting' = {}
  <2>1. Step(t) /\ pc[t] # "insert" /\ pc'[t] # "insert"
    BY DEF Step, MallocSuspend, HeapInv, TypeOK
  <2> QED
    BY <2>1, InsertingStep
<1>2. CASE End # Null
  <2>1. UNCHANGED <<heapVars, countVars>>
    BY <1>2 DEF MallocSuspend
  <2>2. FreeBlocks' = FreeBlocks
    BY <1>2, SuspendShape
  <2> QED
    BY <1>1, <2>1, <2>2, BytesSame, CountSame DEF heapVars
<1>3. CASE End = Null
  <2> DEFINE n == EndAddress - HeapStart
  <2>1. /\ End' = EndAddress /\ blocks' = {HeapStart, EndAddress}
        /\ xBlockSize' = [xBlockSize EXCEPT ![HeapStart] = n, ![EndAddress] = 0]
        /\ Allocated' = [Allocated EXCEPT ![HeapStart] = FALSE, ![EndAddress] = FALSE]
        /\ xFreeBytesRemaining' = n /\ xMinimumEverFreeBytesRemaining' = n
    BY <1>3 DEF MallocSuspend, HeapInit
  <2>2. /\ HeapStart \in Addresses /\ EndAddress \in Addresses /\ HeapStart # EndAddress
        /\ HeapStart \in Int /\ n \in Nat /\ HeapStart + n = EndAddress
    BY HeapBounds, AddressFacts
  <2>3. xBlockSize'[HeapStart] = n /\ ~Allocated'[HeapStart]
    BY <2>1, <2>2 DEF HeapInv, TypeOK
  <2>4. BeingFreed = {}
    BY <1>3 DEF HeapInv, SectionInv, BeingFreed
  <2>5. BeingFreed' = BeingFreed
    <3>1. /\ pc[t] = "malloc" /\ Link' = Link
          /\ pc' = [pc EXCEPT ![t] = "walk"] \/ pc' = [pc EXCEPT ![t] = "app"]
      BY DEF MallocSuspend, taskVars
    <3> QED
      BY <3>1, BeingFreedSame DEF Freeing
  <2>6. FreeBlocks' = {HeapStart}
    BY <2>1, <2>2, <2>3, <2>4, <2>5 DEF FreeBlocks
  <2> HIDE DEF n
  <2>7. FreeBytes' = {} \cup (HeapStart .. HeapStart + n - 1)
    <3>1. FreeBytes' = {a \in Addresses : HeapStart <= a /\ a < HeapStart + n}
      BY <1>1, <2>3, <2>6 DEF FreeBytes
    <3> QED
      BY <2>2, <3>1, HeapBounds DEF Addresses
  <2>8. Cardinality({} \cup (HeapStart .. HeapStart + n - 1)) = Cardinality({}) + n
    BY <2>2, PieceAdded
  <2>9. Cardinality(FreeBytes') = n
    BY <2>2, <2>7, <2>8, FS_EmptySet
  <2> QED
    BY <2>1, <2>2, <2>9 DEF FreeCountExact
<1> QED
  BY <1>2, <1>3

\* A block that is handed out whole takes its bytes with it.
LEMMA CountWhole ==
  ASSUME HeapInv, FreeCountExact, NEW t \in Tasks, MallocWhole(t) PROVE FreeCountExact'
<1> DEFINE B == Block
           n == xBlockSize[Block]
<1>0. Taking(t)
  BY DEF MallocWhole, Taking
<1>1. /\ xFreeBytesRemaining' = xFreeBytesRemaining - n
      /\ xMinimumEverFreeBytesRemaining'
           = Min2(xFreeBytesRemaining - n, xMinimumEverFreeBytesRemaining)
      /\ xBlockSize' = xBlockSize
  BY DEF MallocWhole, HandOut
<1>2. FreeBlocks' = FreeBlocks \ {B}
  BY WholeShape
<1>3. Inserting = {} /\ Inserting' = {}
  <2>1. Step(t) /\ pc[t] # "insert" /\ pc'[t] # "insert"
    BY DEF Step, InSection, MallocWhole, HandOut, Return, HeapInv, TypeOK
  <2> QED
    BY <2>1, InsertingStep
<1>4. B \in FreeBlocks /\ B \in Counted /\ B \in blocks \ {End} /\ B \in Int /\ n \in Nat
  <2>1. B \in FreeBlocks
    BY <1>0, TakingFacts
  <2>2. B \in Counted
    BY <2>1 DEF Counted
  <2> QED
    BY <2>1, <2>2, CountedFacts
<1> HIDE DEF B, n
<1>5. FreeBytes' = {a \in Addresses : \E c \in Counted \ {B} : Covers(c, a)}
  BY <1>1, <1>2, <1>3 DEF FreeBytes, Counted, Covers
<1>6. FreeBytes = FreeBytes' \cup (B .. B + n - 1)
  <2>1. ASSUME NEW a \in Int PROVE Covers(B, a) <=> a \in B .. B + n - 1
    BY <1>4 DEF Covers, B, n
  <2>2. \A a \in Addresses : a \in Int
    BY AddressFacts
  <2>3. B .. B + n - 1 \subseteq Addresses
    BY <2>1, <1>4, CountedFacts
  <2> QED
    BY <1>4, <1>5, <2>1, <2>2, <2>3, CountedFacts
<1>7. \A a \in FreeBytes' : a < B \/ B + n <= a
  <2>1. ASSUME NEW a \in FreeBytes' PROVE a < B \/ B + n <= a
    <3>0. a \in Addresses /\ \E c \in Counted \ {B} : Covers(c, a)
      BY <1>5
    <3>1. PICK c \in Counted \ {B} : Covers(c, a) /\ a \in Int
      BY <3>0, AddressFacts
    <3> QED
      BY <1>4, <3>1, CoversOne DEF B, n
  <2> QED
    BY <2>1
<1>8. FreeBytes' \in SUBSET Addresses
  BY <1>5
<1>9. Cardinality(FreeBytes' \cup (B .. B + n - 1)) = Cardinality(FreeBytes') + n
  BY <1>4, <1>7, <1>8, PieceAdded
<1>10. Cardinality(FreeBytes') \in Nat
  BY <1>8, AddressSets
<1> QED
  BY <1>1, <1>4, <1>6, <1>9, <1>10 DEF FreeCountExact, HeapInv, TypeOK, Min2

\* The rest of a block that is split stays free.
LEMMA CountSplit ==
  ASSUME HeapInv, FreeCountExact, NEW t \in Tasks, MallocSplit(t) PROVE FreeCountExact'
<1> DEFINE B == Block
           w == xWantedSize[t]
           new == Block + xWantedSize[t]
<1>0. Taking(t) /\ WorthSplitting(t)
  BY DEF MallocSplit, Taking
<1>1. /\ xFreeBytesRemaining' = xFreeBytesRemaining - w
      /\ xMinimumEverFreeBytesRemaining'
           = Min2(xFreeBytesRemaining - w, xMinimumEverFreeBytesRemaining)
      /\ xBlockSize' = [xBlockSize EXCEPT ![new] = xBlockSize[B] - w, ![B] = w]
  BY DEF MallocSplit, HandOut
<1>2. FreeBlocks' = (FreeBlocks \ {B}) \cup {new}
  BY SplitShape
<1>3. Inserting = {} /\ Inserting' = {}
  <2>1. Step(t) /\ pc[t] # "insert" /\ pc'[t] # "insert"
    BY DEF Step, InSection, MallocSplit, HandOut, Return, HeapInv, TypeOK
  <2> QED
    BY <2>1, InsertingStep
<1>4. B \in FreeBlocks /\ B \in Counted /\ B \in blocks \ {End} /\ B \in Int
      /\ xBlockSize[B] \in Nat
  <2>1. B \in FreeBlocks
    BY <1>0, TakingFacts
  <2>2. B \in Counted
    BY <2>1 DEF Counted
  <2> QED
    BY <2>1, <2>2, CountedFacts
<1>5. /\ new \in Addresses /\ new \notin blocks /\ B < new /\ new < B + xBlockSize[B]
      /\ w \in Nat /\ new = B + w /\ B + w + (xBlockSize[B] - w) = B + xBlockSize[B]
      /\ xBlockSize[B] - w \in Nat
  <2>1. /\ new \in Addresses /\ new \notin blocks /\ B < new /\ new < B + xBlockSize[B]
        /\ w \in Nat /\ xBlockSize[B] - w \in Nat
    BY <1>0, SplitFacts, TakingFacts
  <2> QED
    BY <2>1, <1>4
<1> HIDE DEF B, w, new
<1>6. /\ xBlockSize'[new] = xBlockSize[B] - w
      /\ \A c \in Counted \ {B} : xBlockSize'[c] = xBlockSize[c] /\ c # new
  <2>1. \A c \in Counted : c \in Addresses /\ c # new
    BY <1>5, CountedFacts
  <2>2. xBlockSize \in [Addresses -> Nat]
    BY DEF HeapInv, TypeOK
  <2>3. new # B
    BY <1>4, <2>1
  <2> QED
    BY <1>1, <1>5, <2>1, <2>2, <2>3
<1>7. FreeBytes' = {a \in Addresses : \/ \E c \in Counted \ {B} : Covers(c, a)
                                      \/ new <= a /\ a < new + (xBlockSize[B] - w)}
  <2>1. FreeBytes' = {a \in Addresses : \E c \in (Counted \ {B}) \cup {new} :
                                          c <= a /\ a < c + xBlockSize'[c]}
    BY <1>2, <1>3 DEF FreeBytes, Counted
  <2> QED
    BY <1>6, <2>1 DEF Covers
<1>8. FreeBytes = FreeBytes' \cup (B .. B + w - 1)
  <2>1. ASSUME NEW a \in Int
        PROVE  /\ Covers(B, a) <=> \/ a \in B .. B + w - 1
                                   \/ new <= a /\ a < new + (xBlockSize[B] - w)
    BY <1>4, <1>5 DEF Covers
  <2>2. \A a \in Addresses : a \in Int
    BY AddressFacts
  <2>3. B .. B + w - 1 \subseteq Addresses
    <3>1. \A a \in B .. B + w - 1 : a \in Int
      BY <1>4, <1>5
    <3> QED
      BY <3>1, <2>1, <1>4, CountedFacts
  <2> QED
    BY <1>4, <1>7, <2>1, <2>2, <2>3, CountedFacts
<1>9. \A a \in FreeBytes' : a < B \/ B + w <= a
  <2>1. ASSUME NEW a \in FreeBytes' PROVE a < B \/ B + w <= a
    <3>0. a \in Addresses /\ \/ \E c \in Counted \ {B} : Covers(c, a)
                             \/ new <= a
      BY <1>7
    <3>1. a \in Int
      BY <3>0, AddressFacts
    <3>2. CASE new <= a
      BY <1>5, <3>2
    <3>3. CASE \E c \in Counted \ {B} : Covers(c, a)
      <4>1. PICK c \in Counted \ {B} : Covers(c, a)
        BY <3>3
      <4>2. a < B \/ B + xBlockSize[B] <= a
        BY <1>4, <3>1, <4>1, CoversOne
      <4> QED
        BY <3>1, <4>2, <1>4, <1>5
    <3> QED
      BY <3>0, <3>2, <3>3
  <2> QED
    BY <2>1
<1>10. FreeBytes' \in SUBSET Addresses
  BY <1>7
<1>11. Cardinality(FreeBytes' \cup (B .. B + w - 1)) = Cardinality(FreeBytes') + w
  BY <1>4, <1>5, <1>9, <1>10, PieceAdded
<1>12. Cardinality(FreeBytes') \in Nat
  BY <1>10, AddressSets
<1> QED
  BY <1>1, <1>5, <1>8, <1>11, <1>12 DEF FreeCountExact, HeapInv, TypeOK, Min2

\* Inserting a block, merged or not, neither adds nor loses a byte.
LEMMA CountInsert ==
  ASSUME HeapInv, FreeCountExact, NEW t \in Tasks, FreeInsert(t) PROVE FreeCountExact'
<1> DEFINE it == Previous
           b == Link[t]
           nx == NextOf(it)
           before == JoinsBefore(it, b)
           after == JoinsAfter(b, nx)
           whole == IF before THEN it ELSE b
           gone == (IF before THEN {b} ELSE {}) \cup (IF after THEN {nx} ELSE {})
           size == (IF before THEN xBlockSize[it] ELSE 0) + xBlockSize[b]
                     + (IF after THEN xBlockSize[nx] ELSE 0)
<1>0. Placing(t)
  BY DEF FreeInsert, Placing
<1>1. xBlockSize' = [xBlockSize EXCEPT ![whole] = size] /\ UNCHANGED countVars
  BY DEF FreeInsert
<1>2. FreeBlocks' = (FreeBlocks \cup {b}) \ gone
  BY InsertShape
<1>3. Inserting = {b} /\ Inserting' = {}
  <2>1. Step(t) /\ pc[t] = "insert" /\ pc'[t] # "insert"
    BY DEF Step, InSection, FreeInsert, Return, HeapInv, TypeOK
  <2> QED
    BY <2>1, InsertingStep
<1>4. before <=> (it # Start /\ it + xBlockSize[it] = b)
  BY DEF JoinsBefore
<1>5. after <=> (nx # End /\ b + xBlockSize[b] = nx)
  BY DEF JoinsAfter
<1>6. /\ b \in Addresses /\ nx \in Addresses /\ it \in FreeBlocks \cup {Start}
      /\ nx \in FreeBlocks \cup {End} /\ it < b /\ b < nx
  BY <1>0, PlacingFacts
<1> HIDE DEF b, it, nx, before, after
<1>7. Counted = FreeBlocks \cup {b}
  BY <1>3 DEF Counted
<1>8. /\ before => it \in Counted
      /\ after => nx \in Counted
      /\ b \in Counted /\ whole \in Counted
      /\ b \in Int /\ xBlockSize[b] \in Nat /\ nx \in Int /\ xBlockSize[nx] \in Nat
      /\ before => it \in Int /\ xBlockSize[it] \in Nat
  <2>1. (before => it \in Counted) /\ (after => nx \in Counted) /\ b \in Counted
    BY <1>4, <1>5, <1>6, <1>7
  <2>2. nx \in Int /\ xBlockSize[nx] \in Nat
    BY <1>6, AddressFacts DEF HeapInv, TypeOK
  <2> QED
    BY <2>1, <2>2, CountedFacts
<1>9. size \in Nat
  BY <1>8
<1>10. ASSUME NEW a \in Int
       PROVE  (whole <= a /\ a < whole + size) <=>
                \/ Covers(b, a)
                \/ before /\ Covers(it, a)
                \/ after /\ Covers(nx, a)
  <2>1. CASE before /\ after
    BY <2>1, <1>4, <1>5, <1>8 DEF Covers
  <2>2. CASE before /\ ~after
    BY <2>2, <1>4, <1>5, <1>8 DEF Covers
  <2>3. CASE ~before /\ after
    BY <2>3, <1>4, <1>5, <1>8 DEF Covers
  <2>4. CASE ~before /\ ~after
    BY <2>4, <1>4, <1>5, <1>8 DEF Covers
  <2> QED
    BY <2>1, <2>2, <2>3, <2>4
<1>11. whole \in FreeBlocks' /\ whole \in Addresses
  <2>1. whole \notin gone
    <3>1. before => it # b /\ it # nx
      BY <1>4, <1>6, <1>8
    <3>2. b # nx
      BY <1>6, <1>8
    <3> QED
      BY <3>1, <3>2
  <2> QED
    BY <1>2, <1>7, <1>8, <2>1, CountedFacts
<1>12. /\ xBlockSize'[whole] = size
       /\ \A c \in Counted \ {whole} : xBlockSize'[c] = xBlockSize[c]
  <2>1. xBlockSize \in [Addresses -> Nat]
    BY DEF HeapInv, TypeOK
  <2> HIDE DEF size, whole
  <2> QED
    BY <1>1, <1>11, <2>1, CountedFacts
<1>13. FreeBytes' = FreeBytes
  <2>1. FreeBytes' = {a \in Addresses : \E c \in FreeBlocks' : c <= a /\ a < c + xBlockSize'[c]}
    BY <1>3 DEF FreeBytes
  <2>2. FreeBlocks' = Counted \ gone
    BY <1>2, <1>7
  <2>3. ASSUME NEW a \in Int
        PROVE  (\E c \in FreeBlocks' : c <= a /\ a < c + xBlockSize'[c])
                 <=> \E c \in Counted : Covers(c, a)
    <3>1. ASSUME NEW c \in FreeBlocks', c <= a, a < c + xBlockSize'[c]
          PROVE  \E d \in Counted : Covers(d, a)
      <4>1. CASE c = whole
        <5>1. whole <= a /\ a < whole + size
          BY <3>1, <4>1, <1>12
        <5>2. Covers(b, a) \/ (before /\ Covers(it, a)) \/ (after /\ Covers(nx, a))
          BY <5>1, <1>10
        <5> QED
          BY <5>2, <1>8
      <4>2. CASE c # whole
        <5>1. c \in Counted \ {whole}
          BY <2>2, <4>2
        <5>2. xBlockSize'[c] = xBlockSize[c]
          BY <5>1, <1>12
        <5> QED
          BY <3>1, <5>1, <5>2 DEF Covers
      <4> QED
        BY <4>1, <4>2
    <3>2. ASSUME NEW c \in Counted, Covers(c, a)
          PROVE  \E d \in FreeBlocks' : d <= a /\ a < d + xBlockSize'[d]
      <4>1. CASE c = whole \/ c \in gone
        <5>1. Covers(b, a) \/ (before /\ Covers(it, a)) \/ (after /\ Covers(nx, a))
          BY <3>2, <4>1
        <5>2. whole <= a /\ a < whole + size
          BY <5>1, <1>10
        <5> QED
          BY <5>2, <1>11, <1>12
      <4>2. CASE c # whole /\ c \notin gone
        <5>1. c \in FreeBlocks' /\ xBlockSize'[c] = xBlockSize[c]
          BY <2>2, <4>2, <1>12
        <5> QED
          BY <3>2, <5>1 DEF Covers
      <4> QED
        BY <4>1, <4>2
    <3> QED
      BY <3>1, <3>2
  <2>4. \A a \in Addresses : a \in Int
    BY AddressFacts
  <2> HIDE DEF gone, whole, size
  <2> QED
    BY <2>1, <2>3, <2>4, CountedFacts
<1> QED
  BY <1>1, <1>13, CountSame

\* Every step keeps the counter right.
LEMMA CountStep == ASSUME HeapInv, FreeCountExact, NEW t \in Tasks, Step(t) PROVE FreeCountExact'
<1>1. CASE Passive(t) /\ ~FreeSuspend(t)
  <2>1. FreeBlocks' = FreeBlocks /\ xBlockSize' = xBlockSize
    BY <1>1, PassiveShape DEF heapVars
  <2>2. Inserting' = Inserting
    <3>1. /\ pc[t] = "insert" <=> pc'[t] = "insert"
          /\ pc[t] = "insert" => Link' = Link
      BY <1>1 DEF Passive, MallocStart, CallocStart, MallocWalk, MallocFails, FreeWalk,
         StatsSuspend, StatsWalk, StatsReturn, Return, HeapInv, TypeOK, taskVars
    <3> QED
      BY <3>1, InsertingStep
  <2>3. UNCHANGED countVars
    BY <1>1 DEF Passive, MallocStart, CallocStart, MallocWalk, MallocFails, FreeWalk,
       StatsSuspend, StatsWalk, StatsReturn
  <2> QED
    BY <2>1, <2>2, <2>3, BytesSame, CountSame
<1>2. CASE FreeStart(t)
  <2>1. FreeBlocks' = FreeBlocks /\ xBlockSize' = xBlockSize /\ UNCHANGED countVars
    BY <1>2, FreeStartShape DEF FreeStart
  <2>2. Inserting' = Inserting
    <3>1. pc[t] # "insert" /\ pc'[t] # "insert"
      BY <1>2 DEF FreeStart, HeapInv, TypeOK
    <3> QED
      BY <3>1, InsertingStep
  <2> QED
    BY <2>1, <2>2, BytesSame, CountSame
<1> QED
  BY <1>1, <1>2, StepCases, CountFree, CountSuspend, CountWhole, CountSplit, CountInsert

(* The statistics. *)

\* The free blocks that the walk of vPortGetHeapStats has passed.
Seen == {b \in FreeBlocks : b < Block}

\* Its figures are those of the blocks that it has passed.
Tally ==
  /\ found.xBlocks = Cardinality(Seen)
  /\ Seen = {} => found = NothingFound
  /\ \A b \in Seen : found.xMinSize <= xBlockSize[b] /\ xBlockSize[b] <= found.xMaxSize
  /\ Seen # {} => /\ \E b \in Seen : found.xMinSize = xBlockSize[b]
                  /\ \E b \in Seen : found.xMaxSize = xBlockSize[b]

FoundInv ==
  /\ (\A t \in Tasks : pc[t] # "stats") => found = NothingFound
  /\ \A t \in Tasks : pc[t] = "stats" /\ End # Null => Block \in FreeBlocks \cup {End} /\ Tally

\* The size of a block is a size_t.
LEMMA SizeFits ==
  ASSUME HeapInv, NEW b \in FreeBlocks
  PROVE  b \in Addresses /\ b \in Int /\ xBlockSize[b] \in 0 .. SizeMax
<1>1. /\ b \in Addresses /\ xBlockSize[b] \in Nat
      /\ b + xBlockSize[b] \in Addresses
  BY BlockFacts DEF FreeBlocks, HeapInv, TypeOK
<1>2. b \in Int /\ HeapStart <= b /\ b + xBlockSize[b] <= EndAddress
  BY <1>1, AddressFacts
<1>3. HeapStart >= HeapAddress /\ HeapStart \in Nat
  BY RoundUpType, Heap4Assumption DEF HeapStart
<1>4. EndAddress <= HeapAddress + TotalHeapSize - xHeapStructSize
  <2> DEFINE n == HeapAddress + TotalHeapSize - xHeapStructSize
  <2>1. n \in Int
    BY HeapBounds, Heap4Assumption
  <2> HIDE DEF n
  <2>2. n % Alignment \in Int /\ n % Alignment >= 0
    BY <2>1, Heap4Assumption
  <2>3. n - (n % Alignment) <= n
    BY <2>1, <2>2
  <2> QED
    BY <2>3 DEF EndAddress, RoundDown, n
<1>5. TotalHeapSize \in Nat /\ TotalHeapSize <= SizeMax
  BY Heap4Assumption DEF AllocatedBit
<1>6. xBlockSize[b] <= EndAddress - HeapStart
  BY <1>1, <1>2, <1>3, HeapBounds
<1>7. xBlockSize[b] <= TotalHeapSize
  BY <1>1, <1>3, <1>4, <1>6, HeapBounds, Heap4Assumption
<1> QED
  BY <1>1, <1>2, <1>5, <1>7, Heap4Assumption

\* Nothing has been seen at the start of the list.
LEMMA NothingSeen ==
  ASSUME TypeOK, End # Null, IsSuccessor(Start, Block), found = NothingFound
  PROVE  Block \in FreeBlocks \cup {End} /\ Tally
<1>1. Seen = {}
  BY AddressFacts DEF IsSuccessor, Seen, FreeBlocks, TypeOK
<1>2. found.xBlocks = 0
  BY DEF NothingFound
<1> QED
  BY <1>1, <1>2, FS_EmptySet DEF Tally, IsSuccessor

\* The walk adds its block to the figures and goes on to the next.
LEMMA FoundWalk ==
  ASSUME HeapInv, FoundInv, NEW t \in Tasks, StatsWalk(t), End # Null
  PROVE  (Block \in FreeBlocks \cup {End} /\ Tally)'
<1>1. /\ pc[t] = "stats" /\ Block # End /\ Block' = NextFreeBlock[Block]
      /\ found' = [xBlocks |-> found.xBlocks + 1,
                   xMaxSize |-> Max2(found.xMaxSize, xBlockSize[Block]),
                   xMinSize |-> Min2(found.xMinSize, xBlockSize[Block])]
      /\ UNCHANGED heapVars
  BY DEF StatsWalk
<1>2. Block \in FreeBlocks /\ Tally
  BY <1>1 DEF FoundInv
<1>3. FreeBlocks' = FreeBlocks /\ End' = End /\ xBlockSize' = xBlockSize
  BY PassiveShape DEF Passive, heapVars
<1>4. /\ Block \in Int /\ xBlockSize[Block] \in Nat /\ xBlockSize[Block] <= SizeMax
      /\ SizeMax \in Nat
  BY <1>2, SizeFits, Heap4Assumption
<1>5. /\ Block' \in FreeBlocks \cup {End} /\ Block' \in Int /\ Block < Block'
      /\ \A d \in FreeBlocks : d <= Block \/ Block' <= d
  <2>1. NextOf(Block) = Block'
    BY <1>1, <1>2, SizeFits, AddressFacts DEF NextOf
  <2>2. /\ NextOf(Block) \in FreeBlocks \cup {End} /\ NextOf(Block) \in Addresses
        /\ Block < NextOf(Block)
        /\ \A d \in FreeBlocks : d <= Block \/ NextOf(Block) <= d
    BY <1>2, ListFacts
  <2>3. \A a \in Addresses : a \in Int
    BY AddressFacts
  <2>4. NextOf(Block) \in Int
    BY <2>2, <2>3
  <2> QED
    BY <2>1, <2>2, <2>4
<1>6. Seen' = Seen \cup {Block} /\ Block \notin Seen
  <2>1. \A d \in FreeBlocks : d \in Int
    BY SizeFits
  <2>2. Seen' = {d \in FreeBlocks : d < Block'}
    BY <1>3 DEF Seen
  <2>3. \A d \in FreeBlocks : d < Block' <=> (d < Block \/ d = Block)
    BY <1>4, <1>5, <2>1
  <2>4. Seen' = {d \in FreeBlocks : d < Block \/ d = Block}
    BY <2>2, <2>3
  <2>5. Block \notin Seen
    BY <1>4 DEF Seen
  <2> QED
    BY <1>2, <2>4, <2>5 DEF Seen
<1>7. IsFiniteSet(Seen)
  <2>1. Seen \in SUBSET Addresses
    BY SizeFits DEF Seen
  <2> QED
    BY <2>1, AddressSets
<1>8. Cardinality(Seen') = Cardinality(Seen) + 1
  BY <1>6, <1>7, FS_AddElement
<1>9. \A b \in Seen : b \in FreeBlocks /\ xBlockSize[b] \in Nat /\ xBlockSize[b] <= SizeMax
  BY SizeFits DEF Seen
<1>10. found.xMaxSize \in Nat /\ found.xMinSize \in Nat
  BY DEF HeapInv, TypeOK
<1>11. /\ found'.xMaxSize = Max2(found.xMaxSize, xBlockSize[Block])
       /\ found'.xMinSize = Min2(found.xMinSize, xBlockSize[Block])
       /\ found'.xBlocks = found.xBlocks + 1
  BY <1>1
<1>12. \A b \in Seen' : found'.xMinSize <= xBlockSize[b] /\ xBlockSize[b] <= found'.xMaxSize
  BY <1>2, <1>4, <1>6, <1>9, <1>10, <1>11 DEF Tally, Max2, Min2
<1>13. \E b \in Seen' : found'.xMinSize = xBlockSize[b]
  <2>1. CASE Seen = {}
    <3>1. found.xMinSize = SizeMax
      BY <1>2, <2>1 DEF Tally, NothingFound
    <3>2. found'.xMinSize = xBlockSize[Block]
      BY <1>4, <1>11, <3>1 DEF Min2
    <3> QED
      BY <1>6, <3>2
  <2>2. CASE Seen # {}
    <3>1. PICK b \in Seen : found.xMinSize = xBlockSize[b]
      BY <1>2, <2>2 DEF Tally
    <3>2. found'.xMinSize = xBlockSize[b] \/ found'.xMinSize = xBlockSize[Block]
      BY <1>11, <3>1 DEF Min2
    <3> QED
      BY <1>6, <3>2
  <2> QED
    BY <2>1, <2>2
<1>14. \E b \in Seen' : found'.xMaxSize = xBlockSize[b]
  <2>1. CASE Seen = {}
    <3>1. found.xMaxSize = 0
      BY <1>2, <2>1 DEF Tally, NothingFound
    <3>2. found'.xMaxSize = xBlockSize[Block]
      BY <1>4, <1>11, <3>1 DEF Max2
    <3> QED
      BY <1>6, <3>2
  <2>2. CASE Seen # {}
    <3>1. PICK b \in Seen : found.xMaxSize = xBlockSize[b]
      BY <1>2, <2>2 DEF Tally
    <3>2. found'.xMaxSize = xBlockSize[b] \/ found'.xMaxSize = xBlockSize[Block]
      BY <1>11, <3>1 DEF Max2
    <3> QED
      BY <1>6, <3>2
  <2> QED
    BY <2>1, <2>2
<1>15. found'.xBlocks = Cardinality(Seen')
  BY <1>2, <1>8, <1>11 DEF Tally
<1>16. Seen' # {}
  BY <1>6
<1>17. Tally'
  BY <1>3, <1>12, <1>13, <1>14, <1>15, <1>16 DEF Tally
<1> QED
  BY <1>3, <1>5, <1>17

\* Every step keeps the figures right.
LEMMA FoundStep == ASSUME HeapInv, FoundInv, NEW t \in Tasks, Step(t) PROVE FoundInv'
<1>0. pc \in [Tasks -> PcLabels] /\ HeapInv'
  BY HeapInvStep DEF HeapInv, TypeOK, Next
<1>1. ASSUME NEW u \in Tasks \ {t} PROVE pc[u] # "stats" /\ pc'[u] # "stats"
  BY StepOthers DEF InASection
<1>2. pc[t] # "stats" => found = NothingFound
  BY <1>1 DEF FoundInv
<1>3. CASE pc'[t] # "stats"
  <2>1. CASE Return(t)
    BY <1>1, <1>3, <2>1 DEF Return, FoundInv
  <2>2. CASE ~Return(t)
    <3>1. pc[t] # "stats" /\ found' = found
      BY <1>0, <1>3, <2>2 DEF Step, InSection, MallocStart, CallocStart, MallocSuspend, FreeStart,
         FreeSuspend, StatsSuspend, MallocWalk, MallocFails, MallocWhole, MallocSplit, FreeWalk,
         FreeInsert, StatsWalk, StatsReturn, HandOut, walkVars
    <3> QED
      BY <1>1, <1>2, <1>3, <3>1 DEF FoundInv
  <2> QED
    BY <2>1, <2>2
<1>4. CASE pc'[t] = "stats"
  <2>1. StatsSuspend(t) \/ StatsWalk(t)
    BY <1>0, <1>4 DEF Step, InSection, MallocStart, CallocStart, MallocSuspend, FreeStart,
       FreeSuspend, MallocWalk, MallocFails, MallocWhole, MallocSplit, FreeWalk,
       FreeInsert, StatsReturn, HandOut, Return
  <2>2. ASSUME End' # Null PROVE (Block \in FreeBlocks \cup {End} /\ Tally)'
    <3>1. End # Null
      BY <2>1, <2>2 DEF StatsSuspend, StatsWalk, heapVars
    <3>2. CASE StatsSuspend(t)
      <4>1. found' = NothingFound /\ Block' = xStart'
        BY <1>2, <3>2 DEF StatsSuspend, heapVars
      <4>2. IsSuccessor(Start, xStart)' /\ TypeOK'
        BY <1>0, <2>2 DEF HeapInv, Shape, FreeListSorted
      <4>3. IsSuccessor(Start, Block)'
        BY <4>1, <4>2 DEF IsSuccessor
      <4>4. (TypeOK /\ End # Null /\ IsSuccessor(Start, Block) /\ found = NothingFound
              => Block \in FreeBlocks \cup {End} /\ Tally)'
        BY NothingSeen, PTL
      <4>5. NothingFound' = NothingFound
        BY DEF NothingFound
      <4> QED
        BY <2>2, <4>1, <4>2, <4>3, <4>4, <4>5
    <3>3. CASE StatsWalk(t)
      BY <3>1, <3>3, FoundWalk
    <3> QED
      BY <2>1, <3>2, <3>3
  <2> QED
    BY <1>1, <1>4, <2>2 DEF FoundInv
<1> QED
  BY <1>3, <1>4

(* All that the heap says about its free space. *)

FreeInv == HeapInv /\ FreeCountExact /\ FoundInv

\* The initial state satisfies the invariant.
LEMMA FreeInvInit == Init => FreeInv
<1> SUFFICES ASSUME Init PROVE FreeInv
  OBVIOUS
<1>1. FreeBytes = {}
  BY DEF Init, FreeBytes, FreeBlocks, Inserting
<1>2. FreeCountExact
  BY <1>1, FS_EmptySet DEF Init, FreeCountExact
<1>3. FoundInv
  BY DEF Init, FoundInv
<1> QED
  BY <1>2, <1>3, HeapInvInit DEF FreeInv

\* A restart of the heap leaves no free bytes.
LEMMA FreeReset == ASSUME FreeInv, HeapResetState PROVE (FreeCountExact /\ FoundInv)'
<1>1. /\ End' = Null /\ blocks' = {}
      /\ xFreeBytesRemaining' = 0 /\ xMinimumEverFreeBytesRemaining' = 0
      /\ UNCHANGED <<pc, walkVars>> /\ \A t \in Tasks : pc[t] = "app"
  BY DEF HeapResetState
<1>2. FreeBytes' = {}
  BY <1>1 DEF FreeBytes, FreeBlocks, Inserting
<1>3. FreeCountExact'
  BY <1>1, <1>2, FS_EmptySet DEF FreeCountExact
<1>4. FoundInv'
  BY <1>1 DEF FreeInv, FoundInv, walkVars, NothingFound
<1> QED
  BY <1>3, <1>4

\* A stuttering step keeps what is counted.
LEMMA FreeStutter == ASSUME FreeInv, UNCHANGED vars PROVE (FreeCountExact /\ FoundInv)'
<1>1. /\ UNCHANGED <<End, xBlockSize, Allocated, countVars, pc, Link, Block, found, blocks>>
  BY DEF vars, heapVars, taskVars, walkVars, historyVars
<1>2. FreeBlocks' = FreeBlocks /\ Inserting' = Inserting
  BY <1>1 DEF FreeBlocks, BeingFreed, Inserting
<1>3. FreeBytes' = FreeBytes
  BY <1>1, <1>2, BytesSame
<1>4. FreeCountExact'
  BY <1>1, <1>3, CountSame DEF FreeInv
<1>5. Tally' = Tally
  BY <1>1, <1>2 DEF Tally, Seen, NothingFound
<1> QED
  BY <1>1, <1>2, <1>4, <1>5 DEF FreeInv, FoundInv, NothingFound

\* The invariant is inductive.
LEMMA FreeInvStep == FreeInv /\ [Next]_vars => FreeInv'
<1> SUFFICES ASSUME FreeInv, [Next]_vars PROVE FreeInv'
  OBVIOUS
<1>1. HeapInv'
  BY HeapInvStep DEF FreeInv
<1>2. ASSUME NEW t \in Tasks, Step(t) PROVE (FreeCountExact /\ FoundInv)'
  BY <1>2, CountStep, FoundStep DEF FreeInv
<1>3. (FreeCountExact /\ FoundInv)'
  BY <1>2, FreeReset, FreeStutter DEF Next
<1> QED
  BY <1>1, <1>3 DEF FreeInv

\* A block is no larger than what the counter says.
LEMMA BlockCounted ==
  ASSUME HeapInv, FreeCountExact, NEW b \in FreeBlocks
  PROVE  xBlockSize[b] <= xFreeBytesRemaining
<1> DEFINE n == xBlockSize[b]
           T == b .. b + n - 1
<1>1. b \in Counted
  BY DEF Counted
<1>2. b \in Int /\ n \in Nat /\ \A a \in Int : Covers(b, a) => a \in Addresses
  BY <1>1, CountedFacts
<1>3. T \subseteq FreeBytes
  <2>1. ASSUME NEW a \in T PROVE a \in Int /\ Covers(b, a)
    BY <1>2 DEF Covers
  <2> QED
    BY <1>1, <1>2, <2>1, CountedFacts
<1>4. Cardinality(T) = n
  BY <1>2, FS_Interval
<1>5. FreeBytes \in SUBSET Addresses
  BY DEF FreeBytes
<1> HIDE DEF T, n
<1>6. Cardinality(T) <= Cardinality(FreeBytes)
  BY <1>3, <1>5, AddressSets, FS_Subset
<1> QED
  BY <1>4, <1>6 DEF FreeCountExact, n

\* The end marker is above every free block.
LEMMA BelowEnd == ASSUME HeapInv, NEW b \in FreeBlocks PROVE b < End
<1>1. b \in Addresses /\ End = EndAddress /\ b # End
  BY BlockFacts DEF FreeBlocks
<1>2. b \in Int /\ b <= EndAddress /\ EndAddress \in Int
  BY <1>1, AddressFacts, HeapBounds
<1> QED
  BY <1>1, <1>2

\* What is refused would not have fitted.
LEMMA RefusedRightly == FreeInv => RefusedOnlyIfNothingFits
<1> SUFFICES ASSUME FreeInv, NEW t \in Tasks
             PROVE  /\ (pc[t] = "walk" /\ Block = End) =>
                         \A b \in FreeBlocks : xBlockSize[b] < xWantedSize[t]
                    /\ (pc[t] = "malloc" /\ xWantedSize[t] > xFreeBytesRemaining) =>
                         \A b \in FreeBlocks : xBlockSize[b] < xWantedSize[t]
  BY DEF RefusedOnlyIfNothingFits
<1>1. ASSUME pc[t] = "walk", Block = End, NEW b \in FreeBlocks
      PROVE  xBlockSize[b] < xWantedSize[t]
  <2>1. \A c \in FreeBlocks : c < Block => xBlockSize[c] < xWantedSize[t]
    BY <1>1 DEF FreeInv, HeapInv, WalkInv
  <2>2. b < End
    BY BelowEnd DEF FreeInv
  <2> QED
    BY <1>1, <2>1, <2>2
<1>2. ASSUME pc[t] = "malloc", xWantedSize[t] > xFreeBytesRemaining, NEW b \in FreeBlocks
      PROVE  xBlockSize[b] < xWantedSize[t]
  <2>1. xBlockSize[b] <= xFreeBytesRemaining
    BY BlockCounted DEF FreeInv
  <2>2. xBlockSize[b] \in Int
    BY SizeFits DEF FreeInv
  <2> QED
    BY <1>2, <2>1, <2>2 DEF FreeInv, HeapInv, TypeOK
<1> QED
  BY <1>1, <1>2

\* At the end of the list every free block has been seen.
LEMMA AllSeen == FreeInv => StatsExact
<1> SUFFICES ASSUME FreeInv, NEW t \in Tasks, pc[t] = "stats", End # Null, Block = End
             PROVE  LET sizes == {xBlockSize[b] : b \in FreeBlocks} IN
                    /\ found.xBlocks = Cardinality(FreeBlocks)
                    /\ \A n \in sizes : found.xMinSize <= n /\ n <= found.xMaxSize
                    /\ sizes # {} => {found.xMinSize, found.xMaxSize} \subseteq sizes
  BY DEF StatsExact
<1>1. Tally
  BY DEF FreeInv, FoundInv
<1>2. Seen = FreeBlocks
  BY BelowEnd DEF FreeInv, Seen
<1> QED
  BY <1>1, <1>2 DEF Tally

\* The counter is the number of the free bytes, a request is refused only if no free block is
\* large enough, and the statistics are those of the free blocks (heap_4.c 187-232, 292,
\* 437-454).
THEOREM FreeSpaceIsHonest == Spec => []FreeSpaceHonest
<1>1. FreeInv => FreeSpaceHonest
  BY RefusedRightly, AllSeen DEF FreeInv, FreeSpaceHonest
<1> QED
  BY <1>1, FreeInvInit, FreeInvStep, PTL DEF Spec
=============================================================================
