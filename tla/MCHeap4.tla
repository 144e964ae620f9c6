------------------------------- MODULE MCHeap4 -------------------------------
(***************************************************************************)
(* Instances of Heap4 for TLC: a heap of nine aligned units whose array is *)
(* not aligned itself, and a size_t of six bits.                            *)
(***************************************************************************)
EXTENDS Heap4

\* Nothing, two small sizes, one of which two separated free blocks cannot meet, one
\* whose block would need the top bit, one whose rounding overflows and one whose header
\* does; most products overflow.
HeapRequests == {0, 1, 5, 30, 61, 62}
=============================================================================
