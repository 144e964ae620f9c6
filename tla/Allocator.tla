------------------------------ MODULE Allocator ------------------------------
(***************************************************************************)
(* What a heap promises: a piece of memory that has been handed out shares  *)
(* no byte with another one, until it is given back.                        *)
(***************************************************************************)
EXTENDS Integers

CONSTANTS
  Pool,   \* the addresses of the heap
  Sizes   \* the numbers of bytes that may be asked for

VARIABLE live   \* the pieces in use: a function from address to bytes

Bytes(p, n) == p .. p + n - 1

Init == live = [p \in {} |-> 0]

Alloc(p, n) ==
  /\ p \notin DOMAIN live
  /\ live' = [q \in DOMAIN live \cup {p} |-> IF q = p THEN n ELSE live[q]]
  /\ Bytes(p, n) \subseteq Pool
  /\ \A q \in DOMAIN live : Bytes(p, n) \cap Bytes(q, live[q]) = {}

Free(p) ==
  /\ p \in DOMAIN live
  /\ live' = [q \in DOMAIN live \ {p} |-> live[q]]

\* The program starts again with an empty heap.
Restart == live' = [p \in {} |-> 0]

Next ==
  \/ \E p \in Pool, n \in Sizes : Alloc(p, n)
  \/ \E p \in DOMAIN live : Free(p)
  \/ Restart

Spec == Init /\ [][Next]_live
=============================================================================
