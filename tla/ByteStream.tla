----------------------------- MODULE ByteStream -----------------------------
(***************************************************************************)
(* What a stream or message buffer promises its reader: the bytes come out *)
(* in the order they went in, each once; a message comes out whole or not  *)
(* at all.  fifo holds what was sent and not yet received (bytes of a      *)
(* stream, or messages), delivered what the last receive returned.         *)
(***************************************************************************)
EXTENDS Integers, Sequences

CONSTANTS Messages,     \* whether the buffer keeps messages apart
          MaxSend,      \* the longest single write
          ByteValues    \* bytes are numbered modulo ByteValues

VARIABLES fifo, delivered, nextByte

vars == <<fifo, delivered, nextByte>>

Init == fifo = <<>> /\ delivered = <<>> /\ nextByte = 0

\* The next n bytes enter the buffer.
Write(n) ==
  LET data == [i \in 1 .. n |-> (nextByte + i - 1) % ByteValues]
  IN  /\ fifo' = IF Messages THEN Append(fifo, data) ELSE fifo \o data
      /\ nextByte' = (nextByte + n) % ByteValues
      /\ UNCHANGED delivered

ReadMessage ==
  /\ Messages /\ fifo # <<>>
  /\ delivered' = Head(fifo)
  /\ fifo' = Tail(fifo)
  /\ UNCHANGED nextByte

ReadBytes(n) ==
  /\ ~Messages
  /\ delivered' = SubSeq(fifo, 1, n)
  /\ fifo' = SubSeq(fifo, n + 1, Len(fifo))
  /\ UNCHANGED nextByte

Clear == fifo' = <<>> /\ UNCHANGED <<delivered, nextByte>>

Next == \/ \E n \in 1 .. MaxSend : Write(n)
        \/ ReadMessage
        \/ \E n \in 1 .. Len(fifo) : ReadBytes(n)
        \/ Clear

Spec == Init /\ [][Next]_vars
=============================================================================
