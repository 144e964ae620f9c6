--------------------------- MODULE MCStreamBuffer ---------------------------
(* Small instances of StreamBuffer. *)
EXTENDS StreamBuffer

\* TLC's view of a state: a cell counts only between the tail and what the sender has
\* written, a local only at the labels from which it is read again, and what the last receive
\* delivered only in the step that delivers it.
InUse(i) ==
  LET unpublished == IF pc[Sender] = "publish" THEN Header + size[Sender] ELSE 0
      d == IF i >= xTail THEN i - xTail ELSE i + Length - xTail
  IN  d < BytesInBuffer + unpublished
Live(t, labels, v) == IF pc[t] \in labels THEN v ELSE 0

MCView ==
  <<xHead, xTail, [i \in Index |-> IF InUse(i) THEN Buffer[i] ELSE -1], xTriggerLevelBytes,
    waitVars, pc, rxData, nextByte,
    Live(Sender, {"check", "wait", "blocked", "clear"}, ticks[Sender]),
    Live(Sender, {"check", "wait", "blocked", "clear", "look", "copy", "publish"}, size[Sender]),
    Live(Sender, {"wait", "blocked", "clear", "look", "copy"}, xSpace),
    Live(Receiver, {"check", "wait", "blocked"}, ticks[Receiver]),
    Live(Receiver, {"check", "wait", "blocked", "clear", "look", "copy"}, size[Receiver]),
    Live(Receiver, {"copy"}, xBytesAvailable),
    Live(Receiver, {"check", "wait", "blocked", "clear", "look"}, store)>>
=============================================================================
