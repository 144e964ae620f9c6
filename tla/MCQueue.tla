------------------------------ MODULE MCQueue ------------------------------
(* Small instances of Queue. *)
EXTENDS Queue

CONSTANTS t1, t2

\* One task that receives with a time-out of two ticks or without one, and one that waits
\* without a time-out, in each of the ways there are.
AllCalls ==
  ({t1} \X {"receive"} \X {2, 3}) \cup ({t1} \X {"send", "restricted"} \X {2}) \cup ({t2} \X {"send", "overwrite", "peek", "restricted"} \X {3})

\* TLC's view of a state: the time-out of a call counts only when it is finite.
Seen(f) == [t \in Tasks |-> IF Timed(t) THEN f[t] ELSE 0]
MCView == <<queueVars, listVars, pc, op, ticks, outcome, Seen(TimeOnEntering), Seen(OverflowCount),
            left, suspender, timeVars, abortVars>>
=============================================================================
