----------------------------- MODULE DelayClock -----------------------------
(***************************************************************************)
(* What the delayed lists of tasks.cpp promise.  A call that asks for n    *)
(* ticks puts its task to sleep for n ticks, one that asks for a wake time *)
(* for the ticks up to it, and the sleep lasts until exactly so many ticks *)
(* have been counted.  It ends earlier only for a cause: what the task     *)
(* awaits has come, or another task aborts the delay, suspends the task or *)
(* deletes it.  Never on a tick.                                           *)
(***************************************************************************)
EXTENDS Integers

CONSTANTS Task, MaxDelay, NoAsk

VARIABLES
  clock,       \* the tick count
  asks,        \* what the call under way of each task asks for, or NoAsk
  remaining,   \* the ticks each task still sleeps, 0 for one that does not
  (* The causes; the promise is kept whatever they do. *)
  awaits,      \* what each task waits for besides its time: subsets of {"event", "notice"}
  roused,      \* the tasks whose wake-up is held back, the scheduler being suspended
  aborting,    \* the tasks whose delay is being aborted
  stopped      \* the tasks suspended, deleted or not created

promised == <<clock, asks, remaining>>

Init == /\ clock \in 0 .. MaxDelay
        /\ asks = [t \in Task |-> NoAsk]
        /\ remaining = [t \in Task |-> 0]
        /\ roused = {}

\* A call of t gets to the point where it blocks, for n ticks or until the clock shows n.
Ask(t) ==
  /\ asks[t] = NoAsk /\ remaining[t] = 0
  /\ \E kind \in {"delay", "until", "event", "enlist"}, n \in 0 .. MaxDelay :
       asks' = [asks EXCEPT ![t] = [kind |-> kind, n |-> n]]
  /\ UNCHANGED <<clock, remaining>>

\* The ticks that a call which asks for a sleeps.
Ticks(a) == IF a.kind = "until" THEN (a.n - clock) % (MaxDelay + 1) ELSE a.n

\* t falls asleep for what it asked for.
Sleep(t) ==
  /\ asks[t] # NoAsk /\ remaining[t] = 0
  /\ Ticks(asks[t]) > 0
  /\ remaining' = [remaining EXCEPT ![t] = Ticks(asks[t])]
  /\ asks' = [asks EXCEPT ![t] = NoAsk]
  /\ UNCHANGED clock

\* t does not sleep after all: its wake time has passed, or its last wait was aborted.
Forgo(t) ==
  /\ asks[t] # NoAsk /\ asks[t].kind \in {"until", "event"}
  /\ asks' = [asks EXCEPT ![t] = NoAsk]
  /\ UNCHANGED <<clock, remaining>>

\* One tick is counted for every sleeping task; at 0 it is awake.
Elapse ==
  /\ clock' = (clock + 1) % (MaxDelay + 1)
  /\ remaining' = [t \in Task |-> IF remaining[t] > 0 THEN remaining[t] - 1 ELSE 0]
  /\ UNCHANGED asks

\* Something that t awaits comes in this step.
Comes(t) == awaits[t] \ awaits'[t] # {}

\* Some tasks stop sleeping early, each for a cause.
Cancel(S) ==
  /\ \A t \in S : Comes(t) \/ t \in roused \cup aborting \/ t \in stopped'
  /\ remaining' = [t \in Task |-> IF t \in S THEN 0 ELSE remaining[t]]
  /\ UNCHANGED <<clock, asks>>

Next == \/ Elapse
        \/ \E t \in Task : Ask(t) \/ Sleep(t) \/ Forgo(t)
        \/ \E S \in SUBSET Task : Cancel(S)

\* The wake-up of a sleeping task is held back only if what it awaits has come.
Rouse == \A t \in roused' \ roused : remaining[t] > 0 => Comes(t)

Spec == Init /\ [][Next]_promised /\ [][Rouse]_roused
=============================================================================
