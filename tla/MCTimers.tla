------------------------------- MODULE MCTimers -------------------------------
(* Small instances of Timers. *)
EXTENDS Timers

CONSTANTS a, b

\* A fast timer that reloads, and a slow one that does not.
MCCreated == [t \in {a, b} |-> IF t = a THEN [Period |-> 1, Autoreload |-> TRUE]
                                       ELSE [Period |-> 3, Autoreload |-> FALSE]]

\* TLC's view of a state: the expiry of a timer in no list is not read.
MCView ==
  <<time, listVars, [t \in Timers |-> IF t \in Linked THEN Value[t] ELSE 0], Period, Active,
    Autoreload, memory, sendVars, pc, msg, sampleVars, reloadVars, wake, historyVars>>
=============================================================================
