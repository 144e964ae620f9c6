------------------------------ MODULE Processor ------------------------------
(***************************************************************************)
(* What the kernel assumes of a port: one processor that one task has at a *)
(* time, critical sections that no interrupt enters, and a request for an  *)
(* interrupt, such as a yield, that returns only after an interrupt has    *)
(* run and has given the processor back to the task that made it.          *)
(***************************************************************************)
CONSTANTS Tasks, None

VARIABLES
  current,    \* the task that has the processor
  holder,     \* the task in a critical section, or None
  request     \* of each task: "none", "made", or "served" once an interrupt has run

vars == <<current, holder, request>>

Init == current \in Tasks /\ holder = None /\ request = [t \in Tasks |-> "none"]

Enter ==
  /\ holder = None /\ request[current] = "none"
  /\ holder' = current
  /\ UNCHANGED <<current, request>>

\* The requests made inside the section are made when it ends.
Leave ==
  /\ holder = current
  /\ holder' = None
  /\ request' \in {request, [request EXCEPT ![current] = "made"]}
  /\ UNCHANGED current

Request ==
  /\ holder = None /\ request[current] = "none"
  /\ request' = [request EXCEPT ![current] = "made"]
  /\ UNCHANGED <<current, holder>>

\* An interrupt gives the processor to any task, whose request it serves.
Interrupt ==
  /\ holder = None
  /\ current' \in Tasks
  /\ request' = [request EXCEPT ![current'] = IF @ = "made" THEN "served" ELSE @]
  /\ UNCHANGED holder

Return ==
  /\ request[current] = "served"
  /\ request' = [request EXCEPT ![current] = "none"]
  /\ UNCHANGED <<current, holder>>

\* A task that does not have the processor is deleted.
Forget(t) ==
  /\ t # current
  /\ request' = [request EXCEPT ![t] = "none"]
  /\ UNCHANGED <<current, holder>>

Next == Enter \/ Leave \/ Request \/ Interrupt \/ Return \/ \E t \in Tasks : Forget(t)

Spec == Init /\ [][Next]_vars
=============================================================================
