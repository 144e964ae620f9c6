---------------------------- MODULE MCScheduler ----------------------------
(* Small instances of Scheduler: two application tasks and Idle. *)
EXTENDS Scheduler, TLC

CONSTANTS t1, t2

\* One low priority and one high priority task.
MCPriority == [t \in Task |-> IF t = Idle THEN 0 ELSE IF t = t2 THEN 2 ELSE 1]

TimeCalls == {"Delay", "DelayUntil", "Abort", "CatchUp", "Lock", "Suspend", "Resume"}
WaitCalls == {"Take", "Wait", "Notify", "NotifyISR", "NotifyClear", "Abort",
              "Event", "Signal", "SignalISR"}
LifeCalls == {"Delay", "Suspend", "Resume", "ResumeISR", "PrioritySet", "Create", "Delete", "Abort"}

\* TLC's view of a state: a wake time counts only while the task is delayed, the fields of a TCB
\* only while the task exists (creation sets them all), and a local of a call only until the call
\* has read it for the last time.
Seen(f, d) == [t \in Task |-> IF pc[t] = "uncreated" THEN d ELSE f[t]]
Until(f, labels, d) == [t \in Task |-> IF pc[t] \in labels THEN f[t] ELSE d]
MCView == <<[t \in Task |-> IF Delayed(t) THEN WakeTime[t] ELSE 0],
            Seen(Priority, 0), Seen(NotifyState, "notWaiting"), Seen(NotifiedValue, 0),
            Seen(DelayAborted, FALSE),
            listVars, TopReadyPriority, TickCount, NextTaskUnblockTime, PendedTicks,
            switchVars, countVars, pc, op,
            Until(arg, {"delay", "until", "event", "take", "wait", "enlist", "catchUp"}, 0),
            Until(target, AbortUnderWay \cup {"abortState", "abortTest", "abortNotify", "abortRemove",
                                              "suspended", "created"}, NULL),
            Until(ShouldBlock, {"resume", "replay"}, FALSE)>>
=============================================================================
