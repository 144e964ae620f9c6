-------------------------------- MODULE Timers --------------------------------
(***************************************************************************)
(* The software timers of timers.cpp: the daemon task, which keeps the     *)
(* running timers in two lists sorted by expiry, one for the time up to    *)
(* the next wrap of the tick count and one for the time behind it, and the *)
(* commands that tasks and ISRs send to it.                                *)
(*                                                                         *)
(* A step of the daemon goes from one loop iteration to the next; a tick,  *)
(* a command or a change of mode comes between any two steps.  The command *)
(* queue is what its callers expect of it: it keeps the order, and may     *)
(* refuse a command.  A callback is called in the step that reports an     *)
(* expiry; the time it takes is the ticks before the next step.            *)
(***************************************************************************)
EXTENDS Integers, Sequences, FiniteSets

CONSTANTS
  Timers,         \* the timers
  StaticTimers,   \* those in memory that the application gave
  Tasks,          \* the tasks that send commands
  None,           \* no command, no timer
  TickMod,        \* one more than the largest TickType_t
  Periods,        \* the periods the application asks for
  Created,        \* the period and the reload mode each timer is created with
  QueueLength,    \* configTIMER_QUEUE_LENGTH
  InitialTime,    \* configINITIAL_TICK_COUNT
  MaxTime,        \* bound: the last tick
  MaxCalls        \* bound: the number of calls of the API

MaxTick == TickMod - 1       \* tmrMAX_TIME_BEFORE_OVERFLOW
Ticks == 0 .. MaxTick
Forever == -1                \* a wait without a time-out

\* A command; the time it asks for is a tick or a period, and also counted without a wrap.
Commands == {"start", "stop", "change", "delete"}
MessageType == [ID : Commands, Timer : Timers, Value : Ticks, at : Nat]

ASSUME TimersAssumption ==
  /\ StaticTimers \subseteq Timers
  /\ None \notin Timers /\ None \notin MessageType
  /\ TickMod \in Nat \ {0}
  /\ Periods \subseteq 1 .. MaxTick
  /\ Created \in [Timers -> [Period : Periods, Autoreload : BOOLEAN]]
  /\ QueueLength \in Nat /\ InitialTime \in 0 .. MaxTick
  /\ MaxTime \in Nat /\ MaxCalls \in Nat

VARIABLES
  time,            \* the ticks since tick 0; xTickCount is this modulo TickMod
  Current, Overflow,                     \* CurrentTimerList, OverflowTimerList
  Value, Period, Active, Autoreload,     \* the fields of each timer
  memory,          \* of each timer: "live", "deleting" (asked for) or "freed"
  calls,           \* the number of calls so far, for the bound
  queue,           \* TimerQueue
  call,            \* the start each task is about to send, or None
  pc,              \* where the daemon is
  msg,             \* the command it has received, None while it has none
  xLastTime,       \* the last sample of the tick count, also the local Now
  Timer, Expired, UpTo, back,            \* ReloadTimer: its arguments, its caller
  wake,            \* when the wait of the daemon times out, or Forever
  sampled,         \* history: the time of the last sample
  due,             \* history: when each timer expires next, 0 if it does not
  early,           \* history: an expiry was reported before its time
  overslept        \* history: the daemon was late by a whole wrap, or a command was

timerVars   == <<Value, Period, Active, Autoreload, memory>>
listVars    == <<Current, Overflow>>
sendVars    == <<calls, queue, call>>
sampleVars  == <<xLastTime, sampled>>
reloadVars  == <<Timer, Expired, UpTo, back>>
historyVars == <<due, early, overslept>>
daemonVars  == <<listVars, Value, Period, Active, msg, sampleVars, reloadVars, historyVars>>
vars == <<time, timerVars, listVars, sendVars, pc, msg, sampleVars, reloadVars, wake,
          historyVars>>

TickCount == time % TickMod

In(list) == {list[i] : i \in DOMAIN list}
Linked == In(Current) \cup In(Overflow)

\* The lists are switched by the daemon's loop, with the scheduler suspended: no ticks, no
\* other tasks.
Suspended == msg = None /\ (pc = "switch" \/ (pc = "reload" /\ back = "switch"))

-----------------------------------------------------------------------------
(* Time, and those who send commands. *)

\* The timers have been created.
Init ==
  /\ time = InitialTime
  /\ Current = <<>> /\ Overflow = <<>>
  /\ Value = [t \in Timers |-> 0]
  /\ Period = [t \in Timers |-> Created[t].Period]
  /\ Active = [t \in Timers |-> FALSE]
  /\ Autoreload = [t \in Timers |-> Created[t].Autoreload]
  /\ memory = [t \in Timers |-> "live"]
  /\ queue = <<>> /\ calls = 0 /\ call = [c \in Tasks |-> None]
  /\ pc = "loop" /\ msg = None
  /\ xLastTime = 0 /\ sampled = 0
  /\ Timer = None /\ Expired = 0 /\ UpTo = 0 /\ back = "recv"
  /\ wake = Forever
  /\ due = [t \in Timers |-> 0] /\ early = FALSE /\ overslept = FALSE

\* Of TaskIncrementTick, what the daemon sees: the count, while the scheduler is not suspended.
Tick ==
  /\ time < MaxTime /\ ~Suspended
  /\ time' = time + 1
  /\ UNCHANGED <<Autoreload, memory, sendVars, pc, wake, daemonVars>>

\* The messages about t. TimerStart and TimerReset send the time at which they are called.
StartMessage(t) == [ID |-> "start", Timer |-> t, Value |-> TickCount, at |-> time]
Messages(t) ==
  {m \in [ID : Commands \ {"start"}, Timer : {t}, Value : Periods \cup {0}, at : {0}] :
     m.ID = "change" <=> m.Value # 0}
\* A function for the daemon to call.
CallMessage == [ID |-> "call", Timer |-> None, Value |-> 0, at |-> 0]

\* Send finds room, and the daemon is woken if it waits.  That the message is counted, and so can
\* be received, is what timers.cpp expects of Send; as coded it is not.
Enqueue(m) ==
  /\ Len(queue) < QueueLength
  /\ queue' = Append(queue, m)
  /\ pc' = IF pc = "blocked" THEN "recv" ELSE pc
  /\ wake' = Forever

\* A call of the API, within the bound.
Call == calls < MaxCalls /\ calls' = calls + 1

\* A task starts a timer: time goes by between its look at the clock and the message.
TimerStart(c) ==
  /\ ~Suspended /\ Call /\ call[c] = None
  /\ \E t \in Timers : memory[t] = "live" /\ call' = [call EXCEPT ![c] = StartMessage(t)]
  /\ UNCHANGED <<time, Autoreload, memory, queue, pc, wake, daemonVars>>

SendStart(c) ==
  /\ ~Suspended /\ call[c] # None
  /\ Enqueue(call[c])
  /\ call' = [call EXCEPT ![c] = None]
  /\ UNCHANGED <<time, Autoreload, memory, calls, daemonVars>>

\* The queue stays full for as long as the task is willing to wait.
Refused(c) ==
  /\ ~Suspended /\ call[c] # None
  /\ Len(queue) >= QueueLength
  /\ call' = [call EXCEPT ![c] = None]
  /\ UNCHANGED <<time, Autoreload, memory, queue, calls, pc, wake, daemonVars>>

\* Any other command, from a task, a callback or an ISR, if the queue takes it.
GenericCommand(t) ==
  /\ memory[t] = "live" /\ Call
  /\ \E m \in Messages(t) : m.ID # "delete" /\ Enqueue(m)
  /\ UNCHANGED <<time, Autoreload, memory, call, daemonVars>>

\* TimerPendFunctionCall and its ISR form.
PendFunctionCall ==
  /\ Call
  /\ Enqueue(CallMessage)
  /\ UNCHANGED <<time, Autoreload, memory, call, daemonVars>>

StartFromISR(t) ==
  /\ memory[t] = "live" /\ Call
  /\ Enqueue(StartMessage(t))
  /\ UNCHANGED <<time, Autoreload, memory, call, daemonVars>>

\* The application does not use a timer any more once it has sent its deletion.
TimerDelete(t) ==
  /\ ~Suspended /\ memory[t] = "live" /\ Call
  /\ \A c \in Tasks : call[c] # None => call[c].Timer # t
  /\ \E m \in Messages(t) : m.ID = "delete" /\ Enqueue(m)
  /\ memory' = [memory EXCEPT ![t] = IF t \in StaticTimers THEN "live" ELSE "deleting"]
  /\ UNCHANGED <<time, Autoreload, call, daemonVars>>

SetReloadMode(t) ==
  /\ ~Suspended /\ memory[t] = "live" /\ Call
  /\ Autoreload' = [Autoreload EXCEPT ![t] = ~Autoreload[t]]
  /\ UNCHANGED <<time, memory, queue, call, pc, wake, daemonVars>>

-----------------------------------------------------------------------------
(* The lists. *)

\* List_t::insert: behind every item that expires no later.
Inserted(list, t, value) ==
  LET n == Cardinality({i \in DOMAIN list : Value[list[i]] <= value})
  IN  SubSeq(list, 1, n) \o <<t>> \o SubSeq(list, n + 1, Len(list))

\* List_t::remove.
Without(list, t) ==
  IF t \in In(list)
  THEN LET i == CHOOSE j \in DOMAIN list : list[j] = t
       IN  SubSeq(list, 1, i - 1) \o SubSeq(list, i + 1, Len(list))
  ELSE list

\* mutant: an expiry behind the next wrap counts as passed
HasPassedUnwrapped(next, now, commandTime, period) ==
  next <= now \/ (now < commandTime /\ next >= commandTime)
\* The result of InsertTimerInActiveList: the expiry has passed.
HasPassed(next, now, commandTime, period) ==
  IF next <= now THEN (now - commandTime) % TickMod >= period
                 ELSE now < commandTime /\ next >= commandTime

\* mutant: the list is chosen by the wrong comparison
InsertSwapped(t, next, now) ==
  /\ Value' = [Value EXCEPT ![t] = next]
  /\ IF next > now
     THEN Overflow' = Inserted(Overflow, t, next) /\ UNCHANGED Current
     ELSE Current' = Inserted(Current, t, next) /\ UNCHANGED Overflow
\* Its effect if the expiry has not.
Insert(t, next, now) ==
  /\ Value' = [Value EXCEPT ![t] = next]
  /\ IF next <= now
     THEN Overflow' = Inserted(Overflow, t, next) /\ UNCHANGED Current
     ELSE Current' = Inserted(Current, t, next) /\ UNCHANGED Overflow

PlusUnwrapped(tick, n) == tick + n    \* mutant: the sum does not wrap
Plus(tick, n) == (tick + n) % TickMod

-----------------------------------------------------------------------------
(* The daemon. *)

\* The expiry of t that is due is reported; the next one is.
Report(t, next) ==
  /\ early' = (early \/ due[t] > time)
  /\ due' = [due EXCEPT ![t] = next]

\* ProcessExpiredTimer: the head of the current list has expired.
ProcessExpired(expired, now, caller) ==
  LET t == Head(Current) IN
  /\ Current' = Tail(Current)
  /\ IF Autoreload[t]
     THEN /\ pc' = "reload"
          /\ Timer' = t /\ Expired' = expired /\ UpTo' = now /\ back' = caller
          /\ UNCHANGED <<Active, due, early>>
     ELSE /\ pc' = caller
          /\ Active' = [Active EXCEPT ![t] = FALSE]
          /\ Report(t, 0)
          /\ UNCHANGED reloadVars

\* One iteration of ReloadTimer; the last callback is that of its caller.
Reload ==
  LET next == Plus(Expired, Period[Timer]) IN
  /\ pc = "reload"
  /\ Report(Timer, due[Timer] + Period[Timer])
  /\ IF HasPassed(next, UpTo, Expired, Period[Timer])
     THEN /\ Value' = [Value EXCEPT ![Timer] = next]
          /\ Expired' = next
          /\ UNCHANGED <<listVars, pc, Timer, UpTo, back>>
     ELSE /\ Insert(Timer, next, UpTo)
          /\ pc' = back
          /\ Timer' = None /\ Expired' = 0 /\ UpTo' = 0 /\ back' = "recv"
  /\ UNCHANGED <<time, Period, Active, Autoreload, memory, sendVars, msg, sampleVars, wake,
                 overslept>>

\* SampleTimeNow; the lists have to be switched if the tick count is below the last sample.
Sample ==
  /\ xLastTime' = TickCount
  /\ sampled' = time
Wrapped == TickCount < xLastTime

IsDueLate(NextExpire) == NextExpire < TickCount    \* mutant: a tick too late
IsDue(NextExpire) == NextExpire <= TickCount

\* How the wait is called: the time-out counts only if it does not wait indefinitely.
WaitsIndefinitely(ListWasEmpty) == ListWasEmpty \/ Overflow = <<>>

\* An iteration of the daemon's loop, up to its wait.
ProcessTimerOrBlockTask ==
  LET ListWasEmpty == Current = <<>>
      NextExpire == IF ListWasEmpty THEN 0 ELSE Value[Head(Current)]
  IN
  /\ pc = "loop"
  /\ Sample
  /\ overslept' = (overslept \/ time - sampled >= TickMod)
  /\ \/ /\ Wrapped
        /\ pc' = "switch"
        /\ UNCHANGED <<timerVars, listVars, reloadVars, wake, due, early>>
     \/ /\ ~Wrapped
        /\ ~ListWasEmpty /\ IsDue(NextExpire)
        /\ ProcessExpired(NextExpire, TickCount, "recv")
        /\ UNCHANGED <<Value, Period, Autoreload, memory, Overflow, wake>>
     \/ /\ ~Wrapped
        /\ ListWasEmpty \/ ~IsDue(NextExpire)
        /\ IF queue = <<>>
           THEN /\ pc' = "blocked"
                /\ wake' = IF WaitsIndefinitely(ListWasEmpty) THEN Forever
                           ELSE time + (NextExpire - TickCount)
           ELSE pc' = "recv" /\ UNCHANGED wake
        /\ UNCHANGED <<timerVars, listVars, reloadVars, due, early>>
  /\ UNCHANGED <<time, sendVars, msg>>

\* The tick that reaches the wake time of the daemon readies it.
TimesOut ==
  /\ pc = "blocked"
  /\ wake # Forever /\ time >= wake
  /\ pc' = "recv"
  /\ wake' = Forever
  /\ UNCHANGED <<time, timerVars, listVars, sendVars, msg, sampleVars, reloadVars, historyVars>>

\* SwitchTimerLists: what is left in the current list has expired before the wrap.
SwitchTimerLists ==
  /\ pc = "switch"
  /\ IF Current # <<>>
     THEN /\ ProcessExpired(Value[Head(Current)], MaxTick, "switch")
          /\ UNCHANGED Overflow
     ELSE /\ Current' = Overflow /\ Overflow' = Current
          /\ pc' = IF msg = None THEN "recv" ELSE "command"
          /\ UNCHANGED <<Active, reloadVars, due, early>>
  /\ UNCHANGED <<time, Value, Period, Autoreload, memory, sendVars, msg, sampleVars, wake,
                 overslept>>

\* ProcessReceivedCommands: the queue is empty, ...
NoCommand ==
  /\ pc = "recv" /\ queue = <<>>
  /\ pc' = "loop"
  /\ UNCHANGED <<time, Autoreload, memory, sendVars, wake, daemonVars>>

\* ... holds a function to call, ...
CallFunction ==
  /\ pc = "recv" /\ queue # <<>>
  /\ Head(queue).ID = "call"
  /\ queue' = Tail(queue)
  /\ UNCHANGED <<time, Autoreload, memory, calls, call, pc, wake, daemonVars>>

\* ... or a command about a timer, which is taken off its list.
Receive ==
  /\ pc = "recv" /\ queue # <<>>
  /\ Head(queue).ID # "call"
  /\ queue' = Tail(queue)
  /\ msg' = Head(queue)
  /\ Current' = Without(Current, msg'.Timer)
  /\ Overflow' = Without(Overflow, msg'.Timer)
  /\ Sample
  /\ overslept' = \/ overslept \/ time - sampled >= TickMod
                  \/ msg'.ID = "start" /\ time - msg'.at >= TickMod
  /\ pc' = IF Wrapped THEN "switch" ELSE "command"
  /\ UNCHANGED <<time, timerVars, calls, call, reloadVars, wake, due, early>>

\* Start, which may come after the expiry it asks for.
StartCommand ==
  LET t == msg.Timer
      next == Plus(msg.Value, Period[t])
      expiry == msg.at + Period[t]
  IN
  /\ pc = "command" /\ msg.ID = "start"
  /\ IF HasPassed(next, xLastTime, msg.Value, Period[t])
     THEN /\ Value' = [Value EXCEPT ![t] = next]
          /\ UNCHANGED listVars
          /\ IF Autoreload[t]
             THEN /\ pc' = "reload"
                  /\ Timer' = t /\ Expired' = next /\ UpTo' = xLastTime /\ back' = "recv"
                  /\ Active' = [Active EXCEPT ![t] = TRUE]
                  /\ due' = [due EXCEPT ![t] = expiry]
                  /\ UNCHANGED early
             ELSE /\ pc' = "recv"
                  /\ Active' = [Active EXCEPT ![t] = FALSE]
                  /\ due' = [due EXCEPT ![t] = 0]
                  /\ early' = (early \/ expiry > time)
                  /\ UNCHANGED reloadVars
     ELSE /\ Insert(t, next, xLastTime)
          /\ pc' = "recv"
          /\ Active' = [Active EXCEPT ![t] = TRUE]
          /\ due' = [due EXCEPT ![t] = expiry]
          /\ UNCHANGED <<reloadVars, early>>
  /\ msg' = None
  /\ UNCHANGED <<time, Period, Autoreload, memory, sendVars, sampleVars, wake, overslept>>

StopCommand ==
  /\ pc = "command" /\ msg.ID = "stop"
  /\ Active' = [Active EXCEPT ![msg.Timer] = FALSE]
  /\ due' = [due EXCEPT ![msg.Timer] = 0]
  /\ pc' = "recv" /\ msg' = None
  /\ UNCHANGED <<time, Value, Period, Autoreload, memory, listVars, sendVars, sampleVars,
                 reloadVars, wake, early, overslept>>

\* The new period begins when the command is processed.
ChangePeriodCommand ==
  LET t == msg.Timer IN
  /\ pc = "command" /\ msg.ID = "change"
  /\ Active' = [Active EXCEPT ![t] = TRUE]
  /\ Period' = [Period EXCEPT ![t] = msg.Value]
  /\ IF HasPassed(Plus(xLastTime, msg.Value), xLastTime, xLastTime, msg.Value)
     THEN /\ Value' = [Value EXCEPT ![t] = Plus(xLastTime, msg.Value)]
          /\ UNCHANGED listVars
     ELSE Insert(t, Plus(xLastTime, msg.Value), xLastTime)
  /\ due' = [due EXCEPT ![t] = sampled + msg.Value]
  /\ pc' = "recv" /\ msg' = None
  /\ UNCHANGED <<time, Autoreload, memory, sendVars, sampleVars, reloadVars, wake, early,
                 overslept>>

DeleteCommand ==
  LET t == msg.Timer IN
  /\ pc = "command" /\ msg.ID = "delete"
  /\ IF t \in StaticTimers
     THEN Active' = [Active EXCEPT ![t] = FALSE] /\ UNCHANGED memory
     ELSE memory' = [memory EXCEPT ![t] = "freed"] /\ UNCHANGED Active
  /\ due' = [due EXCEPT ![t] = 0]
  /\ pc' = "recv" /\ msg' = None
  /\ UNCHANGED <<time, Value, Period, Autoreload, listVars, sendVars, sampleVars,
                 reloadVars, wake, early, overslept>>

-----------------------------------------------------------------------------

Command == StartCommand \/ StopCommand \/ ChangePeriodCommand \/ DeleteCommand

TimerTask ==
  \/ ProcessTimerOrBlockTask \/ TimesOut
  \/ SwitchTimerLists \/ Reload
  \/ NoCommand \/ CallFunction \/ Receive \/ Command

Next ==
  \/ Tick
  \/ TimerTask
  \/ \E c \in Tasks : TimerStart(c) \/ SendStart(c) \/ Refused(c)
  \/ PendFunctionCall
  \/ \E t \in Timers :
       GenericCommand(t) \/ StartFromISR(t) \/ TimerDelete(t) \/ SetReloadMode(t)

Spec == Init /\ [][Next]_vars

-----------------------------------------------------------------------------

TypeOK ==
  /\ time \in Nat
  /\ Current \in Seq(Timers) /\ Overflow \in Seq(Timers)
  /\ Value \in [Timers -> Ticks]
  /\ Period \in [Timers -> Periods]
  /\ Active \in [Timers -> BOOLEAN] /\ Autoreload \in [Timers -> BOOLEAN]
  /\ memory \in [Timers -> {"live", "deleting", "freed"}]
  /\ queue \in Seq(MessageType \cup {CallMessage}) /\ Len(queue) <= QueueLength
  /\ calls \in 0 .. MaxCalls
  /\ call \in [Tasks -> MessageType \cup {None}]
  /\ pc \in {"loop", "blocked", "switch", "reload", "recv", "command"}
  /\ msg \in MessageType \cup {None}
  /\ xLastTime \in Ticks /\ sampled \in Nat
  /\ Timer \in Timers \cup {None} /\ Expired \in Ticks /\ UpTo \in Ticks
  /\ back \in {"recv", "switch"}
  /\ wake \in Nat \cup {Forever}
  /\ due \in [Timers -> Nat] /\ early \in BOOLEAN /\ overslept \in BOOLEAN

\* Whenever the daemon is in its loop or asks for a command, a timer is in one list, once, if
\* it is active, and in none if it is dormant or its memory is freed; both lists are sorted
\* (timers.cpp 247-256, 307-326, 340-376).
Sorted(list) == \A i, j \in DOMAIN list :
                  i < j => list[i] # list[j] /\ Value[list[i]] <= Value[list[j]]
ActiveAreLinked ==
  /\ Sorted(Current) /\ Sorted(Overflow)
  /\ In(Current) \cap In(Overflow) = {}
  /\ \A t \in Timers : memory[t] = "freed" => t \notin Linked
  /\ pc \in {"loop", "blocked", "recv"} =>
       \A t \in Timers : memory[t] # "freed" => (Active[t] <=> t \in Linked)

\* No expiry is ever reported before its time, however late the daemon and the commands are
\* and however often the tick count wraps (timers.cpp 240-256, 307-326).
NeverEarly == ~early

\* Each running timer is in one list, once and in order; and as long as the daemon and the
\* commands are less than a whole wrap late, the current list has the expiries up to the next
\* wrap and the other list those behind it (timers.cpp 296-326, 340-394).
Epoch(at) == at \div TickMod
ListsMatchEpochs ==
  LET epoch == IF pc = "switch" \/ (pc = "reload" /\ back = "switch")
               THEN Epoch(sampled) - 1 ELSE Epoch(sampled)
  IN
  /\ ActiveAreLinked
  /\ ~overslept =>
    /\ \A t \in In(Current) : Epoch(due[t]) = epoch
    /\ \A t \in In(Overflow) : Epoch(due[t]) = epoch + 1

\* The daemon waits only when no expiry is due, and its wait, if it has a time-out, ends no
\* later than the first one (timers.cpp 269-294).
NothingOverdue ==
  (pc = "blocked" /\ ~overslept) =>
    \A t \in Linked : due[t] > sampled /\ (wake # Forever => wake <= due[t])
=============================================================================
