SPECIFICATION Spec
CONSTANTS
  Timers = {a, b}
  a = a
  b = b
  Created <- MCCreated
  StaticTimers = {a}
  Tasks = {t1}
  None = None
  TickMod = 4
  Periods = {1, 3}
  QueueLength = 2
  InitialTime = 2
  MaxTime = 8
  MaxCalls = 3
CHECK_DEADLOCK FALSE
VIEW MCView
INVARIANTS
  TypeOK
  NeverEarly
  ListsMatchEpochs
  NothingOverdue

