SPECIFICATION Spec
CONSTANTS
  t1 = t1  t2 = t2
  Idle = idle  NULL = NULL
  Task = {t1, t2, idle}
  MaxPriority = 2
  MaxDelay = 2
  InitialTick = 1
  CreatePriority <- MCPriority
  Calls <- WaitCalls
  MaxPendedTicks = 1
  MaxNotified = 1
VIEW MCView
INVARIANTS
  NoLostNotification
  SuspendedSectionsExclusive
  ListsIntact
  EventWaitersBlocked
  HighestPriorityRuns
